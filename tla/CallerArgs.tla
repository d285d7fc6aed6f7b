----------------------------- MODULE CallerArgs -----------------------------
(***************************************************************************)
(* The caller's argument slice in logFields and logKVs (service.go         *)
(* 505-547, 892-928).  Go passes fields... and keysAndValues... as the      *)
(* caller's own slice, and both functions append to it: logFields the      *)
(* logger's extraFields, both the four trace fields.  An append that fits  *)
(* the capacity writes into the caller's backing array.  Here goroutines   *)
(* log concurrently with the same caller slice through one logger; each    *)
(* statement that appends is one step, and zap writes the record from the  *)
(* returned slice in a last step.  A concurrent write and read of the same *)
(* slot is a data race; the model lets a read see either write (a torn     *)
(* zap.Field, which the race also allows, is left out).                     *)
(***************************************************************************)
EXTENDS Integers, Sequences, SequencesExt

CONSTANTS
  Goroutines,    \* goroutines logging with the shared caller slice
  CallerFields,  \* the caller's arguments: the elements of its slice
  Extra,         \* the logger's extraFields (a sequence)
  CallerCaps,    \* capacities the caller's slice may have
  APIs,          \* "strict" (LoggerWithCtx.<Level>) or "keyvalue" (<Level>w)
  NoField        \* content of an unwritten slot of a backing array

INSTANCE GoSlices

ASSUME
  /\ \A c \in CallerCaps : c >= Len(CallerFields)
  /\ APIs \subseteq {"strict", "keyvalue"}

\* An element of an argument slice: a field or key named key, carrying the
\* value of goroutine span's trace (NoSpan for what is not a trace value).
NoSpan == 0
Elem(key, span) == [key |-> key, span |-> span]

\* The four trace fields; the value of the i-th is g's own.
TraceKeys == <<"traceId", "trace_id", "spanId", "span_id">>
TraceValue(g, i) == Elem(TraceKeys[i], g)

VARIABLES
  heap,     \* backing arrays; heap[1] is the caller's
  args,     \* args[g]: g's fields / kvs slice header inside the call
  api,      \* api[g]: the API g calls (the slice's type decides it)
  traced,   \* traced[g]: lvl >= minLevel, span recording, withTraceID on
  k,        \* k[g]: trace appends g has done
  pc,       \* pc[g]: "extra", "trace", "write" or "done"
  sink      \* records zap wrote: [g, fields]

vars == <<heap, args, api, traced, k, pc, sink>>

-----------------------------------------------------------------------------
\* logFields: fields = append(fields, zap.String(TraceKeys[i], ...)), one
\* zap.Field per append.
StrictTraceAppend(g, i) == <<TraceValue(g, i)>>

\* logKVs: kvs = append(kvs, TraceKeys[i], ...), key and value per append.
KVTraceAppend(g, i) == <<Elem(TraceKeys[i], NoSpan), TraceValue(g, i)>>

TraceAppend(g, i) ==
  IF api[g] = "strict" THEN StrictTraceAppend(g, i) ELSE KVTraceAppend(g, i)

\* What g's call hands zap: the caller's arguments, the extra fields
\* (logFields only) and g's own trace fields.
ExpectedRecord(g) ==
  CallerFields
  \o (IF api[g] = "strict" THEN Extra ELSE <<>>)
  \o (IF traced[g] THEN FlattenSeq([i \in 1..4 |-> TraceAppend(g, i)]) ELSE <<>>)

-----------------------------------------------------------------------------
Init ==
  \E c \in CallerCaps :
    /\ heap = << CallerFields \o [i \in 1..(c - Len(CallerFields)) |-> NoField] >>
    /\ args = [g \in Goroutines |-> [arr |-> 1, len |-> Len(CallerFields), cap |-> c]]
    \* a []zap.Field and a []interface{} are different slices: all the
    \* goroutines sharing one call the same API
    /\ \E a \in APIs : api = [g \in Goroutines |-> a]
    /\ traced \in [Goroutines -> BOOLEAN]
    /\ k = [g \in Goroutines |-> 0]
    /\ pc = [g \in Goroutines |-> "extra"]
    /\ sink = <<>>

\* logFields: if len(l.extraFields) > 0 { fields = append(fields,
\* l.extraFields...) }; then, below minLevel or without a recording span,
\* return.  logKVs appends nothing here.
AppendExtra(g) ==
  LET r == IF api[g] = "strict" THEN GoAppend(heap, args[g], Extra)
           ELSE <<heap, args[g]>>
  IN
  /\ pc[g] = "extra"
  /\ heap' = r[1]
  /\ args' = [args EXCEPT ![g] = r[2]]
  /\ pc' = [pc EXCEPT ![g] = IF traced[g] THEN "trace" ELSE "write"]
  /\ UNCHANGED <<api, traced, k, sink>>

\* One of the four appends of the withTraceID block (after l.log).
AppendTrace(g) ==
  LET r == GoAppend(heap, args[g], TraceAppend(g, k[g] + 1)) IN
  /\ pc[g] = "trace"
  /\ heap' = r[1]
  /\ args' = [args EXCEPT ![g] = r[2]]
  /\ k' = [k EXCEPT ![g] = @ + 1]
  /\ pc' = [pc EXCEPT ![g] = IF k[g] + 1 = 4 THEN "write" ELSE "trace"]
  /\ UNCHANGED <<api, traced, sink>>

\* The caller of logFields/logKVs passes the returned slice to zap
\* (l.skipCaller.<Level>(msg, fields...), s.<Level>w(msg, kvs...)), which
\* encodes its elements into the record.
Write(g) ==
  /\ pc[g] = "write"
  /\ sink' = Append(sink, [g |-> g, fields |-> Visible(heap, args[g])])
  /\ pc' = [pc EXCEPT ![g] = "done"]
  /\ UNCHANGED <<heap, args, api, traced, k>>

Finished == \A g \in Goroutines : pc[g] = "done"

Next ==
  \/ \E g \in Goroutines : AppendExtra(g) \/ AppendTrace(g) \/ Write(g)
  \/ Finished /\ UNCHANGED vars

Spec == Init /\ [][Next]_vars

-----------------------------------------------------------------------------
TypeOK ==
  /\ pc \in [Goroutines -> {"extra", "trace", "write", "done"}]
  /\ k \in [Goroutines -> 0..4]
  /\ \A g \in Goroutines : args[g].arr \in DOMAIN heap

(* Spec section 5: "Per-call state (fields slice, attribute slice) is      *)
(* stack-local and never shared across calls".  Every record zap writes    *)
(* holds exactly what its own call handed it: the caller's arguments, the *)
(* logger's extra fields and the trace fields of its own span, whatever    *)
(* other calls run at the same time with the same arguments.              *)
RecordsAreCallLocal ==
  \A i \in DOMAIN sink : sink[i].fields = ExpectedRecord(sink[i].g)

=============================================================================
