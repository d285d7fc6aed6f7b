----------------------------- MODULE SugarPairs -----------------------------
(***************************************************************************)
(* How the key/value arguments of one sugared call are read twice: by the  *)
(* bridge (SugaredLogger.logKVs, service.go 892-928), which turns them     *)
(* into span attributes and appends the trace pairs, converting the span's *)
(* ids with convertTraceID (module TraceIDConversion), and by zap's        *)
(* SugaredLogger, which turns the returned list into the record's fields   *)
(* (sweetenFields, as the With doc comment at 722-751 describes it: a      *)
(* zap.Field is taken as it is, a pair whose key is not a string is         *)
(* skipped, an orphaned last key is dropped with a separate error).        *)
(*                                                                         *)
(* The caller builds the argument list one element at a time; Log is the   *)
(* traced path of one <Level>w call (level at or above minLevel, span      *)
(* recording): the untraced path is OtelLogger's.  Every argument value is *)
(* a sequence of characters, so that caller strings, trace ids and their   *)
(* conversions compare; a value's Go type is the set it is drawn from.     *)
(***************************************************************************)
EXTENDS Integers, Sequences, SequencesExt

CONSTANTS
  Strings,     \* string values a caller passes (keys or values)
  Others,      \* values of other types (ints, errors, structs)
  ZapFields,   \* strongly typed zap.Field values
  IdChars,     \* characters the span context's hex ids are drawn from
  MaxLen,      \* bound: length of one argument list
  W            \* characters of a span id (16 in the code)

INSTANCE TraceIDConversion

ASSUME
  /\ Strings \cap (Others \cup ZapFields) = {} /\ Others \cap ZapFields = {}
  /\ IdChars \subseteq HexChars
  /\ MaxLen \in Nat

\* SpanID().String() and TraceID().String(): W and 2W hex characters.
SpanIDs  == [1..W -> IdChars]
TraceIDs == [1..(2 * W) -> IdChars]

VARIABLES
  kvs,          \* the keysAndValues the caller has built
  withTraceID,  \* the logger's withTraceID option (the span has a trace id)
  traceID,      \* the span context's trace id, as TraceID().String()
  spanID,       \* the span context's span id, as SpanID().String()
  attrs,        \* span attributes the bridge derived, as Pair records
  record,       \* fields zap wrote: Pair records and zap.Fields
  logged        \* TRUE once the call has been made

vars == <<kvs, withTraceID, traceID, spanID, attrs, record, logged>>

-----------------------------------------------------------------------------
(* The two readings of an argument list.                                   *)

\* kvs = append(kvs, "traceId", traceID); ... "trace_id", convertTraceID(
\* traceID); ... "spanId", spanID; ... "span_id", convertTraceID(spanID).
TraceKVs(tid, sid) ==
  <<<<"traceId">>, tid, <<"trace_id">>, convertTraceID(tid),
    <<"spanId">>, sid, <<"span_id">>, convertTraceID(sid)>>

\* The trace keys, and the strings the bridge itself appends.
TraceKeys == {<<"traceId">>, <<"trace_id">>, <<"spanId">>, <<"span_id">>}

IsString(x) == x \in Strings \/ x \in TraceKeys \/ x \in Seq(HexChars)

\* One field or attribute: a key/value pair, or a zap.Field as it is.
Pair(k, v)   == [kind |-> "pair", key |-> k, val |-> v]
AsField(f)   == [kind |-> "field", key |-> f, val |-> f]

\* Fault-injection variant: every pair becomes an attribute.
RECURSIVE BridgePairs_AnyKey(_)
BridgePairs_AnyKey(s) ==
  IF Len(s) < 2 THEN <<>>
  ELSE <<Pair(s[1], s[2])>> \o BridgePairs_AnyKey(Tail(Tail(s)))

\* The loop of logKVs: for i := 0; i < len(kvs)-1; i += 2, a pair becomes
\* an attribute when kvs[i] is a string.
RECURSIVE BridgePairs(_)
BridgePairs(s) ==
  IF Len(s) < 2 THEN <<>>
  ELSE (IF IsString(s[1]) THEN <<Pair(s[1], s[2])>> ELSE <<>>)
       \o BridgePairs(Tail(Tail(s)))

\* zap's sweetenFields: a zap.Field is one element; otherwise kvs[i] and
\* kvs[i+1] are a pair, kept when the key is a string; a last element that
\* has no value is an orphaned key and is dropped.
RECURSIVE SweetenFields(_)
SweetenFields(s) ==
  CASE s = <<>>           -> <<>>
    [] s[1] \in ZapFields -> <<AsField(s[1])>> \o SweetenFields(Tail(s))
    [] Len(s) = 1         -> <<>>
    [] OTHER              -> (IF IsString(s[1]) THEN <<Pair(s[1], s[2])>> ELSE <<>>)
                             \o SweetenFields(Tail(Tail(s)))

\* The key/value pairs of a field list.
KeyValues(fs) == SelectSeq(fs, LAMBDA f : f.kind = "pair")

-----------------------------------------------------------------------------
(* The call.                                                               *)

Init ==
  /\ kvs = <<>>
  /\ withTraceID \in BOOLEAN
  /\ traceID \in TraceIDs
  /\ spanID \in SpanIDs
  /\ attrs = <<>>
  /\ record = <<>>
  /\ logged = FALSE

\* The caller adds one more argument.
AddArg(x) ==
  /\ ~logged
  /\ Len(kvs) < MaxLen
  /\ kvs' = Append(kvs, x)
  /\ UNCHANGED <<withTraceID, traceID, spanID, attrs, record, logged>>

\* SugaredLogger.logKVs on its traced path: attributes from the pairs,
\* s.l.log(span, ...), the trace pairs appended; then zap's Infow(msg,
\* keysAndValues...) sweetens the returned list into the record.
Log ==
  LET returned == kvs \o (IF withTraceID THEN TraceKVs(traceID, spanID) ELSE <<>>) IN
  /\ ~logged
  /\ attrs' = BridgePairs(kvs)
  /\ record' = SweetenFields(returned)
  /\ logged' = TRUE
  /\ UNCHANGED <<kvs, withTraceID, traceID, spanID>>

\* After the call nothing more happens.
Done ==
  /\ logged
  /\ UNCHANGED vars

Next ==
  \/ \E x \in Strings \cup Others \cup ZapFields : AddArg(x)
  \/ Log
  \/ Done

Spec == Init /\ [][Next]_vars

-----------------------------------------------------------------------------
(* Properties.                                                             *)

\* The values a caller passes, and those logKVs itself appends.
ArgValues == Strings \cup Others \cup ZapFields
HexValues == Seq(HexChars)

(* Types, with the span attribute's key a Go string: attribute.String     *)
(* takes kvs[i] only after the kvs[i].(string) check, and zap's fields     *)
(* are string-keyed pairs or zap.Fields (after an odd caller list the      *)
(* trace ids themselves become keys: they are strings too).                *)
TypeOK ==
  /\ kvs \in Seq(ArgValues) /\ Len(kvs) <= MaxLen
  /\ withTraceID \in BOOLEAN
  /\ traceID \in TraceIDs /\ spanID \in SpanIDs
  /\ attrs \in Seq([kind : {"pair"}, key : Strings, val : ArgValues])
  /\ record \in Seq([kind : {"pair"}, key : Strings \cup TraceKeys \cup HexValues,
                     val : ArgValues \cup TraceKeys \cup HexValues]
                    \cup {AsField(f) : f \in ZapFields})
  /\ logged \in BOOLEAN

(* The Debugw..Fatalw doc comment: "the variadic key-value pairs are       *)
(* treated as they are in With".  After the call, the span carries, as     *)
(* attributes, exactly the key/value pairs zap makes fields of from the    *)
(* caller's list, in the same order.                                       *)
SpanAttrsMatchRecord ==
  logged => attrs = KeyValues(SweetenFields(kvs))

(* WithTraceIDField and the spec (section 4.1): after a call whose caller  *)
(* list is only pairs (even length, no zap.Field), the record carries      *)
(* traceId and spanId as the hex ids, and trace_id and span_id as the low  *)
(* 64 bits of each in decimal: convertTraceID's slicing, parsing and       *)
(* formatting, against positional definitions of the number and digits.   *)
TraceFieldsInDecimal ==
  logged /\ withTraceID /\ Len(kvs) % 2 = 0 /\ (\A i \in DOMAIN kvs : kvs[i] \notin ZapFields) =>
    LET expected == {Pair(<<"traceId">>, traceID), Pair(<<"spanId">>, spanID),
                     Pair(<<"trace_id">>, Decimal(Low(traceID))),
                     Pair(<<"span_id">>, Decimal(Low(spanID)))}
    IN \A p \in expected : Contains(record, p)

=============================================================================
