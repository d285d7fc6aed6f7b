----------------------------- MODULE OtelLogger -----------------------------
(***************************************************************************)
(* The otelzap bridge of pkg/logger (service.go lines 364-1390): loggers   *)
(* built by NewOtel and derived by Clone and WithOptions, their            *)
(* extraFields held as Go slices over backing arrays that derived loggers  *)
(* may share, the strict (logFields), templated (logArgs) and key/value    *)
(* (logKVs) log calls, the SugaredLoggers made by Sugar and With with     *)
(* their two zap loggers (the sugared one and skipCaller), the trace span  *)
(* carried by each call's context, and the zap sink that receives the      *)
(* record.                                                                 *)
(*                                                                         *)
(* Every action is one call of one goroutine; goroutines interleave at     *)
(* call boundaries.  Field values are model values: a field is its key.    *)
(***************************************************************************)
EXTENDS Integers, Sequences, SequencesExt, FiniteSets

CONSTANTS
  ConfigFields,    \* fields given to WithExtraFields or zap.Fields
  CallFields,      \* fields passed at a call site
  FieldKind,       \* [ConfigFields \cup CallFields -> FieldKinds]
  Msgs,            \* log messages (and templates)
  Ctxs,            \* request contexts, each carrying one span
  LogLevels,       \* the zap levels callers use
  SinkLevel,       \* level enabled in the zap core behind the bridge
  NewOptionSeqs,   \* option lists passed to NewOtel
  CloneOptionSeqs, \* option lists passed to Clone
  ZapOptionSeqs,   \* zap option lists passed to WithOptions
  CallFieldSeqs,   \* field lists passed to one call
  CallAPIs,        \* the APIs callers use: strict, templated, key/value
  WithArgs,        \* key/value pairs given to SugaredLogger.With
  WithArgSeqs,     \* argument lists passed to one SugaredLogger.With
  Receivers,       \* sugared call receivers: "context" (SugaredLogger.
                   \* XfContext, XwContext) and "ctx" (SugaredLoggerWithCtx)
  MaxSugared,      \* bound: sugared loggers made
  MaxLoggers,      \* bound: loggers built or derived
  MaxCalls,        \* bound: log calls
  MaxCap,          \* bound: capacity of one backing array
  NoField          \* content of an unwritten slot of a backing array

\* zapcore.Level values.
DebugLevel == -1
InfoLevel  == 0
WarnLevel  == 1
ErrorLevel == 2
FatalLevel == 5

FieldKinds == {"plain", "error", "skip", "namespace"}
Fields == ConfigFields \cup CallFields

\* The four fields logFields/logKVs add when withTraceID is on.
TraceFields == <<"traceId", "trace_id", "spanId", "span_id">>

ASSUME
  /\ LogLevels \subseteq {DebugLevel, InfoLevel, WarnLevel, ErrorLevel, FatalLevel}
  /\ FieldKind \in [Fields -> FieldKinds]
  /\ CallAPIs \subseteq {"strict", "templated", "keyvalue"}
  /\ MaxCap \in 1..8     \* below 8 zap.Field (64 bytes) the size class is exact
  /\ NoField \notin Fields
  /\ Receivers \subseteq {"context", "ctx"}
  /\ WithArgs \cap Fields = {}

VARIABLES
  heap,      \* backing arrays: heap[a] is a sequence of MaxCap-bounded slots
  loggers,   \* loggers[i]: the Logger struct of the i-th built or derived logger
  spans,     \* spans[c]: the span carried by context c
  sink,      \* records the zap core wrote, in order
  ncalls,    \* log calls made so far
  running,   \* FALSE once a Fatal call has exited the process
  panicked,  \* TRUE once a bridge operation has panicked
  sugared,   \* sugared[s]: the s-th SugaredLogger: its Logger l, the
             \* context of its zap logger (with) and of its skipCaller
             \* (skipWith), and the pairs given to With on its chain
             \* (given, a history variable)
  pending    \* the log call between two of its span calls: its context,
             \* the span calls left and the record zap then writes

vars == <<heap, loggers, spans, sink, ncalls, running, panicked, sugared, pending>>

\* Go slices over the heap of backing arrays (module GoSlices).
INSTANCE GoSlices

\* appendField's array attributes (module ArrayEncoder).
INSTANCE ArrayEncoder

-----------------------------------------------------------------------------
(* The Logger struct and its Options.                                      *)
(* configured is a history variable: the fields the derivations asked the  *)
(* logger to carry.  core holds the fields zap.Fields put in the zap core. *)

\* NewOtel's defaults.
NewOtelLogger ==
  [extra |-> NilSlice, core |-> <<>>, minLevel |-> WarnLevel,
   errorStatusLevel |-> ErrorLevel, withTraceID |-> FALSE,
   configured |-> <<>>, parent |-> 0]

WithMinLevel(l, lvl) == [l EXCEPT !.minLevel = lvl]

WithErrorStatusLevel(l, lvl) == [l EXCEPT !.errorStatusLevel = lvl]

WithTraceIDField(l, on) == [l EXCEPT !.withTraceID = on]

\* l.extraFields = append(l.extraFields, fields...)
WithExtraFields(h, l, fs) ==
  LET r == GoAppend(h, l.extra, fs)
  IN <<r[1], [l EXCEPT !.extra = r[2], !.configured = @ \o fs]>>

\* One Option applied to <<heap, logger>>.
ApplyOption(st, o) ==
  CASE o.opt = "minLevel"    -> <<st[1], WithMinLevel(st[2], o.lvl)>>
    [] o.opt = "errorStatus" -> <<st[1], WithErrorStatusLevel(st[2], o.lvl)>>
    [] o.opt = "traceID"     -> <<st[1], WithTraceIDField(st[2], o.on)>>
    [] o.opt = "extra"       -> WithExtraFields(st[1], st[2], o.fs)

\* for _, opt := range opts { opt(l) }
ApplyOptions(h, l, opts) == FoldLeft(ApplyOption, <<h, l>>, opts)

\* zap.New(&fieldExtractorCore{...}, opts...): each zap.Fields option calls
\* core.With, which collects the fields and returns a nil core; a later
\* zap.Fields option then calls With on that nil core and panics.
ExtractFields(zopts) ==
  LET step(st, o) ==
        IF o.opt = "fields"
        THEN IF st.coreNil THEN [st EXCEPT !.panics = TRUE]
             ELSE [st EXCEPT !.fields = @ \o o.fs, !.coreNil = TRUE]
        ELSE st
  IN FoldLeft(step, [fields |-> <<>>, coreNil |-> FALSE, panics |-> FALSE], zopts)

\* The zap core of l.Logger.WithOptions(opts...): zap.Fields adds context.
ZapWithOptions(core, zopts) ==
  core \o FlattenSeq([i \in DOMAIN zopts |-> zopts[i].fs])

FitsCap(h) == \A a \in DOMAIN h : Len(h[a]) <= MaxCap

-----------------------------------------------------------------------------
(* Spans (the OpenTelemetry SDK's recording span, an external collaborator). *)
(* AddEvent and SetStatus are ignored once the span has ended (or when it  *)
(* never recorded); SetStatus never lowers Error to Unset.  Logger.log is  *)
(* the sequence of span calls it makes, in order; the span's owner may end  *)
(* the span between two of them.                                            *)

NoStatus == [code |-> "Unset", desc |-> ""]

SpanKinds ==
  { [recording |-> TRUE,  traceID |-> TRUE],    \* sampled span
    [recording |-> FALSE, traceID |-> TRUE],    \* span not sampled
    [recording |-> FALSE, traceID |-> FALSE] }  \* no span in the context

\* appendField: the attribute keys one field becomes.
AttrKeys(f) ==
  CASE FieldKind[f] = "error" -> <<"exception.type", "exception.message">>
    [] FieldKind[f] = "skip"  -> <<>>
    [] OTHER                  -> <<f>>

\* The loop over fields in logFields: NamespaceType is skipped.
FieldAttrs(fs) ==
  FlattenSeq([i \in DOMAIN fs |->
                IF FieldKind[fs[i]] = "namespace" THEN <<>> ELSE AttrKeys(fs[i])])

\* The "log" event of a call.
LogEvent(l, lvl, msg, attrs) ==
  [call |-> "AddEvent", logger |-> l, lvl |-> lvl, msg |-> msg,
   attrs |-> attrs \o <<"log.severity", "log.message">>]

\* Fault-injection variants of log, used to validate the properties:
\* status only strictly above errorStatusLevel ...
log_StatusAboveLevel(l, lg, lvl, msg, attrs) ==
  << LogEvent(l, lvl, msg, attrs) >>
  \o (IF lvl > lg.errorStatusLevel THEN << [call |-> "SetStatus", code |-> "Error", desc |-> msg] >>
      ELSE <<>>)

\* ... codes.Ok set below errorStatusLevel ...
log_OkBelowLevel(l, lg, lvl, msg, attrs) ==
  << LogEvent(l, lvl, msg, attrs),
     IF lvl >= lg.errorStatusLevel THEN [call |-> "SetStatus", code |-> "Error", desc |-> msg]
     ELSE [call |-> "SetStatus", code |-> "Ok", desc |-> ""] >>

\* ... and the status set before the event is added.
log_StatusFirst(l, lg, lvl, msg, attrs) ==
  (IF lvl >= lg.errorStatusLevel THEN << [call |-> "SetStatus", code |-> "Error", desc |-> msg] >>
   ELSE <<>>)
  \o << LogEvent(l, lvl, msg, attrs) >>

\* Logger.log: span.AddEvent("log", ...), then span.SetStatus(codes.Error,
\* msg) when lvl >= errorStatusLevel.
log(l, lg, lvl, msg, attrs) ==
  << LogEvent(l, lvl, msg, attrs) >>
  \o (IF lvl >= lg.errorStatusLevel THEN << [call |-> "SetStatus", code |-> "Error", desc |-> msg] >>
      ELSE <<>>)

\* One span call on the SDK's span: a no-op unless the span records.
SpanCall(sp, op) ==
  IF ~sp.recording THEN sp
  ELSE IF op.call = "AddEvent"
       THEN [sp EXCEPT !.events = Append(@, [f \in {"logger", "lvl", "msg", "attrs"} |-> op[f]])]
       ELSE [sp EXCEPT !.status = [code |-> op.code, desc |-> op.desc]]

\* zap writes the record if its core enables lvl; Fatal then exits.
\* s is the sugared logger that made the call, 0 for the strict API.
Emit(rec) ==
  /\ sink' = IF rec.lvl >= SinkLevel THEN Append(sink, rec) ELSE sink
  /\ running' = (rec.lvl # FatalLevel)
  /\ ncalls' = ncalls + 1

\* The record of a call by logger l (sugared logger s, 0 for the strict API).
Record(l, s, c, lvl, msg, fs) ==
  [logger |-> l, sugar |-> s, ctx |-> c, lvl |-> lvl, msg |-> msg, fields |-> fs]

NoPending == [ctx |-> "none", ops |-> <<>>]

\* A call's first span call; with more to come the call is pending between
\* them, else zap writes rec at once.
Invoke(c, ops, rec) ==
  /\ spans' = IF ops = <<>> THEN spans ELSE [spans EXCEPT ![c] = SpanCall(@, Head(ops))]
  /\ IF Len(ops) <= 1
     THEN Emit(rec) /\ pending' = NoPending
     ELSE /\ pending' = [ctx |-> c, ops |-> Tail(ops), rec |-> rec]
          /\ UNCHANGED <<sink, ncalls, running>>

-----------------------------------------------------------------------------
(* Operations.                                                             *)

Init ==
  /\ heap = <<>>
  /\ loggers = <<>>
  /\ spans \in [Ctxs -> {k @@ [events |-> <<>>, status |-> NoStatus] : k \in SpanKinds}]
  /\ sink = <<>>
  /\ ncalls = 0
  /\ running = TRUE
  /\ panicked = FALSE
  /\ sugared = <<>>
  /\ pending = NoPending

CanDerive == running /\ Len(loggers) < MaxLoggers

\* NewOtel(logger, opts...): defaults, then each option in turn.
NewOtel(opts) ==
  LET st == ApplyOptions(heap, NewOtelLogger, opts) IN
  /\ CanDerive
  /\ FitsCap(st[1])
  /\ heap' = st[1]
  /\ loggers' = Append(loggers, st[2])
  /\ UNCHANGED <<spans, sink, ncalls, running, panicked, sugared, pending>>

\* Clone(opts...): clone := *l copies the struct, extraFields slice header
\* included, then applies the options to the copy.
Clone(p, opts) ==
  LET st == ApplyOptions(heap, [loggers[p] EXCEPT !.parent = p], opts) IN
  /\ CanDerive
  /\ FitsCap(st[1])
  /\ heap' = st[1]
  /\ loggers' = Append(loggers, st[2])
  /\ UNCHANGED <<spans, sink, ncalls, running, panicked, sugared, pending>>

\* WithOptions(opts...) when the field extraction panics.
WithOptionsPanics(p, zopts) ==
  /\ CanDerive
  /\ ExtractFields(zopts).panics
  /\ panicked' = TRUE
  /\ UNCHANGED <<heap, loggers, spans, sink, ncalls, running, sugared, pending>>

\* WithOptions(opts...): extract the zap.Fields, clone, derive the zap
\* loggers with the options, append the extracted fields to extraFields.
WithOptions(p, zopts) ==
  LET ex == ExtractFields(zopts)
      lg == [loggers[p] EXCEPT !.parent = p,
                               !.core = ZapWithOptions(@, zopts)]
      r  == GoAppend(heap, lg.extra, ex.fields)
  IN
  /\ CanDerive
  /\ ~ex.panics
  /\ FitsCap(r[1])
  /\ heap' = r[1]
  /\ loggers' = Append(loggers, [lg EXCEPT !.extra = r[2],
                                           !.configured = @ \o ex.fields])
  /\ UNCHANGED <<spans, sink, ncalls, running, panicked, sugared, pending>>

\* Calls come from one goroutine: the next starts when the last returned.
CanLog(l) == running /\ ncalls < MaxCalls /\ l \in DOMAIN loggers /\ pending = NoPending

\* Whether a call at lvl reaches the span: lvl >= minLevel and recording.
Traced(lg, sp, lvl) == lvl >= lg.minLevel /\ sp.recording

\* The trace fields logFields/logKVs add after calling log.
TraceIDFields(lg, sp, lvl) ==
  IF Traced(lg, sp, lvl) /\ lg.withTraceID /\ sp.traceID
  THEN TraceFields ELSE <<>>

\* Logger.logFields: the span calls it makes, and the fields it returns.
logFields(sp, l, lg, lvl, msg, fs) ==
  LET fields == fs \o Visible(heap, lg.extra) IN
  [ops    |-> IF Traced(lg, sp, lvl) THEN log(l, lg, lvl, msg, FieldAttrs(fields)) ELSE <<>>,
   fields |-> fields \o TraceIDFields(lg, sp, lvl)]

\* SugaredLogger.logArgs: only the template reaches the span.
logArgs(sp, l, lg, lvl, template) ==
  IF Traced(lg, sp, lvl) THEN log(l, lg, lvl, template, <<"log.template">>) ELSE <<>>

\* SugaredLogger.logKVs with well-formed pairs: each pair is one attribute;
\* it returns the pairs, with the trace pairs appended.
logKVs(sp, l, lg, lvl, msg, kvs) ==
  [ops |-> IF Traced(lg, sp, lvl) THEN log(l, lg, lvl, msg, kvs) ELSE <<>>,
   kvs |-> kvs \o TraceIDFields(lg, sp, lvl)]

\* Strict API, LoggerWithCtx.Debug..Fatal (and Logger.DebugContext..):
\* fields = l.logFields(ctx, lvl, msg, fields); skipCaller.<Level>(msg, fields...)
StrictCall(l, c, lvl, msg, fs) ==
  LET r == logFields(spans[c], l, loggers[l], lvl, msg, fs) IN
  /\ CanLog(l)
  /\ Invoke(c, r.ops, Record(l, 0, c, lvl, msg, loggers[l].core \o r.fields))
  /\ UNCHANGED <<heap, loggers, panicked, sugared>>

CanSugar == running /\ Len(sugared) < MaxSugared

\* Logger.Sugar: the sugared zap logger and the sugared skipCaller, both
\* over the zap core of l (zap.Fields context included).
Sugar(l) ==
  /\ CanSugar
  /\ sugared' = Append(sugared, [l |-> l, with |-> <<>>, skipWith |-> <<>>, given |-> <<>>])
  /\ UNCHANGED <<heap, loggers, spans, sink, ncalls, running, panicked, pending>>

\* SugaredLogger.With: the zap sugared logger gets the pairs; skipCaller is
\* carried over as it is.
With(s, args) ==
  /\ CanSugar
  /\ sugared' = Append(sugared, [sugared[s] EXCEPT !.with = @ \o args, !.given = @ \o args])
  /\ UNCHANGED <<heap, loggers, spans, sink, ncalls, running, panicked, pending>>

\* The zap logger a sugared call writes through: SugaredLogger.<Level>f and
\* <Level>w write via s.SugaredLogger, SugaredLoggerWithCtx.<Level>f and
\* <Level>w via s.s.skipCaller.
WriterContext(s, recv) ==
  loggers[sugared[s].l].core \o
    (IF recv = "context" THEN sugared[s].with ELSE sugared[s].skipWith)

CanLogSugared(s) == running /\ ncalls < MaxCalls /\ s \in DOMAIN sugared /\ pending = NoPending

\* Templated API, SugaredLogger.DebugfContext..FatalfContext and
\* SugaredLoggerWithCtx.Debugf..Fatalf: logArgs, then the zap sugared
\* logger formats and writes the message with its own context only.
TemplatedCall(s, recv, c, lvl, template) ==
  LET l == sugared[s].l IN
  /\ CanLogSugared(s)
  /\ Invoke(c, logArgs(spans[c], l, loggers[l], lvl, template),
            Record(l, s, c, lvl, template, WriterContext(s, recv)))
  /\ UNCHANGED <<heap, loggers, panicked, sugared>>

\* Key/value API, SugaredLogger.DebugwContext..FatalwContext and
\* SugaredLoggerWithCtx.Debugw..Fatalw: keysAndValues = logKVs(...); then
\* the zap sugared logger writes msg with keysAndValues.
KVCall(s, recv, c, lvl, msg, kvs) ==
  LET l == sugared[s].l
      r == logKVs(spans[c], l, loggers[l], lvl, msg, kvs)
  IN
  /\ CanLogSugared(s)
  /\ Invoke(c, r.ops, Record(l, s, c, lvl, msg, WriterContext(s, recv) \o r.kvs))
  /\ UNCHANGED <<heap, loggers, panicked, sugared>>

\* The pending call's next span call (SetStatus after AddEvent); after the
\* last, logFields returns and zap writes the record.
ContinueCall ==
  /\ pending # NoPending
  /\ spans' = [spans EXCEPT ![pending.ctx] = SpanCall(@, Head(pending.ops))]
  /\ IF Len(pending.ops) = 1
     THEN Emit(pending.rec) /\ pending' = NoPending
     ELSE /\ pending' = [pending EXCEPT !.ops = Tail(@)]
          /\ UNCHANGED <<sink, ncalls, running>>
  /\ UNCHANGED <<heap, loggers, panicked, sugared>>

\* The request that owns the span ends it (span.End() by the caller).
EndSpan(c) ==
  /\ running
  /\ spans[c].recording
  /\ spans' = [spans EXCEPT ![c].recording = FALSE]
  /\ UNCHANGED <<heap, loggers, sink, ncalls, running, panicked, sugared, pending>>

Next ==
  \/ \E opts \in NewOptionSeqs : NewOtel(opts)
  \/ \E p \in DOMAIN loggers, opts \in CloneOptionSeqs : Clone(p, opts)
  \/ \E p \in DOMAIN loggers, zo \in ZapOptionSeqs :
        WithOptions(p, zo) \/ WithOptionsPanics(p, zo)
  \/ \E l \in DOMAIN loggers, c \in Ctxs, lvl \in LogLevels, m \in Msgs, fs \in CallFieldSeqs :
        "strict" \in CallAPIs /\ StrictCall(l, c, lvl, m, fs)
  \/ \E l \in DOMAIN loggers : Sugar(l)
  \/ \E s \in DOMAIN sugared, args \in WithArgSeqs : With(s, args)
  \/ \E s \in DOMAIN sugared, r \in Receivers, c \in Ctxs, lvl \in LogLevels, m \in Msgs :
        \/ "templated" \in CallAPIs /\ TemplatedCall(s, r, c, lvl, m)
        \/ "keyvalue" \in CallAPIs /\ \E fs \in CallFieldSeqs : KVCall(s, r, c, lvl, m, fs)
  \/ ContinueCall
  \/ \E c \in Ctxs : EndSpan(c)

Spec == Init /\ [][Next]_vars

-----------------------------------------------------------------------------
(* Properties.                                                             *)

SliceType == [arr : Nat, len : 0..MaxCap, cap : 0..MaxCap]

TypeOK ==
  /\ heap \in Seq(Seq(ConfigFields \cup {NoField}))
  /\ \A i \in DOMAIN loggers :
       /\ loggers[i].extra \in SliceType
       /\ loggers[i].extra.arr \in 0..Len(heap)
       /\ loggers[i].extra.len <= loggers[i].extra.cap
       /\ loggers[i].parent \in 0..(i - 1)
  /\ \A c \in Ctxs :
       /\ spans[c].status.code \in {"Unset", "Error"}
       /\ \A i \in DOMAIN spans[c].events : spans[c].events[i].lvl \in LogLevels
  /\ ncalls \in 0..MaxCalls
  /\ running \in BOOLEAN
  /\ panicked \in BOOLEAN
  /\ \A s \in DOMAIN sugared :
       /\ sugared[s].l \in DOMAIN loggers
       /\ sugared[s].with \in Seq(WithArgs)
       /\ sugared[s].skipWith \in Seq(WithArgs)
       /\ sugared[s].given \in Seq(WithArgs)
  /\ pending = NoPending \/ (pending.ctx \in Ctxs /\ pending.ops # <<>>)

\* The indices of the events on c's span at or above their logger's
\* errorStatusLevel.
ErrorEvents(c) ==
  {i \in DOMAIN spans[c].events :
     spans[c].events[i].lvl >= loggers[spans[c].events[i].logger].errorStatusLevel}

(* Logger.log sets the span status to Error with the message whenever the *)
(* call's level reaches the errorStatusLevel of the logger that made it:   *)
(* while a span records and no call on it is between AddEvent and          *)
(* SetStatus, its status is Error exactly when one of its "log" events was *)
(* at or above that level, and its description is the message of the      *)
(* latest.                                                                 *)
ErrorStatusMatchesEvents ==
  \A c \in Ctxs : spans[c].recording /\ pending.ctx # c =>
    IF ErrorEvents(c) = {} THEN spans[c].status = NoStatus
    ELSE spans[c].status = [code |-> "Error", desc |-> spans[c].events[Max(ErrorEvents(c))].msg]

(* The span's owner may end it at any point of a log call on another      *)
(* goroutine (logFields checks IsRecording once, then log calls AddEvent   *)
(* and SetStatus).  Because log adds the event before it sets the status,  *)
(* a span never ends with an Error status whose message no error-level     *)
(* "log" event on it carries, however End interleaves with the calls.      *)
StatusImpliesErrorEvent ==
  \A c \in Ctxs : spans[c].status.code = "Error" =>
    \E i \in ErrorEvents(c) : spans[c].events[i].msg = spans[c].status.desc

\* Occurrences of f in the sequence s.
CountIn(s, f) == Cardinality({i \in DOMAIN s : s[i] = f})

(* WithExtraFields: "add the given extra fields to structured log messages *)
(* and the span"; Clone and WithOptions produce independent loggers.  Every *)
(* record the zap core writes carries each field configured on the logger  *)
(* that wrote it (by WithExtraFields or zap.Fields, on it or an ancestor)   *)
(* exactly as often as it was configured, and no field configured only on  *)
(* another logger.                                                          *)
RecordsCarryConfiguredFields ==
  \A i \in DOMAIN sink : \A f \in ConfigFields :
    CountIn(sink[i].fields, f) = CountIn(loggers[sink[i].logger].configured, f)

(* WithTraceIDField: with it on, a record whose context carries a span with *)
(* a valid trace id gets the traceId, trace_id, spanId and span_id fields.  *)
TraceIDOnEveryRecord ==
  \A i \in DOMAIN sink :
    loggers[sink[i].logger].withTraceID /\ spans[sink[i].ctx].traceID
      => \A k \in DOMAIN TraceFields : Contains(sink[i].fields, TraceFields[k])

(* appendField's array attribute, as the bufferArrayEncoder builds it one  *)
(* Append call at a time with a fresh encoder per nested array, is the     *)
(* attribute spec section 8 describes element by element (one entry per   *)
(* element, the i-th its "%v" rendering, <key>_error when the marshal      *)
(* fails), for every array field a call can pass while the process runs:   *)
(* marshalers of up to two elements holding arrays of one element nested  *)
(* two deep (primitives, objects that fail or not, arrays, with or without *)
(* returning nested errors).  The check over the marshalers is a constant, *)
(* evaluated once.                                                          *)
ArrayAttrRendersElements == running => ArrayAttrsMatchReference

(* SugaredLogger.With "adds a variadic number of fields to the logging     *)
(* context": every record a sugared logger writes, through the             *)
(* SugaredLogger or through its Ctx(ctx) SugaredLoggerWithCtx, carries each *)
(* pair given to With on it or on the sugared loggers it was derived from,  *)
(* as often as it was given.                                                *)
SugaredRecordsCarryWithContext ==
  \A i \in DOMAIN sink : sink[i].sugar # 0 =>
    \A a \in WithArgs : CountIn(sink[i].fields, a) = CountIn(sugared[sink[i].sugar].given, a)

(* Deriving a logger and logging never panic: the bridge absorbs every      *)
(* fault instead of crashing its caller.                                    *)
NoPanic == ~panicked

=============================================================================
