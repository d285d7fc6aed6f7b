--------------------------- MODULE MC_OtelLogger ---------------------------
(* Model values and input sets for checking OtelLogger with TLC.           *)
EXTENDS OtelLogger

CONSTANTS x1, x2, x3, c1, e1, w1, w2

\* Option constructors, one record shape for every Option.
Opt(kind, lvl, on, fs) == [opt |-> kind, lvl |-> lvl, on |-> on, fs |-> fs]
Extra(fs)       == Opt("extra", 0, FALSE, fs)
MinLevel(lvl)   == Opt("minLevel", lvl, FALSE, <<>>)
TraceID         == Opt("traceID", 0, TRUE, <<>>)
ZapFields(fs)   == Opt("fields", 0, FALSE, fs)
CallerSkip      == Opt("callerSkip", 0, FALSE, <<>>)

MCFieldKind == [f \in {x1, x2, x3, c1, e1} |-> IF f = e1 THEN "error" ELSE "plain"]

\* pass run: every derivation and call kind, small bounds.
BridgeNewOptions   == { <<Extra(<<x1>>), TraceID>>, <<MinLevel(InfoLevel)>> }
BridgeCloneOptions == { <<Extra(<<x2>>)>>, <<MinLevel(ErrorLevel)>> }
BridgeZapOptions   == { <<ZapFields(<<x3>>)>>, <<ZapFields(<<x3>>), ZapFields(<<x3>>)>> }
BridgeCallFields   == { <<c1>> }
BridgeLevels       == {InfoLevel, ErrorLevel, FatalLevel}

\* clone_alias: a logger built up one WithExtraFields at a time, then cloned.
AliasNewOptions   == { <<Extra(<<x1>>)>> }
AliasCloneOptions == { <<Extra(<<x2>>)>>, <<Extra(<<x3>>)>> }

\* withoptions_fields: one zap.Fields option.
DupZapOptions == { <<ZapFields(<<x1>>)>> }

\* withoptions_panic: two zap.Fields options in one call.
PanicZapOptions == { <<ZapFields(<<x1>>), ZapFields(<<x2>>)>> }

\* trace_id: the trace id field on.
TraceNewOptions   == { <<TraceID>> }
NoOptions         == { <<>> }

\* With argument lists: one pair per call, so a second With chains them.
OneWithArg == { <<w1>>, <<w2>> }
=============================================================================
