\* Records of a logger built WithTraceIDField(true) under default levels.
CONSTANTS
  x1 = x1
  x2 = x2
  x3 = x3
  c1 = c1
  e1 = e1
  w1 = w1
  w2 = w2
  WithArgs = {w1, w2}
  NoField = NoField
  ConfigFields = {x1, x2, x3}
  CallFields = {c1, e1}
  FieldKind <- MCFieldKind
  Msgs = {m1}
  Ctxs = {ctx1}
  LogLevels = {0, 2}
  SinkLevel = 0
  NewOptionSeqs <- TraceNewOptions
  CloneOptionSeqs = {}
  ZapOptionSeqs = {}
  CallFieldSeqs <- BridgeCallFields
  CallAPIs = {"strict", "templated", "keyvalue"}
  MaxLoggers = 1
  MaxCalls = 1
  MaxCap = 4
  Receivers = {"context"}
  WithArgSeqs = {}
  MaxSugared = 1
SPECIFICATION Spec
INVARIANT TraceIDOnEveryRecord
CHECK_DEADLOCK FALSE
