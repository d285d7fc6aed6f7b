\* The bridge with every derivation, the strict calls, and sugared loggers
\* (Sugar, chained With) writing through <Level>fContext and <Level>wContext.
CONSTANTS
  x1 = x1
  x2 = x2
  x3 = x3
  c1 = c1
  e1 = e1
  w1 = w1
  w2 = w2
  WithArgs = {w1, w2}
  NoField = NoField
  ConfigFields = {x1, x2, x3}
  CallFields = {c1, e1}
  FieldKind <- MCFieldKind
  Msgs = {m1, m2}
  Ctxs = {ctx1}
  LogLevels <- BridgeLevels
  SinkLevel = 0
  NewOptionSeqs <- BridgeNewOptions
  CloneOptionSeqs <- BridgeCloneOptions
  ZapOptionSeqs <- BridgeZapOptions
  CallFieldSeqs <- BridgeCallFields
  CallAPIs = {"strict", "templated", "keyvalue"}
  MaxLoggers = 2
  MaxCalls = 2
  MaxCap = 4
  Receivers = {"context"}
  WithArgSeqs <- OneWithArg
  MaxSugared = 2
SPECIFICATION Spec
INVARIANT TypeOK
INVARIANT ErrorStatusMatchesEvents
INVARIANT StatusImpliesErrorEvent
INVARIANT ArrayAttrRendersElements
\* Fatal exits the process, and the bounds end every behaviour.
CHECK_DEADLOCK FALSE
