\* A goroutine with nested ReplaceGlobals scopes, and a concurrent reader.
CONSTANTS
  g1 = g1
  g2 = g2
  lA = lA
  lB = lB
  Goroutines = {g1, g2}
  Loggers = {lA, lB}
  Nop = Nop
  NoOne = NoOne
  Scripts <- NestedScripts
SPECIFICATION Spec
INVARIANT TypeOK
INVARIANT PairConsistent
INVARIANT RestoreReinstatesOriginal
PROPERTY AllCallsComplete
PROPERTY ImplementsGlobalRegister
\* The goroutines' scripts end.
CHECK_DEADLOCK FALSE
