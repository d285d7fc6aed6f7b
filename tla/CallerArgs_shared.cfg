\* Two goroutines log with one caller slice through the same logger.
CONSTANTS
  Goroutines = {g1, g2}
  CallerFields <- OneCallerField
  Extra <- OneExtra
  CallerCaps <- SpareCaps
  APIs = {"strict", "keyvalue"}
  NoField = NoField
SPECIFICATION Spec
INVARIANT RecordsAreCallLocal
