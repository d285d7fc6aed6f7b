CONSTANTS
  Services = {"userserver", "lobbyserver"}
  Unknown = unknownWord
  unknownWord = unknownWord
  MaxDepth = 3
  Invocations <- ComposeInvocations
SPECIFICATION Spec
INVARIANT RequestedServiceRuns
