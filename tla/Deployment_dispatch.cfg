CONSTANTS
  Services = {"userserver", "lobbyserver"}
  Unknown = unknownWord
  unknownWord = unknownWord
  MaxDepth = 3
  Invocations <- CliInvocations
  r1 = r1
  r2 = r2
  u1 = u1
  u2 = u2
  Requests = {r1, r2}
  Ids = {u1, u2}
  Users = {u1}
  NoId = NoId
SPECIFICATION DeploymentSpec
INVARIANT TypeOK
INVARIANT GatewayTypeOK
INVARIANT RequestedServiceRuns
INVARIANT SingleReexecution
INVARIANT OkCarriesStoredUser
