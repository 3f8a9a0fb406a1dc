CONSTANTS
  Gens <- MCGens
  NodeID <- MCNodeID
  ProcOf <- MCProcOf
  Username <- MCUsername
  Handlers = {h1, h2}
  Clients = {h1}
  Nicks = {alice}
  NoNick = NoNick
  MaxLogins = 2
  MaxCalls = 2
  sequenceBits = 1
  nodeIDBits = 1
  timestampBits = 2
  customEpoch = 1
  MaxTime = 3
  MaxBack = 0
SPECIFICATION ClientsSpec
INVARIANT ClientsTypeOK
INVARIANT LoginHasAccount
INVARIANT SessionResolvesToLogin
