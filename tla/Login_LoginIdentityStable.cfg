CONSTANTS
  Gens <- MCGens
  NodeID <- MCNodeID
  ProcOf <- MCProcOf
  Handlers = {h1, h2}
  Nicks = {alice}
  NoNick = NoNick
  MaxLogins = 2
  sequenceBits = 1
  nodeIDBits = 1
  timestampBits = 2
  customEpoch = 1
  MaxTime = 4
  MaxBack = 0
SPECIFICATION Spec



INVARIANT LoginIdentityStable
