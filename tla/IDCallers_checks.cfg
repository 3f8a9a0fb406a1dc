CONSTANTS
  Gens = {1, 2}
  NodeID <- MCNodeID
  sequenceBits = 1
  nodeIDBits = 2
  timestampBits = 2
  customEpoch = 2
  MaxTime = 4
  MaxBack = 1
  Callers <- MCCallers
  GenOf <- MCGenOf
  MaxIds = 2
  MsPerSec = 2
  LowBits = 2
  ShortMul = 4
  NoCaller = NoCaller
SPECIFICATION Spec
INVARIANT TypeOK
INVARIANT IDsIncrease
INVARIANT IDStringsRoundTrip
