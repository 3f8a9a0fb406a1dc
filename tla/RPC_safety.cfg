CONSTANTS
  Clients = {c1, c2, c3}
  Endpoints = {e1}
  Services = {}
  Instances <- MCInstances
  Methods <- MCMethods
  Registered <- MCRegistered
  MethodName <- MCMethodName
  ErrText <- MCErrText
  Payload <- MCPayload
  MaxConns = 1
  MaxCalls = 1
  MaxCloseAll = 1
  MaxCrashes = 1
  MaxCloses = 0
  NoConn = NoConn
  NoChan = NoChan
SPECIFICATION Spec
SYMMETRY ClientSymmetry
INVARIANT TypeOK
INVARIANT ConnOwnership
INVARIANT NoStaleFrames
PROPERTY CallSpecRefined
