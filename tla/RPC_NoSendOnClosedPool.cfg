CONSTANTS
  Clients = {c1, c2}
  Endpoints = {e1}
  Services = {}
  Instances <- MCInstances
  Methods <- MCMethods
  Registered <- MCRegistered
  MethodName <- MCMethodName
  ErrText <- MCErrText
  Payload <- MCPayload
  MaxConns = 1
  MaxCalls = 2
  MaxCloseAll = 1
  MaxCrashes = 0
  MaxCloses = 0
  NoConn = NoConn
  NoChan = NoChan
SPECIFICATION Spec
SYMMETRY ClientSymmetry
INVARIANT NoSendOnClosedPool
