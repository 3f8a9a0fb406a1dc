CONSTANTS
  Clients = {c1}
  Endpoints = {e1, e2}
  Services = {s1}
  Instances <- MCInstances
  Methods <- MCMethods
  Registered <- MCRegistered
  MethodName <- MCMethodName
  ErrText <- MCErrText
  Payload <- MCPayload
  MaxConns = 1
  MaxCalls = 2
  MaxCloseAll = 1
  MaxCrashes = 1
  MaxCloses = 1
  NoConn = NoConn
  NoChan = NoChan
SPECIFICATION Spec
PROPERTY CallTerminates
PROPERTY ListenReturnsNilOnClose
INVARIANT WireRoundTrip
INVARIANT TruncatedFrameIsEOF
PROPERTY CallSpecRefined
