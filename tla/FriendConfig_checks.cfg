CONSTANTS
  Writers = {w1, w2}
  Readers = {r1}
  Inputs <- MCInputs
  ServerFriend <- MCServerFriend
  IntBits = 10
  MaxUpdates = 1
  None = None
SPECIFICATION Spec
INVARIANT FriendConfigTypeOK
PROPERTY ConfigReadIsLatest
PROPERTY UpdateConfigReturns
