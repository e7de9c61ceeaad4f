SPECIFICATION Spec
CONSTANTS
  k1 = k1
  k2 = k2
  k3 = k3
  Calls = {k1, k2, k3}
  NoCall = NoCall
  Kind <- OneOfEach
  Conns = {c1}
  PendingRequests = 1
  LeakFactor = 0
  IDSpace = 2
  Rogue = {}
  MaxStarts = 2
  MaxBreaks = 1
INVARIANTS
  TypeOK
  SingleOwner
  NoLostCall
  CountMatches
  ResponseMatchesRequest
  FlushArmed
PROPERTIES
  DoneIsFinal
  ImplementsRpcCall
