SPECIFICATION Spec
CONSTANTS
  k1 = k1
  k2 = k2
  k3 = k3
  Calls = {k1, k2}
  NoCall = NoCall
  Kind <- CallAndAsync
  Conns = {c1}
  PendingRequests = 1
  LeakFactor = 0
  IDSpace = 4
  Rogue = {}
  MaxStarts = 1
  MaxBreaks = 1
INVARIANTS
  NoResponseMeansError
