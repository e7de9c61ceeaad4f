SPECIFICATION FairSpec
CONSTANTS
  k1 = k1
  k2 = k2
  k3 = k3
  Calls = {k1, k2}
  NoCall = NoCall
  Kind <- CallAndAsync
  Conns = {c1}
  PendingRequests = 1
  LeakFactor = 0
  IDSpace = 3
  Rogue = {1}
  MaxStarts = 1
  MaxBreaks = 1
PROPERTIES
  StopTerminates
  PendingCompleted
  BufferedRequestsFlushed
  CanceledInQueueNotSent
