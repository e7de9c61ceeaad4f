SPECIFICATION FairSpec
CHECK_DEADLOCK FALSE
CONSTANTS
  g1 = g1
  g2 = g2
  g3 = g3
  qa = qa
  qb = qb
  Gets = {g1, g2, g3}
  Queues = {qa, qb}
  QueueOf <- TwoQueues
  Invalid = {g2}
  Entries = {e1, e2, e3}
  Nil = Nil
  ChanSize = 1
  MaxBatchCount = 2
INVARIANTS
  TypeOK
  ResponseToRequester
  InflightExact
  ReadyMeansFree
  ErrorsNeedInvalid
PROPERTIES
  EveryGetReturns
