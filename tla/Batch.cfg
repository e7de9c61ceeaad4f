SPECIFICATION FairSpec
CONSTANTS
  Ops = {op1, op2}
  Calls = {call}
  Skip = {op2}
  Objects = {o1, o2, o3, o4}
  Nil = Nil
  PendingRequests = 1
  Retries = 1
INVARIANTS
  TypeOK
  PooledUnused
  BatchDoneUnblocked
PROPERTIES
  BatchResultFinal
  BatchTerminates
