SPECIFICATION Spec
CONSTANTS
  Ops = {op1, op2}
  Calls = {call}
  Skip = {op2}
  Objects = {o1, o2, o3, o4}
  Nil = Nil
  PendingRequests = 1
  Retries = 1
SYMMETRY Symmetry
INVARIANTS
  CallNotCanceled
