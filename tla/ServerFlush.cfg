SPECIFICATION FairSpec
CONSTANTS
  q1 = q1
  q2 = q2
  q3 = q3
  c1 = c1
  Requests = {q1, q2}
  ConnOf <- TwoConn
  IDOf <- TwoID
  Conns = {c1}
  Workers = {w1, w2}
  Concurrency = 2
  PendingResponses = 1
  Messages = {m1, m2}
  Nil = Nil
  MaxStarts = 1
  MaxErrors = 0
PROPERTIES
  ResponsesFlushed
