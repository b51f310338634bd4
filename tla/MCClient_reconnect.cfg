SPECIFICATION Spec
CONSTANTS
  Runner = Runner
  None = None
  c1 = c1
  c2 = c2
  Conns = {c1, c2}
  s1 = s1
  Senders = {s1}
  k1 = k1
  Closers = {k1}
  MaxAttempts = 1
  AttemptBound = 2
  AutoRequestKey = FALSE
INVARIANTS
  ReconnectFlagged
