SPECIFICATION FairSpec
CONSTANTS
  Runner = Runner
  None = None
  c1 = c1
  Conns = {c1}
  s1 = s1
  Senders = {s1}
  k1 = k1
  Closers = {k1}
  MaxAttempts = 1
  AttemptBound = 2
  AutoRequestKey = FALSE
PROPERTIES
  CancelStopsRun
