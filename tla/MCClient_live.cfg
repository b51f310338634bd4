SPECIFICATION FairSpec
CONSTANTS
  Runner = Runner
  None = None
  c1 = c1
  Conns = {c1}
  s1 = s1
  Senders = {s1}
  k1 = k1
  Closers = {k1}
  MaxAttempts <- Unlimited
  AttemptBound = 0
  AutoRequestKey = TRUE
PROPERTIES
  CloseEndsRun
  RunReleases
  BrokenIsDropped
  CancelStopsServedRun
