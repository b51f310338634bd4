SPECIFICATION FairSpec
CONSTANTS
  Runner = Runner
  Heart = Heart
  Callers = {}
  MaxDials = 2
  QueueBound = 2
PROPERTIES
  Renegotiates
