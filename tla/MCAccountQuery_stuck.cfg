SPECIFICATION FairSpec
CONSTANTS
  NoResult = NoResult
  a = a
  b = b
  Calls = {a, b}
  HandlerCalls = {}
PROPERTIES
  CloseStopsReader
CHECK_DEADLOCK FALSE
