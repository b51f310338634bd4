SPECIFICATION FairSpec
CONSTANTS
  NoResult = NoResult
  a = a
  b = b
  Calls = {a, b}
  HandlerCalls = {b}
INVARIANTS
  TypeOK
  NoHandlerLeaks
  EveryWaiterHears
PROPERTIES
  CancelReturns
  CancelFreesReader
  ImplementsQuery
CHECK_DEADLOCK FALSE
