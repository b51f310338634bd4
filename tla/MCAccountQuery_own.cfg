SPECIFICATION Spec
CONSTANTS
  NoResult = NoResult
  a = a
  b = b
  Calls = {a, b}
  HandlerCalls = {}
INVARIANTS
  ResultIsOwn
CHECK_DEADLOCK FALSE
