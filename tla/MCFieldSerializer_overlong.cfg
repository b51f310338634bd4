SPECIFICATION SerializerSpec
CONSTANTS
  Lists <- LoginLists
INVARIANTS
  TextIsPadded
CHECK_DEADLOCK FALSE
