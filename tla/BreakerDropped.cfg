SPECIFICATION FairSpec
CONSTANTS
  a = a
  b = b
  Calls = {a, b}
  failure_threshold = 2
  open_duration = 1
  Policies <- OnePolicy
  U64Max = 3
  MaxDrops = 1
CHECK_DEADLOCK FALSE
PROPERTY HealsAlways
