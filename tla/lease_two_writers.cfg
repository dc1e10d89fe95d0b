SPECIFICATION Spec
CONSTANT
  Instance <- MCInstance
INVARIANT
  NeverTwoWriters
CHECK_DEADLOCK FALSE
