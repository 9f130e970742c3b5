CONSTANTS
  Bodies <- MCBodies
  Capacity = 1
  MaxChunk = 5
SPECIFICATION Spec
INVARIANT YieldsWhatArrives
CHECK_DEADLOCK FALSE
