CONSTANTS
  Bodies <- MCBodies
  Capacity = 1
  MaxChunk = 5
SPECIFICATION Spec
INVARIANTS
  ToldIsServed
PROPERTY Ends
CHECK_DEADLOCK FALSE
