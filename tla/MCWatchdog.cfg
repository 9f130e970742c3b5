CONSTANTS
  Never = Never
  Poll = 2
  Sustained = 4
  MaxWall = 9
  MaxSample = 1
SPECIFICATION Spec
INVARIANTS
  WallTimeBounded
  CpuKillJustified
  OveruseKilled
  CancelHonoured
CHECK_DEADLOCK FALSE
