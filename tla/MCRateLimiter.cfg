CONSTANTS
  c1 = c1
  c2 = c2
  read = read
  write_file = write_file
  bash_edit = bash_edit
  NoTool = NoTool
  Callers <- MCCallers
  Tools <- MCTools
  WriteTools <- MCWriteTools
  ShellTools <- MCShellTools
  PerTool = 2
  Total = 3
  Writes = 2
  Shells = 1
  Window = 2
  MaxTime = 3
  MaxCalls = 5
SPECIFICATION Spec
SYMMETRY Symmetry
INVARIANTS
  TableMatchesHistory
  OvershootBounded
  TableBounded
PROPERTY ImplementsSlidingWindow
CHECK_DEADLOCK FALSE
