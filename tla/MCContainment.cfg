CONSTANTS
  r1 = r1
  r2 = r2
  Requests <- MCRequests
  Binaries <- MCBinaries
  Policy <- MCPolicy
  Config <- MCConfig
  CommandLines <- MCCommandLines
  Bare <- MCBare
  Lower <- MCLower
  Program <- MCProgram
  Folded <- MCLower
  dangerous_command_patterns <- MCPatterns
  immutable_zones <- MCZones
  Longer <- MCLonger
  Cwd <- MCCwd
  Dirs <- MCDirs
  Links <- MCLinks
  WritePaths <- MCWritePaths
  Assignments = {"A=1"}
  Platforms = {"linux", "macos", "windows", "other"}
  Environment = {"GITHUB_TOKEN", "PATH"}
SPECIFICATION ContainmentSpec
INVARIANTS
  RunsAsPromised
  HandlesBalanced
  EveryCommandJudged
  ZonesStand
PROPERTIES
  QuietSpawnEnds
