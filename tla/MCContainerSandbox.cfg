CONSTANTS
  a1 = a1
  a2 = a2
  Analyses <- MCAnalyses
  Blocks <- MCBlocks
  MinLen = 9
  TTL = 2
  Grace = 1
  Runtimes <- MCRuntimes
  MaxFlips = 1
SPECIFICATION Spec
INVARIANTS
  FoundIsWhatRan
  AllAgree
PROPERTIES
  AnalysesEnd
CHECK_DEADLOCK FALSE
