CONSTANTS
  Servers = {"default", "custom"}
  DefaultServer = "default"
  GivenConfigs <- MCGiven
  EditedFiles <- MCFiles
  Outputs <- MCOutputs
  Answers <- MCAnswers
  Hits <- MCHits
  Match <- MCMatch
  Comments = {"comment"}
  Blank = {"blank"}
  CutInside = {"accents"}
  UnitLen = 500
SPECIFICATION AnalysisSpec
INVARIANTS
  SaneWhenLoaded
  PartsAgree
  EachMatchOnce
  ReviewerSeesCode
CHECK_DEADLOCK FALSE
