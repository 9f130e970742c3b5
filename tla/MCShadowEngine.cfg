CONSTANTS
  s1 = s1
  s2 = s2
  Sessions <- MCSessions
  Configs <- MCConfigs
  Capacity = 1
  MaxReports = 1
  Results <- MCResults
SPECIFICATION Spec
INVARIANTS
  StreamTellsReport
  DoneMeansStored
PROPERTIES
  ImplementsReportLog
  DoneDelivered
CHECK_DEADLOCK FALSE
