SPECIFICATION FairSpec
CONSTANTS
  Tasks = {t1, t2, t3}
  Kinds = {"analyze", "refresh"}
  InitExtraction = {TRUE}
  ReadFaults = FALSE
  ClientsLeave = FALSE
  None = None
  Old = Old
  Checked = Checked
INVARIANTS
  ExclusiveRuns
  BusyMeansRunning
PROPERTIES
  NoLostAnalysis
  Settles
