SPECIFICATION Spec
CONSTANTS
  Runners = {r1, r2}
  NLinks = 2
  Outcomes = {"permanent", "transient", "pdf"}
  MaxPerRun = 1
  MaxTrials = 2
  MaxAttempts = 2
  Docs = {"fetched"}
  Timely = TRUE
  None = None
SYMMETRY Symmetric
INVARIANTS
  SingleRunner
  RowTrue
PROPERTIES
  DownloadKept
