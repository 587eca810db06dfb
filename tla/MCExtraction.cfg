SPECIFICATION Spec
CONSTANTS
  Features <- TwoFeatures
  NChunks = 3
  PlanConcurrency = 2
  ChunkConcurrency = 2
  Budget = 3
  MaxRuns = 3
  None = None
CHECK_DEADLOCK FALSE
INVARIANTS
  SpendBounded
  LossesRecorded
PROPERTY
  SavedKept
