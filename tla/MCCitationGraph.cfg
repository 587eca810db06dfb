SPECIFICATION FairSpec
CONSTANTS
  Fetches = {f1, f2}
  Jobs = {"oa citations", "oa references", "s2 references", "s2 citations", "oc citations", "cr references", "cr citations"}
  Providers = {"openalex", "other"}
  Source <- Sources
  Shape <- ShapeOf
  Entries <- Lists
  Asked <- AskedFor
  Limits = {2}
  PerPage = 1
  PageMax = 2
  Gap = 1
  RetryAfter = {0, 2}
  None = None
CHECK_DEADLOCK FALSE
INVARIANTS
  CoverageTrue
PROPERTIES
  
  FetchEnds
