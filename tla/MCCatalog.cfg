SPECIFICATION CatalogSpec
CONSTANTS
  w1 = w1
  w2 = w2
  w3 = w3
  w4 = w4
  w5 = w5
  w6 = w6
  d1 = d1
  d2 = d2
  long = long
  short = short
  doi = doi
  e1 = e1
  e2 = e2
  e3 = e3
  Work = {w1, w2, w3, w4, w5, w6}
  MaxWorks = 4
  Subjects = {w1, w3}
  Initially = {w1, w2, w3}
  Known <- CitesAtStart
  Identifiers = {doi}
  Versioned = {arxiv}
  Values = {long, short}
  Complete <- Completeness
  Ranks = {1}
  Requests = {r1, r2}
  MaxClaims = 3
  Marks = {pinned}
  Tags = {t1}
  RampIds = {p1}
  PathMax = 2
  ItemsMax = 2
  LastPosition = 2
  Paths = {"a", "b"}
  PathOrder <- FilesInOrder
  Contents = {x, y}
  DocumentIds = {d1, d2, d3}
  Edits = 2
  Bibliography <- Bibliographies
  CitingWork <- Papers2Works
  Printed <- PrintedEntries
  EntryRank = 1
  Pdfs = {"p1", "p2"}
  DocumentOf <- OwnDocuments
  Front <- FirstPages
  TitleHit <- Searched
  Indexed <- Provider
  RecordDoi <- ProviderDois
  References <- ProviderReferences
  Title = long
  TitleRank = 1
  FlowClaims = 1
  Areas = {"identity", "citations", "claims", "curation", "ramps", "documents", "evidence", "literature"}
  Busy <- InProgress
  None = None
SYMMETRY Same
INVARIANTS
  RowsConsistent
  PassedConnected
  RecordsMatch
PROPERTIES
  IdentifiersKept
  Reselects
  FollowsMerges
  ScanExact
CHECK_DEADLOCK FALSE
