SPECIFICATION FairSpec
CONSTANTS
  Requests = {r1, r2}
  Commands = {c1}
  NWorks = 4
  Refs <- Citing
  Entries <- Listed
  Held = {2, 3}
  Skipped = {}
  Asks <- Asked
  Fanout = 2
  Budget = 3
  None = None
INVARIANTS
  WalkBounded
  
  LedgerBacked
PROPERTIES
  KeepsRegistry
  JobsFinish
