SPECIFICATION FairSpec
CONSTANTS
  Refs = {x}
  Papers = {p}
  Jobs = {j1}
  Requests = {r1, r2}
  Openers = {c1}
  None = None
PROPERTY
  TasksEnd
