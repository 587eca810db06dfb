SPECIFICATION Spec
CONSTANTS
  Refs = {x, y}
  Papers = {p, q}
  Jobs = {j1, j2}
  Requests = {r1, r2}
  Openers = {}
  None = None
INVARIANTS
  AnswersFit
  TasksExact

  
