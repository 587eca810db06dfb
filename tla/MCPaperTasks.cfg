SPECIFICATION Spec
CONSTANTS
  Tasks = {t1, t2}
  Kinds = {"analyze", "refresh", "feedback", "map", "markdown", "source"}
  InitExtraction = {TRUE, FALSE}
  ReadFaults = TRUE
  ClientsLeave = TRUE
  None = None
  Old = Old
  Checked = Checked
SYMMETRY Symmetric
INVARIANTS
  StatusBacked
