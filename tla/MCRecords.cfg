SPECIFICATION RecordsSpec
CONSTANTS
  Runs = {x, y}
  Server = server
  Commands = {c1}
  Handlers = {h1, h2}
  Beside = FALSE
  MaxOpens = 3
  Absent = Absent
  Savers = {s1, s2}
  Contents = {template, text, other}
  Template = template
  Missing = Missing
  Markers = {m1, m2}
  Passages = {p1, p2}
  Remarks = {remark}
  Sectionings = {a1, a2}
  Unmarked = Unmarked
  Parts = {"experiments", "notes", "highlights", "labels"}
  k1 = k1
  k2 = k2
  k3 = k3
  t1 = t1
  t2 = t2
  Passes = {l1, l2}
  Readers = {u1, u2}
  Citations <- Cited
  Mentioned = {k1, k2}
  Folds <- Folded
  Request <- Texts
  Models = {m}
  Drafts = {good, bad}
  Grounded = {good}
  Limit <- Calls1
  AtOnce = 1
  FoldsBeside = FALSE
  MaxLabels = 3
  MaxPasses = 2
  Null = Null
CHECK_DEADLOCK FALSE
PROPERTIES
  JudgedStands
  RunsEnd
  FilesKept
