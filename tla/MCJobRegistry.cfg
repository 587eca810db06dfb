SPECIFICATION FairRegistry
CONSTANTS
  Callers = {r1, r2, r3}
  a1 = a1
  a2 = a2
  a3 = a3
  e1 = e1
  l1 = l1
  Keys = {a1, a2, a3, e1, l1}
  Registries = {"acquisition", "expansion", "literature"}
  Registry <- Places
  Permits <- Limits
  CacheFirst = {"expansion"}
  NoKey = NoKey
INVARIANTS
  RegistryExact
PROPERTY
  JobsEnd
