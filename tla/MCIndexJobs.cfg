SPECIFICATION FairSpec
CONSTANTS
  Requests = {r1, r2}
  Builds = {b1, b2}
  Users = {u1}
  Dirs = {d1}
  MaxStamp = 1
  None = None
  Error = Error
INVARIANTS
  Coalesced
  IndexMatchesStamp
  OneBuildPerSource
  AnswerIsCurrent
PROPERTIES
  InteractiveAnswered
