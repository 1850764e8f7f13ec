\* The server alone with fixtures, and a job live whose exports may be old.
SPECIFICATION Spec

CONSTANTS
  Modes = {TRUE, FALSE}
  Jobs = {j1}
  MaxInterviews = 2
  MaxSilver = 1
  MaxRows = 2

INVARIANTS
  TypeOK
  ScoresAreRecorded
  NewestIsServed
  AloneIsExact

PROPERTIES
  ScoresAppendOnly
  MemosAppendOnly
