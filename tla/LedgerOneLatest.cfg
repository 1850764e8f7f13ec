\* Two jobs, live.
SPECIFICATION Spec

CONSTANTS
  Modes = {TRUE}
  Jobs = {j1, j2}
  MaxInterviews = 2
  MaxSilver = 0
  MaxRows = 2

INVARIANT OneLatestScore

SYMMETRY Alike
