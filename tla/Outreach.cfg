\* Two links to two founders of two ventures.
SPECIFICATION Spec

CONSTANTS
  p1 = p1
  p2 = p2
  v1 = v1
  v2 = v2
  Persons <- MCPersons
  Ventures <- MCVentures
  Team <- MCTeam
  Tokens = {t1, t2}
  NoToken = NoToken
  Sessions = {s1}
  Nobody = Nobody
  MaxInterviews = 1

PROPERTY NoContactAfterOptOut

SYMMETRY Alike
