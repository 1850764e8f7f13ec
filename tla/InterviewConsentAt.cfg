SPECIFICATION Spec

CONSTANTS
  p1 = p1
  p2 = p2
  v1 = v1
  v2 = v2
  Persons <- MCPersons
  Ventures <- MCVentures
  Team <- MCTeam
  Tokens = {t1}
  NoToken = NoToken
  Sessions = {s1, s2}
  Nobody = Nobody
  MaxInterviews = 1

INVARIANT ConsentAtBeforeInterview
