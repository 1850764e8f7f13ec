\* One link, two devices: completions that are retried, restarts in the middle.
SPECIFICATION Spec

CONSTANTS
  p1 = p1
  p2 = p2
  v1 = v1
  v2 = v2
  Persons <- MCPersons
  Ventures <- MCVentures
  Team <- MCTeam
  Tokens = {t1}
  NoToken = NoToken
  Sessions = {s1, s2}
  Nobody = Nobody
  MaxInterviews = 3

INVARIANTS
  TypeOK
  ConsentFirst
  OneVoice
  ScoredOnce

PROPERTY PromiseKept
