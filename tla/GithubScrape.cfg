CONSTANTS
  Runs = {p1, p2}
  Tables <- GithubTables
  Keys <- GithubKeys
  TableOf <- TableOfKey
  NoRow = NoRow
  NoCursor <- NoGithubCursor
  Repos = {r1}
  Logins = {l1}
  LastDay = 3
  LastCommit = 2
  MaxTag = 1
  MaxEvents = 4
  PushLag = 1
  HistoryPage = 1
SYMMETRY Symmetry
SPECIFICATION Spec
INVARIANTS TypeOK WatermarkIsHonest CoreIsAccountedFor StoredReadmeIsCurrent
CHECK_DEADLOCK FALSE
