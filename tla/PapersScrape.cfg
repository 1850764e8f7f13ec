CONSTANTS
  Runs = {p1}
  Tables <- PaperTables
  Keys <- PaperKeys
  TableOf <- TableOfKey
  NoRow = NoRow
  NoCursor = 0
  Papers = {1, 2, 3}
  Submitted <- SubmittedOn
  Lists <- ListedUnder
  Categories <- TwoCategories
  Malformed = {3}
  Revisable = {1}
  Answers <- Said
  WindowDays = 1
  LastDay = 3
  ShownLag = 1
  PageSize = 1
  SliceDays = 2
  Limits = {0, 1}
  QueueLimit = 1
  MaxRuns = 2
  MaxFailures = 1
SPECIFICATION FairSpec
INVARIANTS TypeOK WindowIsHonest
PROPERTY EnrichedInTheEnd
CHECK_DEADLOCK FALSE
