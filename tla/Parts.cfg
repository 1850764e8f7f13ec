CONSTANTS
  Period = 2
  Capacity = 2
  MaxAttempts = 3
  BackoffCap = 3
  Hints = {0, 3}
  Boot = 2
  MaxTime = 7
  MaxSent = 4
  Repos = {1, 2, 3, 4, 5}
  LastDay = 3
  Cap = 3
  PageSize = 2
  FastPages = 1
  DefaultLimit = 2
  Limits = {0, 4}
  BatchKeys <- ThreeKeys
  StageB <- ThreeCategories
  MaxSearches = 3
  MaxRounds = 2
  MaxWeek = 2
  Members = {"a", "b"}
  Others = {"c"}
  Projects = {"x", "y"}
  Work <- WorkFound
  Tiers = {40, 100}
  WeightRows <- Weights
  Targets <- Ideal
  MaxLearned = 3
  Ids = {1, 2, 3, 4}
  SourceOf <- Sources
  Said <- AtFirst
  ToBeSaid <- Later
  NameJw <- Jw
  Scorings <- Bands
  MaxRuns = 2
  Seen <- SilverAtFirst
  ToBeSeen <- SilverLater
  Companies <- CompanyTable
  Pitches <- PitchTable
  MaxMembers = 2
  MaxBuilds = 2
  Shown <- Showcased
  ShownNames = {"a", "b"}
  MaxEdits = 2
SPECIFICATION PartsSpec
INVARIANTS PartsTypeOK RateIsKept ServerIsHeard TopIsFound EveryKeyHasAnAnswer BudgetHolds WeekIsBoughtOnce
  FinalIsWithin NameAloneNeverJoins DoubtIsReviewed NoStartupIsLost
PROPERTIES OnlyGapsLowerConfidence BetterNeverWorse PitchKeepsRepoRows PersonCatchesUp
CHECK_DEADLOCK FALSE
