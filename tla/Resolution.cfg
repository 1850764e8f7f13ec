CONSTANTS
  Ids = {1, 2, 3}
  SourceOf <- Sources
  Guarded <- GuardedSources
  Showcase = "hacknation"
  MaxPerson = 7
  AutoMatches <- AutoPairs
  Band <- BandPairs
  Resolvers = {e1}
  Operators = {o1}
  MaxOps = 1
  MaxCrashes = 1
SPECIFICATION FairSpec
INVARIANTS TypeOK OneActiveLink LinkedPersonExists ErasedStaysErased
PROPERTIES CorrectionStands SettlesInTheEnd
CHECK_DEADLOCK FALSE
