SPECIFICATION Spec
CONSTANTS
  TaskTypes <- WebTypes
  Rank <- WebRank
  Prefixes <- WebPrefixes
  Prefix <- WebPrefix
  InitBank <- WebBank
  MaxNew = 2
  VerifyMethod = "notverify"
  ValEpisodes = 0
  ReplaySupported = TRUE
  SaveInPlace = FALSE
  ValAlwaysSkills = FALSE
  MaxRounds = 2
  MaxCrashes = 1
  MaxIndex = 3
INVARIANT EveryChangeRecorded
INVARIANT NewSkillsAdded
PROPERTY ImplementsAtomic
