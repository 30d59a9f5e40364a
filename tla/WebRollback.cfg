SPECIFICATION Spec
CONSTANTS
  TaskTypes <- WebTypes
  Rank <- WebRank
  Prefixes <- WebPrefixes
  Prefix <- WebPrefix
  InitBank <- WebBank
  MaxNew = 1
  VerifyMethod = "rollout"
  ValEpisodes = 16
  ReplaySupported = TRUE
  SaveInPlace = FALSE
  ValAlwaysSkills = FALSE
  MaxRounds = 2
  MaxCrashes = 0
  MaxIndex = 2
INVARIANT RollbackRestores
