SPECIFICATION Spec
CONSTANTS
  TaskTypes <- AlfTypes
  Rank <- AlfRank
  Prefixes <- AlfPrefixes
  Prefix <- AlfPrefix
  InitBank <- AlfBank
  MaxNew = 1
  VerifyMethod = "rollout"
  ValEpisodes = 16
  ReplaySupported = TRUE
  SaveInPlace = FALSE
  ValAlwaysSkills = TRUE
  MaxRounds = 1
  MaxCrashes = 0
  MaxIndex = 2
INVARIANT ValidationUsesSkills
