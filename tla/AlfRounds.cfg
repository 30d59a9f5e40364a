SPECIFICATION FairSpec
CONSTANTS
  TaskTypes <- AlfTypes
  Rank <- AlfRank
  Prefixes <- AlfPrefixes
  Prefix <- AlfPrefix
  InitBank <- AlfBank
  MaxNew = 2
  VerifyMethod = "rollout"
  ValEpisodes = 16
  ReplaySupported = TRUE
  SaveInPlace = TRUE
  ValAlwaysSkills = TRUE
  MaxRounds = 2
  MaxCrashes = 1
  MaxIndex = 3
INVARIANT TypeOK
INVARIANT RollbackRestores
INVARIANT OnlyAcceptedChange
INVARIANT TrainingSeesDecidedBank
INVARIANT TextFollowsMeta
INVARIANT FileIsDecided
INVARIANT StaticProtected
PROPERTY AcceptedKept
PROPERTY RoundEnds
PROPERTY ImplementsAtomic
