SPECIFICATION Spec
CONSTANTS
  TypeOrder <- WebOrder
  Near <- WebNear
  Closeness <- WebCloseness
  Gain = 90
  Loss = 45
  MinUtility = 20
  InitLists <- WebLists
  Setups <- WebSetups
  DynamicUpdate = TRUE
  IdPrefixes <- WebPrefixes
  Prefix <- WebPrefix
  MaxNew = 1
  MaxEdits = 1
  MaxIndex = 5
  MaxRounds = 2
  MaxChecks = 1
INVARIANT TypeOK
INVARIANT CacheFresh
INVARIANT ValidationOnlyTrains
PROPERTY RejectedShowsSame
PROPERTY EvictionEarned
PROPERTY MergeKeepsOne
