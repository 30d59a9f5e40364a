SPECIFICATION Spec
CONSTANTS
  r0 = r0
  r1 = r1
  Ranks <- TwoRanks
  Lead <- LeadR0
  Backends <- Both
  UseCritic = TRUE
  Keep <- KeepOne
  TotalSteps = 3
  TotalEpochs = 2
  EpochLength = 2
  SaveFreq = 1
  UpdateFreq = 2
  CriticWarmup = 2
  SaveInPlace = TRUE
  MaxCrashes = 1
INVARIANT TrackedIsLoadable
