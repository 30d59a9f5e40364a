SPECIFICATION FairSpec
CONSTANTS
  r0 = r0
  r1 = r1
  Ranks <- TwoRanks
  Lead <- LeadR0
  Backends <- Both
  UseCritic = TRUE
  Keep <- KeepTwo
  TotalSteps = 5
  TotalEpochs = 2
  EpochLength = 3
  SaveFreq = 2
  UpdateFreq = 2
  CriticWarmup = 2
  SaveInPlace = TRUE
  MaxCrashes = 1
INVARIANT TypeOK
INVARIANT TrackedIsWhole
INVARIANT StepFollowsStep
INVARIANT BankNotBehindPolicy
INVARIANT TrainingBounded
INVARIANT DiskBounded
PROPERTY RunEnds
