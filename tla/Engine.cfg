SPECIFICATION FairSpec
CONSTANTS
  World = 4
  TP = 2
  Rows = 1
  ParamOffload <- Offloading
  OptimOffload <- Offloading
  MaxCalls = 7
  MaxTurns = 2
  MaxFailures = 2
INVARIANT TypeOK
INVARIANT OnPolicy
INVARIANT OwnAnswers
INVARIANT OwnDraws
INVARIANT TrainingDraws
INVARIANT TakesTurns
PROPERTY CallsReturn
