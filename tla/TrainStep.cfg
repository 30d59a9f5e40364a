SPECIFICATION Spec
CONSTANT
  Setups <- AllSetups
INVARIANT TypeOK
INVARIANT OwnEpisode
INVARIANT OwnStep
INVARIANT EveryStepTrained
INVARIANT GroupsAreComparable
INVARIANT LostNotReinforced
INVARIANT WonNotDiscouraged
