SPECIFICATION Spec
CONSTANT
  Setups <- OneGroup
INVARIANT IntrinsicPerTrajectory
