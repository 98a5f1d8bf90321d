\* evaluation of episodes with two targets
SPECIFICATION FairEvalSpec
CONSTANTS
  Warehouses = {w1, w2}
  None = None
  NumTargets = 2
  NumHigh = 1
  CargoesPerTarget = 2
  StartWithCargoes = FALSE
  FreightScale = 1
  BountyScale = 1
  MaxSteps = 2
  MaxBatches = 1
INVARIANTS
  BeliefsSound
  TeamAgrees
  ReturnsLastStep
PROPERTIES
  EvaluationReturns
