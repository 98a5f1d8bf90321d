\* an episode without deliveries
SPECIFICATION EvalSpec
CONSTANTS
  Warehouses = {w1, w2}
  None = None
  NumTargets = 2
  NumHigh = 1
  CargoesPerTarget = 2
  StartWithCargoes = TRUE
  FreightScale = 1
  BountyScale = 1
  MaxSteps = 2
  MaxBatches = 1
INVARIANTS
  EveryEpisodeReported
