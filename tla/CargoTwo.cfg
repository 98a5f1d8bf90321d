\* two targets of different capacity between two warehouses, loaded at start;
\* a bounty exceeds the freight
SPECIFICATION Spec
CONSTANTS
  Warehouses = {w1, w2}
  None = None
  NumTargets = 2
  NumHigh = 1
  CargoesPerTarget = 2
  StartWithCargoes = TRUE
  FreightScale = 1
  BountyScale = 2
  MaxSteps = 3
  MaxBatches = 2
SYMMETRY WarehouseSymmetry
INVARIANTS
  CargoConserved
  CargoRecordsAgree
  EmptyBitsSound
  RewardsReconcile
  DelayedRewardBounds
  StartsLoaded
  EndsWhenAllDelivered
  StateCacheFresh
PROPERTIES
  GoalChangesAtDelivery
  KeepsLedger
