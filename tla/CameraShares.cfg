\* without filterout_beyond_range no target state is ever sent
SPECIFICATION Spec
CONSTANTS
  Cameras = {c1, c2}
  Period = 4
  FilterRange = FALSE
  Never = Never
  MaxSteps = 8
INVARIANTS
  SharesInTime
