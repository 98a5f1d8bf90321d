\* two cameras that forget after four steps, with and without a message filter
SPECIFICATION Spec
CONSTANTS
  Cameras = {c1, c2}
  Period = 4
  FilterRange = TRUE
  Never = Never
  MaxSteps = 8
INVARIANTS
  MemoryAge
  KnownFromFirstStep
  SharesInTime
