\* three jobs with one retry each, two supervisors one after the other
SPECIFICATION FairSpec
CONSTANTS
  NumJobs = 3
  MaxRetries = 1
  MaxStarts = 2
CHECK_DEADLOCK FALSE
INVARIANTS
  NoneLeftRunning
  FinalStatesTrue
  StatusFileSound
PROPERTIES
  SignalStopsAll
