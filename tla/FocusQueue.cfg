\* two queues on one file, three starts in all, two jobs
SPECIFICATION Spec
CONSTANTS
  NumJobs = 2
  Queues = {q1, q2}
  MaxStarts = 3
CHECK_DEADLOCK FALSE
INVARIANTS
  KillLosesOne
  JobsSequential
PROPERTIES
  CompleteIsFinal
