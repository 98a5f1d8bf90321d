\* two iterations, two episodes per pair, two evaluators at a time, one restart
SPECIFICATION FairSpec
CONSTANTS
  Iterations = 2
  NumEpisodes = 2
  NumWorkers = 2
  None = None
  MaxStarts = 2
CHECK_DEADLOCK FALSE
INVARIANTS
  SameGeneration
  SolvesFullGame
  PayoffsOfPairs
  OnePopulation
PROPERTIES
  DriverEnds
