\* a team of two sends with the constant delay of the documentation's example
SPECIFICATION DelayedSpec
CONSTANTS
  Cameras = {c1, c2}
  Targets = {}
  Everyone = Everyone
  Contents = {"request", "response"}
  Filtered = FALSE
  MaxBuffer = 2
  MaxEpisode = 3
  Delays = {3}
  MaxPushed = 2
CHECK_DEADLOCK FALSE
INVARIANTS
  DelaysDoNotRaise
