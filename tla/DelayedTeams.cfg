\* two teams behind one wrapper with a constant delay; an exception ends the program
SPECIFICATION DelayedSpec
CONSTANTS
  Cameras = {c1, c2}
  Targets = {t1}
  Everyone = Everyone
  Contents = {"request", "response"}
  Filtered = FALSE
  MaxBuffer = 3
  MaxEpisode = 2
  Delays = {1}
  MaxPushed = 3
CHECK_DEADLOCK FALSE
SYMMETRY CameraSymmetry
INVARIANTS
  ArriveOnce
  NoOvertaking
  NothingHeldBack
  LateMailComesAsRequests
