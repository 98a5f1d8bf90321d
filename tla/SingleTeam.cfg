\* two cameras, one or both of them driven by the caller, and one target
SPECIFICATION WrapperSpec
CONSTANTS
  Cameras = {c1, c2}
  Targets = {t1}
  Everyone = Everyone
  Contents = {"request", "response"}
  Filtered = FALSE
  MaxBuffer = 2
  MaxEpisode = 1
SYMMETRY CameraSymmetry
VIEW MessageView
INVARIANTS
  BroadcastsReachTeam
  RequestsBeforeResponses
  ReportedIsWhatWasRead
  LearnersMissNothing
