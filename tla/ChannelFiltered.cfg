\* every order of the interface, with a filter that may drop any message
SPECIFICATION Spec
CONSTANTS
  Cameras = {c1, c2}
  Targets = {}
  Everyone = Everyone
  Contents = {"note"}
  Filtered = TRUE
  MaxBuffer = 2
  MaxEpisode = 2
SYMMETRY CameraSymmetry
INVARIANTS
  ReadOnceInOrder
  EdgesCountMessages
PROPERTY
  DeliveredOnce
