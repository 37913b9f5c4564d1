SPECIFICATION Spec
CONSTANTS
  Cameras = {a, b}
  NoCamera = none
  MaxCount = 2
  QueueLength = 2
SYMMETRY CameraSymmetry
INVARIANT CountIsFired
INVARIANT ReleasedFirst
PROPERTY OnlyWanted
