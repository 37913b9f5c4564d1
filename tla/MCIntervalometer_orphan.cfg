\* The established session of a run ends and the run goes on.
SPECIFICATION Spec
CONSTANTS
  Cameras = {a}
  NoCamera = none
  MaxCount = 2
  QueueLength = 2
PROPERTY NotOrphaned
