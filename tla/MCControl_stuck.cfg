\* A state published after the teardown that should own it.
SPECIFICATION Spec
SYMMETRY SlotSymmetry
CONSTANTS
  NoCamera = none
  Cameras = {a}
  Targets = {t1, t2}
  QueueLength = 2
  SleepConn = TRUE
  Declining = {}
  InfiniteModes = {FALSE}
  Restarts = {FALSE}
  MaxRequests = 2
INVARIANT ConnectingIsRunning
