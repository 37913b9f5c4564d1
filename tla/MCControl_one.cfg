\* One camera, three requests in any order; liveness, so no symmetry.
SPECIFICATION FairSpec
CONSTANTS
  NoCamera = none
  Cameras = {a}
  Targets = {t1, t2}
  QueueLength = 2
  SleepConn = FALSE
  Declining = {a}
  InfiniteModes = {TRUE}
  Restarts = {FALSE, TRUE}
  MaxRequests = 3
INVARIANT TargetAlive
INVARIANT ToldToStop
INVARIANT AwakeWhileActive
INVARIANT LinkHasOwner
INVARIANT AttemptsAreCancelled
INVARIANT SettledIsQuiet
PROPERTY CancelSticks
PROPERTY SessionSpec
PROPERTY TeardownReturns
PROPERTY GateOpens
