\* Two cameras, two sessions and a fault; liveness, so no symmetry.
SPECIFICATION FairSpec
CONSTANTS
  Cameras = {a, b}
  MaxSessions = 2
  MaxPresses = 2
  MaxFaults = 1
INVARIANT NoneForgotten
INVARIANT OwedOnly
PROPERTY HoldEnds
