SPECIFICATION Spec
SYMMETRY Symmetry
CONSTANTS
  Cameras = {a, b, c}
  MaxId = 2
  MaxFaults = 2
  MaxCrashes = 1
INVARIANT Reconnectable
INVARIANT ViewIsFlash
PROPERTY CatalogSpec
