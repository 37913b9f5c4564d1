\* A peer that drops between the connect and the hand-over of its client.
SPECIFICATION Spec
CONSTANTS
  PoolSize = 2
  MaxLinks = 1
  MaxRequests = 1
  MaxDraining = 1
INVARIANT ClientsReturn
