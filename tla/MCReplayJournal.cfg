\* Every crash point of every operation, over several wraps of the generation.
SPECIFICATION JournalSpec
CONSTANTS
  NoOwner = none
  Owners = {p, q}
  MaxFloor = 6
  HalfGenerations = 2
PROPERTY RecordSurvives
PROPERTY StoreSpec
CHECK_DEADLOCK FALSE
