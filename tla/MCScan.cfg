\* Three discoveries, stops, attempts to find a camera or queries, in any order.
SPECIFICATION Spec
CONSTANTS
  MaxPending = 1
  Timed = {FALSE, TRUE}
  MaxCalls = 3
INVARIANT CallbackHasOwner
INVARIANT AnswerIsOurs
INVARIANT DeliveryIsCurrent
INVARIANT RadioIsOwned
CHECK_DEADLOCK FALSE
