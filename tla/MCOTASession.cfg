\* Two sessions, two counters, and both kinds of sink.
SPECIFICATION Spec
CONSTANTS
  NoSession = none
  Sessions = {p, q}
  MaxCounter = 2
  ImageSize = 3
  MaxSequence = 4
  Ledger = 2
  OrderedSinks = {FALSE, TRUE}
INVARIANT BootIsAuthentic
INVARIANT InstalledIsConsumed
INVARIANT LedgerIsFlash
INVARIANT RetryAccepted
INVARIANT ReservationIsOwned
PROPERTY NeverOlder
