----------------------------- MODULE ReplayStore -----------------------------
(***************************************************************************)
(* What MQTT::ReplayStore (include/FurbleOTAMQTT.h) promises an update: a  *)
(* rollback floor and at most one reservation, changed only by atomic      *)
(* compare-and-swap steps that survive a reboot.                           *)
(***************************************************************************)
EXTENDS Integers

CONSTANTS
  Owners,     \* update sessions
  NoOwner,    \* the all-zero session id
  MaxFloor    \* the largest rollback counter, UINT32_MAX in the code

VARIABLES
  floor,        \* the smallest counter that can no longer be installed
  reservation   \* [state, owner, counter]

vars == <<floor, reservation>>

Counters == 0..MaxFloor

None == [state |-> "None", owner |-> NoOwner, counter |-> 0]

Reservations ==
  {None} \cup [state : {"Reserved", "Staged"}, owner : Owners, counter : Counters \ {0}]

Held(o, c, states) ==
  reservation.state \in states /\ reservation.owner = o /\ reservation.counter = c

Init == floor = 0 /\ reservation = None

\* A counter is consumed when it is reserved, and nothing gives it back.
ReserveFloor(expected, next, o) ==
  /\ reservation = None
  /\ floor = expected /\ next > expected
  /\ floor' = next
  /\ reservation' = [state |-> "Reserved", owner |-> o, counter |-> next]

MarkStaged(o, c) ==
  /\ Held(o, c, {"Reserved"})
  /\ reservation' = [reservation EXCEPT !.state = "Staged"]
  /\ UNCHANGED floor

Clear == reservation' = None /\ UNCHANGED floor

\* Faulty: gives the counter back with the reservation.
CompleteReturningCounter(o, c) ==
  Held(o, c, {"Staged"}) /\ reservation' = None /\ floor' = floor - 1

CompleteReservation(o, c) == Held(o, c, {"Staged"}) /\ Clear

AbandonReservation(o, c) == Held(o, c, {"Reserved", "Staged"}) /\ Clear

\* After a reboot, whoever the owner was.
RecoverAbandonedReservation == reservation # None /\ Clear

Next ==
  \/ \E o \in Owners, c \in Counters :
       \/ \E e \in Counters : ReserveFloor(e, c, o)
       \/ MarkStaged(o, c) \/ CompleteReservation(o, c) \/ AbandonReservation(o, c)
  \/ RecoverAbandonedReservation

Spec == Init /\ [][Next]_vars
==============================================================================
