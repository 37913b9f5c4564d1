---------------------------- MODULE ReplayJournal ----------------------------
(***************************************************************************)
(* JournalReplayStore: the rollback floor and its one reservation, kept in *)
(* two flash slots of which only the inactive one is ever written.         *)
(*                                                                         *)
(* The object holds nothing in RAM, so a reboot between two operations     *)
(* changes nothing; a power cut, or a backend that reports failure, in the *)
(* middle of a write leaves the slot it was writing unchanged, torn, or    *)
(* complete.  A read that fails makes the operation a no-op.  Torn bytes   *)
(* are recognised by their CRC.  The specification has names of its own,   *)
(* since OTAProof extends this module beside OTASession.                   *)
(***************************************************************************)
EXTENDS Integers

CONSTANTS
  Owners,          \* update sessions
  NoOwner,         \* the all-zero session id
  MaxFloor,        \* UINT32_MAX in the code
  HalfGenerations  \* half the range of the generation counter, 2^31 in the code

ASSUME JournalAssumption ==
  /\ NoOwner \notin Owners /\ MaxFloor \in Nat
  /\ HalfGenerations \in Nat /\ HalfGenerations >= 2

VARIABLES
  status,   \* of the bytes in each slot: missing, invalid or valid
  record    \* the record a valid slot holds

journalVars == <<status, record>>

Slots       == {0, 1}
Generations == 2 * HalfGenerations
Floors      == 0..MaxFloor

Records ==
  [generation : 0..(Generations - 1), floor : Floors,
   state : {"None", "Reserved", "Staged"}, owner : Owners \cup {NoOwner}, counter : Floors]

\* The record of a store nothing was written to.
Blank == [generation |-> 0, floor |-> 0, state |-> "None", owner |-> NoOwner, counter |-> 0]

JournalInit ==
  /\ status = [s \in Slots |-> "missing"]
  /\ record = [s \in Slots |-> Blank]

-----------------------------------------------------------------------------
(***************************************************************************)
(* readLatest(): the newer of the valid slots by serial-number order.      *)
(***************************************************************************)
\* uint32_t subtraction
Delta(a, b) == (a - b) % Generations

NewerGeneration(a, b) == Delta(a, b) # 0 /\ Delta(a, b) < HalfGenerations

Valid(s)  == status[s] = "valid"
Present   == \E s \in Slots : Valid(s)

LatestSlot ==
  IF Valid(1) /\ (Valid(0) => NewerGeneration(record[1].generation, record[0].generation))
  THEN 1 ELSE 0

Latest == IF Present THEN record[LatestSlot] ELSE Blank

\* Two valid records that serial-number order cannot tell apart.
Unordered ==
  LET d == Delta(record[1].generation, record[0].generation)
  IN Valid(0) /\ Valid(1) /\ ((d = 0 /\ record[0] # record[1]) \/ d = HalfGenerations)

\* Bytes without one valid record among them are not an erased store.
Readable == ~Unordered /\ (Present \/ \A s \in Slots : status[s] = "missing")

-----------------------------------------------------------------------------
(***************************************************************************)
(* publish(): one write to the slot the latest record is not in.           *)
(***************************************************************************)
\* Faulty: overwrites the latest record.
TargetLatest == LatestSlot

Target == IF Present THEN 1 - LatestSlot ELSE 0

NextGeneration == (Latest.generation + 1) % Generations

\* validRecord() on what was written.
WellFormed(r) ==
  IF r.state = "None"
  THEN r.counter = 0 /\ r.owner = NoOwner
  ELSE r.floor # 0 /\ r.counter = r.floor /\ r.owner # NoOwner

Publish(r) ==
  LET next == [r EXCEPT !.generation = NextGeneration]
  IN \/ /\ status' = [status EXCEPT ![Target] = IF WellFormed(next) THEN "valid" ELSE "invalid"]
        /\ record' = [record EXCEPT ![Target] = next]
     \/ /\ status' = [status EXCEPT ![Target] = "invalid"]
        /\ record' = [record EXCEPT ![Target] = Blank]

-----------------------------------------------------------------------------
(***************************************************************************)
(* The operations of the store.                                            *)
(***************************************************************************)
Active == Latest.state \in {"Reserved", "Staged"}

Held(o, c) == Present /\ Latest.counter = c /\ Latest.owner = o /\ o # NoOwner

\* Faulty: replaces a reservation that is still outstanding.
ReserveFloorAnyway(expected, next, o) ==
  /\ o # NoOwner /\ next > expected
  /\ Readable /\ Latest.floor = expected
  /\ Publish([Latest EXCEPT !.floor = next, !.counter = next, !.owner = o, !.state = "Reserved"])

ReserveFloor(expected, next, o) ==
  /\ o # NoOwner /\ next > expected
  /\ Readable /\ Latest.floor = expected /\ ~Active
  /\ Publish([Latest EXCEPT !.floor = next, !.counter = next, !.owner = o, !.state = "Reserved"])

MarkStaged(o, c) ==
  /\ Readable /\ Latest.state = "Reserved" /\ Held(o, c)
  /\ Publish([Latest EXCEPT !.state = "Staged"])

Clear == Publish([Latest EXCEPT !.state = "None", !.counter = 0, !.owner = NoOwner])

CompleteReservation(o, c) ==
  /\ Readable /\ Latest.state = "Staged" /\ Held(o, c)
  /\ Clear

AbandonReservation(o, c) ==
  /\ Readable /\ Active /\ Held(o, c)
  /\ Clear

RecoverAbandonedReservation ==
  /\ Readable /\ Active
  /\ Clear

JournalNext ==
  \/ \E o \in Owners, c \in Floors :
       \/ \E e \in Floors : ReserveFloor(e, c, o)
       \/ MarkStaged(o, c) \/ CompleteReservation(o, c) \/ AbandonReservation(o, c)
  \/ RecoverAbandonedReservation

JournalSpec == JournalInit /\ [][JournalNext]_journalVars

-----------------------------------------------------------------------------
\* A slot holds bytes in the format, and the generation fits its field.
JournalTypeOK ==
  /\ status \in [Slots -> {"missing", "invalid", "valid"}]
  /\ record \in [Slots -> Records]

\* Two valid slots always hold consecutive generations, across the wrap, so
\* serial-number order tells which is newer and readLatest() never has to refuse.
Consecutive ==
  Valid(0) /\ Valid(1) =>
    Delta(record[LatestSlot].generation, record[1 - LatestSlot].generation) = 1

\* Once one write completed, no later write, torn or not, leaves the store
\* without a record or with one it would refuse.
RecordSurvives == [][Present => Present']_journalVars

\* The journal implements the store an update relies on: every write, complete,
\* torn or lost, is one atomic step of it or none, so the floor never falls.
Atomic == INSTANCE ReplayStore WITH
  floor       <- Latest.floor,
  reservation <- [state |-> Latest.state, owner |-> Latest.owner, counter |-> Latest.counter]

StoreSpec == Atomic!Spec
==============================================================================
