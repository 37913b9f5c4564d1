----------------------------- MODULE OTASession -----------------------------
(***************************************************************************)
(* A signed firmware update delivered over MQTT: MQTT::Session (the        *)
(* delivery policy), its sink, the once-per-boot RecoveryCoordinator, and  *)
(* the replay store they reserve rollback counters in.                     *)
(*                                                                         *)
(* Messages arrive in any order and any number of times.  One handler runs *)
(* at a time; inside it, every durable step (a store operation, selecting  *)
(* the boot partition) is an action of its own, because power can be lost  *)
(* between any two.  A message that is refused or answered as a duplicate  *)
(* changes nothing but m_LastError, which is left out, and so is no        *)
(* action.  A store operation takes effect and says so, takes effect and   *)
(* reports failure, or fails; what it does when it takes effect is         *)
(* ReplayStore, which ReplayJournal implements.                            *)
(*                                                                         *)
(* The bytes of an image are blocks, right or wrong for their place; a     *)
(* CRC or SHA-256 value stands for the bytes it was computed from.         *)
(***************************************************************************)
EXTENDS Integers, FiniteSets

CONSTANTS
  Sessions,    \* session ids
  NoSession,   \* the all-zero session id
  MaxCounter,  \* the largest rollback counter
  ImageSize,   \* blocks in an image
  MaxSequence, \* bound: sequence numbers the sender uses
  Ledger,      \* OTA_LEDGER_ENTRIES
  OrderedSinks \* does the sink need its writes in order, as PartitionSink does?

ASSUME UpdateAssumption ==
  /\ NoSession \notin Sessions
  /\ MaxCounter \in Nat /\ ImageSize \in Nat \ {0} /\ MaxSequence \in Nat /\ Ledger \in Nat \ {0}
  /\ OrderedSinks \subseteq BOOLEAN /\ OrderedSinks # {}

VARIABLES
  floor, reservation,  \* the replay store
  boot,                \* the manifest of the image that was last selected for boot
  running,             \* the partition the program was started from
  flash,               \* the other one, which the sink writes
  pending,             \* is that other one selected for boot?
  ordered,             \* which kind of sink this is
  sink,                \* off, open or staged (PartitionSink::m_Started, m_Finalized)
  state,               \* m_State
  manifest,            \* m_Manifest
  beginSequence,       \* m_BeginSequence
  terminalSequence,    \* m_TerminalSequence
  ranges,              \* m_Ranges
  received,            \* m_ReceivedBytes
  owned,               \* m_ReservationActive
  pc,                  \* the durable step the handler is at
  attempted, ready,    \* RecoveryCoordinator
  acked,               \* history: messages accepted in this session
  faulted,             \* history: a store operation failed since boot
  overwritten          \* history: a sink was opened over the partition selected for boot

durableVars  == <<floor, reservation>>
bootVars     == <<boot, running, pending, overwritten>>
sessionVars  == <<state, manifest, beginSequence, terminalSequence>>
ledgerVars   == <<ranges, received>>
sinkVars     == <<flash, ordered, sink>>
recoveryVars == <<attempted, ready>>
vars == <<durableVars, bootVars, sinkVars, sessionVars, ledgerVars, owned, pc, recoveryVars,
          acked, faulted>>

Counters  == 0..MaxCounter
Sequences == 1..MaxSequence
Offsets   == 0..(ImageSize - 1)

Manifests  == [session : Sessions, counter : Counters, genuine : BOOLEAN]
NoManifest == [session |-> NoSession, counter |-> 0, genuine |-> FALSE]

\* A block of the image a session's manifest describes, or of some other bytes.
Block(s, right) == [image |-> s, right |-> right]
Erased == Block(NoSession, FALSE)

\* What the manifest's digest was computed from.
Image(m) == [o \in Offsets |-> Block(m.session, TRUE)]

Chunks == [session : Sessions, offset : Offsets, length : 1..ImageSize, right : BOOLEAN,
           sequence : Sequences]

Span(r) == r.offset..(r.offset + r.length - 1)

Store == INSTANCE ReplayStore WITH
  Owners <- Sessions, NoOwner <- NoSession, MaxFloor <- MaxCounter

Init ==
  /\ Store!Init
  /\ boot = NoManifest /\ running = Image(NoManifest)
  /\ pending = FALSE /\ overwritten = FALSE
  /\ flash = [o \in Offsets |-> Erased] /\ ordered \in OrderedSinks /\ sink = "off"
  /\ state = "Idle" /\ manifest = NoManifest
  /\ beginSequence = 0 /\ terminalSequence = 0
  /\ ranges = {} /\ received = 0 /\ owned = FALSE
  /\ pc = "idle" /\ attempted = FALSE /\ ready = FALSE
  /\ acked = {} /\ faulted = FALSE

-----------------------------------------------------------------------------
(***************************************************************************)
(* How dispatchMessage() answers each kind of message.                     *)
(***************************************************************************)
SameSession(s) == state # "Idle" /\ s = manifest.session

SequenceUsed(q) == q = beginSequence \/ \E r \in ranges : r.sequence = q

\* hasCompleteImage(): follow the ranges from offset zero.
HasCompleteImage ==
  LET after[n \in 0..Cardinality(ranges)] ==
        IF n = 0 THEN 0
        ELSE LET here == {r \in ranges : r.offset = after[n - 1]}
             IN IF here = {} THEN ImageSize + 1 ELSE after[n - 1] + (CHOOSE r \in here : TRUE).length
  IN received = ImageSize /\ after[Cardinality(ranges)] = ImageSize

NewBegin(m) ==
  /\ state \notin {"Receiving", "Verifying"}
  /\ ready
  /\ m.counter > floor

DuplicateBegin(m, q) ==
  state \in {"Receiving", "Verifying"} /\ m = manifest /\ q = beginSequence

\* Faulty: tells ranges apart by their first block only.
NewChunkByOffset(c) ==
  /\ c.offset + c.length <= ImageSize
  /\ state = "Receiving" /\ SameSession(c.session)
  /\ \A r \in ranges : r.offset # c.offset
  /\ ~SequenceUsed(c.sequence)
  /\ Cardinality(ranges) < Ledger

NewChunk(c) ==
  /\ c.offset + c.length <= ImageSize
  /\ state = "Receiving" /\ SameSession(c.session)
  /\ \A r \in ranges : Span(r) \cap Span(c) = {}
  /\ ~SequenceUsed(c.sequence)
  /\ Cardinality(ranges) < Ledger

\* Faulty: a known sequence number is refused before the ledger is looked at.
DuplicateChunkUnused(c) ==
  /\ state = "Receiving" /\ SameSession(c.session) /\ ~SequenceUsed(c.sequence)
  /\ [offset |-> c.offset, length |-> c.length, right |-> c.right, sequence |-> c.sequence]
       \in ranges

\* The same range, sequence number and checksum, and the same bytes in flash.
DuplicateChunk(c) ==
  /\ state = "Receiving" /\ SameSession(c.session)
  /\ [offset |-> c.offset, length |-> c.length, right |-> c.right, sequence |-> c.sequence]
       \in ranges
  /\ \A o \in Span(c) : flash[o] = Block(c.session, c.right)

NewCommit(s, q) ==
  state = "Receiving" /\ SameSession(s) /\ ~SequenceUsed(q) /\ HasCompleteImage

NewAbort(s, q) ==
  state \in {"Receiving", "Verifying"} /\ SameSession(s) /\ ~SequenceUsed(q)

DuplicateEnd(s, q, ended) == SameSession(s) /\ state = ended /\ q = terminalSequence

-----------------------------------------------------------------------------
(***************************************************************************)
(* The end of a session, and of the handler that ends it.                  *)
(***************************************************************************)
\* Faulty: gives the reservation up only when the sender asks for it.
EndHolding(ended, q) ==
  /\ sink' = "off"
  /\ state' = ended /\ terminalSequence' = q
  /\ pc' = IF owned /\ ended = "Aborted" THEN "abandon" ELSE "idle"

\* The sink is aborted and the reservation given up, if it is held.
End(ended, q) ==
  /\ sink' = "off"
  /\ state' = ended /\ terminalSequence' = q
  /\ pc' = IF owned THEN "abandon" ELSE "idle"

\* A store operation that did what it was asked but could not say so, or failed.
Unacknowledged(operation) ==
  /\ operation \/ UNCHANGED durableVars
  /\ faulted' = TRUE

Abandon ==
  /\ pc = "abandon"
  /\ \/ /\ Store!AbandonReservation(manifest.session, manifest.counter)
        /\ owned' = FALSE
        /\ UNCHANGED faulted
     \/ /\ Unacknowledged(Store!AbandonReservation(manifest.session, manifest.counter))
        /\ UNCHANGED owned
  /\ pc' = "idle"
  /\ UNCHANGED <<bootVars, sinkVars, sessionVars, ledgerVars, recoveryVars, acked>>

-----------------------------------------------------------------------------
(***************************************************************************)
(* BEGIN: authenticate, prepare the sink, reserve the counter.             *)
(***************************************************************************)
\* Target::begin() erases the partition it will write, also when that is the one
\* selected for boot, by an update that no restart has followed yet.
Erase ==
  /\ flash' = [o \in Offsets |-> Erased]
  /\ overwritten' = (overwritten \/ pending)

Begin(m, q) ==
  /\ pc = "idle" /\ NewBegin(m)
  /\ \/ /\ ~(m.genuine /\ sink = "off")   \* authenticate() refuses
        /\ state' = "Error" /\ terminalSequence' = 0
        /\ UNCHANGED <<manifest, beginSequence, sinkVars, overwritten, pc>>
     \/ /\ m.genuine /\ sink = "off"
        /\ manifest' = m /\ beginSequence' = q
        /\ UNCHANGED ordered
        /\ \/ /\ sink' = "open" /\ Erase
              /\ pc' = "reserve"
              /\ UNCHANGED <<state, terminalSequence>>
           \/ /\ state' = "Error" /\ terminalSequence' = 0   \* Sink::begin() fails
              /\ Erase \/ UNCHANGED <<flash, overwritten>>
              /\ UNCHANGED <<sink, pc>>
  /\ UNCHANGED <<durableVars, boot, running, pending, ledgerVars, owned, recoveryVars, acked, faulted>>

Reserve ==
  LET operation == Store!ReserveFloor(floor, manifest.counter, manifest.session)
  IN /\ pc = "reserve"
     /\ pc' = "idle"
     /\ \/ /\ operation
           /\ owned' = TRUE
           /\ ranges' = {} /\ received' = 0
           /\ state' = "Receiving"
           /\ acked' = {<<"Begin", manifest, beginSequence>>}
           /\ UNCHANGED <<sink, terminalSequence, faulted>>
        \/ /\ Unacknowledged(operation)
           /\ sink' = "off" /\ state' = "Error" /\ terminalSequence' = 0
           /\ UNCHANGED <<owned, ledgerVars, acked>>
     /\ UNCHANGED <<bootVars, flash, ordered, manifest, beginSequence, recoveryVars>>

(***************************************************************************)
(* CHUNK: PartitionSink takes no write but the next one, and m_NextOffset  *)
(* always equals m_ReceivedBytes.                                          *)
(***************************************************************************)
Chunk(c) ==
  /\ pc = "idle" /\ NewChunk(c)
  /\ \/ /\ ordered => c.offset = received
        /\ flash' = [o \in Offsets |-> IF o \in Span(c) THEN Block(c.session, c.right) ELSE flash[o]]
        /\ ranges' = ranges \cup {[offset |-> c.offset, length |-> c.length, right |-> c.right,
                                   sequence |-> c.sequence]}
        /\ received' = received + c.length
        /\ acked' = acked \cup {<<"Chunk", c>>}
        /\ UNCHANGED <<sink, state, terminalSequence, pc>>
     \/ /\ End("Error", 0)
        /\ UNCHANGED <<flash, ledgerVars, acked>>
  /\ UNCHANGED <<durableVars, bootVars, ordered, manifest, beginSequence, owned, recoveryVars, faulted>>

(***************************************************************************)
(* COMMIT: verify and stage the image, record that it is staged, consume   *)
(* the reservation, and only then select the image.                        *)
(***************************************************************************)
\* Faulty: leaves the digest to the boot loader.
VerifiesSignatureOnly == manifest.genuine

Verifies == manifest.genuine /\ flash = Image(manifest)

Commit(s, q) ==
  /\ pc = "idle" /\ NewCommit(s, q)
  /\ \/ /\ Verifies
        /\ sink' = "staged"
        /\ state' = "Verifying" /\ terminalSequence' = q
        /\ pc' = "mark"
     \/ End("Error", 0)
  /\ UNCHANGED <<durableVars, bootVars, flash, ordered, manifest, beginSequence, ledgerVars, owned,
                 recoveryVars, acked, faulted>>

\* Select the partition the sink wrote.
SelectForBoot ==
  /\ boot' = manifest /\ pending' = TRUE
  /\ overwritten' = FALSE
  /\ UNCHANGED running

\* Faulty: selects the image before the reservation is consumed.
MarkThenActivate ==
  /\ pc = "mark"
  /\ Store!MarkStaged(manifest.session, manifest.counter)
  /\ pc' = "complete"
  /\ SelectForBoot
  /\ UNCHANGED <<sinkVars, sessionVars, ledgerVars, owned, recoveryVars, acked, faulted>>

Mark ==
  LET operation == Store!MarkStaged(manifest.session, manifest.counter)
  IN /\ pc = "mark"
     /\ \/ /\ operation
           /\ pc' = "complete"
           /\ UNCHANGED <<sink, state, terminalSequence, faulted>>
        \/ Unacknowledged(operation) /\ End("Error", 0)
     /\ UNCHANGED <<bootVars, flash, ordered, manifest, beginSequence, ledgerVars, owned,
                    recoveryVars, acked>>

Complete ==
  LET operation == Store!CompleteReservation(manifest.session, manifest.counter)
  IN /\ pc = "complete"
     /\ \/ /\ operation
           /\ owned' = FALSE
           /\ pc' = "activate"
           /\ UNCHANGED <<sink, state, terminalSequence, faulted>>
        \/ /\ Unacknowledged(operation)
           /\ End("Error", 0)
           /\ UNCHANGED owned
     /\ UNCHANGED <<bootVars, flash, ordered, manifest, beginSequence, ledgerVars, recoveryVars, acked>>

Activate ==
  /\ pc = "activate"
  /\ \/ /\ SelectForBoot
        /\ sink' = "off" /\ state' = "Done" /\ pc' = "idle"
        /\ acked' = acked \cup {<<"Commit", manifest.session, terminalSequence>>}
        /\ UNCHANGED terminalSequence
     \/ /\ End("Error", 0)
        /\ UNCHANGED <<bootVars, acked>>
  /\ UNCHANGED <<durableVars, flash, ordered, manifest, beginSequence, ledgerVars, owned,
                 recoveryVars, faulted>>

\* ABORT
Abort(s, q) ==
  /\ pc = "idle" /\ NewAbort(s, q)
  /\ End("Aborted", q)
  /\ acked' = acked \cup {<<"Abort", s, q>>}
  /\ UNCHANGED <<durableVars, bootVars, flash, ordered, manifest, beginSequence, ledgerVars, owned,
                 recoveryVars, faulted>>

-----------------------------------------------------------------------------
(***************************************************************************)
(* Power is lost, or the device restarts to start the image selected; the  *)
(* loader may refuse one that was written over and start the old one.  The *)
(* platform then recovers the store once, before it accepts a BEGIN.       *)
(***************************************************************************)
StartSelected ==
  /\ running' = flash /\ flash' = running
  /\ pending' = FALSE

PowerLoss ==
  /\ \/ pending /\ StartSelected
     \/ (pending => overwritten) /\ UNCHANGED <<running, flash, pending>>
  /\ sink' = "off" /\ pc' = "idle"
  /\ state' = "Idle" /\ manifest' = NoManifest
  /\ beginSequence' = 0 /\ terminalSequence' = 0
  /\ ranges' = {} /\ received' = 0 /\ owned' = FALSE
  /\ attempted' = FALSE /\ ready' = FALSE
  /\ acked' = {} /\ faulted' = FALSE
  /\ UNCHANGED <<durableVars, boot, overwritten, ordered>>

RecoverAtBoot ==
  /\ ~attempted
  /\ attempted' = TRUE
  /\ \/ /\ Store!RecoverAbandonedReservation \/ (reservation = Store!None /\ UNCHANGED durableVars)
        /\ ready' = TRUE
        /\ UNCHANGED faulted
     \/ /\ Unacknowledged(Store!RecoverAbandonedReservation)
        /\ ready' = FALSE
  /\ UNCHANGED <<bootVars, sinkVars, sessionVars, ledgerVars, owned, pc, acked>>

Next ==
  \/ \E m \in Manifests, q \in Sequences : Begin(m, q)
  \/ \E c \in Chunks : Chunk(c)
  \/ \E s \in Sessions, q \in Sequences : Commit(s, q) \/ Abort(s, q)
  \/ Reserve \/ Mark \/ Complete \/ Activate \/ Abandon
  \/ PowerLoss \/ RecoverAtBoot

Spec == Init /\ [][Next]_vars

-----------------------------------------------------------------------------
\* Every field keeps its type; the ledger never outgrows its array.
TypeOK ==
  /\ floor \in Counters /\ reservation \in Store!Reservations
  /\ {flash, running} \subseteq [Offsets -> [image : Sessions \cup {NoSession}, right : BOOLEAN]]
  /\ pending \in BOOLEAN /\ overwritten \in BOOLEAN /\ boot \in Manifests \cup {NoManifest}
  /\ ordered \in BOOLEAN /\ sink \in {"off", "open", "staged"}
  /\ state \in {"Idle", "Receiving", "Verifying", "Done", "Aborted", "Error"}
  /\ manifest \in Manifests \cup {NoManifest}
  /\ beginSequence \in 0..MaxSequence /\ terminalSequence \in 0..MaxSequence
  /\ ranges \subseteq [offset : Offsets, length : 1..ImageSize, right : BOOLEAN, sequence : Sequences]
  /\ Cardinality(ranges) <= Ledger /\ received \in 0..ImageSize
  /\ owned \in BOOLEAN /\ attempted \in BOOLEAN /\ ready \in BOOLEAN /\ faulted \in BOOLEAN
  /\ pc \in {"idle", "reserve", "mark", "complete", "activate", "abandon"}

\* What the boot loader finds in the partition selected for boot.
BootImage == IF pending THEN flash ELSE running

\* Whatever the sender sends, repeats or reorders, and wherever power is lost,
\* the partition selected for boot holds the complete image its signed manifest
\* names, while updates are begun, fail or stop in the other one.  The exception:
\* an update begun after one was committed and before the restart is written over
\* the image just selected.
BootIsAuthentic ==
  \/ overwritten
  \/ BootImage = Image(boot) /\ (boot = NoManifest \/ boot.genuine)

\* The counter of a selected image was consumed for good before the image was
\* selected: no power loss leaves its reservation outstanding.
InstalledIsConsumed ==
  /\ boot.counter <= floor
  /\ reservation # Store!None => reservation.counter > boot.counter

\* No update, aborted, failed, repeated or resumed after a reboot, selects an
\* earlier image than the one selected before, or the same one again.
NeverOlder == [][boot' # boot => boot'.counter > boot.counter]_vars

\* The range ledger tells what the inactive partition holds: disjoint ranges,
\* their bytes written as sent, their lengths adding up, and nothing else.
LedgerIsFlash ==
  state = "Receiving" /\ pc = "idle" =>
    /\ \A r, x \in ranges : r # x => Span(r) \cap Span(x) = {}
    /\ received = Cardinality(UNION {Span(r) : r \in ranges})
    /\ \A o \in Offsets :
         \/ \E r \in ranges : o \in Span(r) /\ flash[o] = Block(manifest.session, r.right)
         \/ flash[o] = Erased /\ \A r \in ranges : o \notin Span(r)

\* A message that was accepted and is delivered again while its session is still
\* where that message left it is answered as a duplicate, never refused: broker
\* redelivery cannot fail a healthy transfer.
RetryAccepted ==
  pc = "idle" =>
    \A x \in acked :
      /\ x[1] = "Begin" /\ state = "Receiving" => DuplicateBegin(x[2], x[3])
      /\ x[1] = "Chunk" /\ state = "Receiving" => DuplicateChunk(x[2])
      /\ x[1] = "Commit" /\ state = "Done" => DuplicateEnd(x[2], x[3], "Done")
      /\ x[1] = "Abort" /\ state = "Aborted" => DuplicateEnd(x[2], x[3], "Aborted")

\* Unless a store operation failed since boot, an outstanding reservation is the
\* one of the session in progress, so that the next update is not locked out.
ReservationIsOwned ==
  reservation # Store!None /\ ready /\ ~faulted =>
    /\ owned
    /\ reservation.owner = manifest.session /\ reservation.counter = manifest.counter
==============================================================================
