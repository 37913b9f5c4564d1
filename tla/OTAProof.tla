------------------------------- MODULE OTAProof -------------------------------
(***************************************************************************)
(* What holds of an update over MQTT for any sessions, counters, image     *)
(* size and ledger, under any order and repetition of messages, a failure  *)
(* of every fallible call and power loss between any two steps; and of the *)
(* journal that keeps the rollback counter of it in flash.                 *)
(***************************************************************************)
EXTENDS OTASession, ReplayJournal, FiniteSetTheorems, TLAPS

Ending == {"mark", "complete", "activate"}

\* The fields that no arithmetic constrains.
StoreFields ==
  floor \in Nat /\ floor <= MaxCounter /\ reservation \in Store!Reservations

Partitions == [Offsets -> [image : Sessions \cup {NoSession}, right : BOOLEAN]]

FlashFields == flash \in Partitions /\ running \in Partitions

ManifestFields ==
  /\ boot \in Manifests \cup {NoManifest} /\ manifest \in Manifests \cup {NoManifest}
  /\ pending \in BOOLEAN /\ overwritten \in BOOLEAN

OtherFields ==
  /\ ordered \in BOOLEAN /\ sink \in {"off", "open", "staged"}
  /\ state \in {"Idle", "Receiving", "Verifying", "Done", "Aborted", "Error"}
  /\ beginSequence \in 0..MaxSequence /\ terminalSequence \in 0..MaxSequence
  /\ owned \in BOOLEAN /\ attempted \in BOOLEAN /\ ready \in BOOLEAN /\ faulted \in BOOLEAN
  /\ pc \in {"idle", "reserve", "mark", "complete", "activate", "abandon"}

Fields == StoreFields /\ FlashFields /\ ManifestFields /\ OtherFields

\* Where a handler can be in each state of the session; none writes the partition
\* selected for boot before it is known to be overwritten.
Places ==
  /\ pending /\ ~overwritten => state \notin {"Receiving", "Verifying"} /\ pc # "reserve"
  /\ pc = "reserve" => state \notin {"Receiving", "Verifying"}
  /\ pc = "abandon" => state \in {"Aborted", "Error"}
  /\ pc \in Ending <=> state = "Verifying"

\* What was verified stays as it was until it is selected.
Verified ==
  /\ pc = "reserve" => flash = [o \in Offsets |-> Erased]
  /\ pc \in Ending => manifest.genuine /\ flash = Image(manifest)

\* An outstanding reservation is at the floor and above the image selected for boot.
Consumed ==
  /\ InstalledIsConsumed
  /\ reservation # Store!None => reservation.counter = floor
  /\ pc = "activate" =>
       /\ reservation = Store!None
       /\ boot.counter < manifest.counter /\ manifest.counter <= floor

\* The session believes it holds a reservation only while it is in progress.
Owned ==
  /\ ReservationIsOwned
  /\ owned /\ ~faulted => state \in {"Receiving", "Verifying"} \/ pc = "abandon"
  /\ pc = "activate" => ~owned

Safe == Fields /\ Places /\ Verified /\ BootIsAuthentic /\ Consumed /\ Owned

-----------------------------------------------------------------------------
LEMMA InitSafe == Init => Safe
<1> SUFFICES ASSUME Init PROVE Safe
  OBVIOUS
<1> USE UpdateAssumption DEF Init, Store!Init, Store!None, Store!Reservations
<1>1. Fields
  <2>1. /\ boot = NoManifest /\ ordered \in BOOLEAN
        /\ pending = FALSE /\ overwritten = FALSE
    OBVIOUS
  <2>2. flash \in Partitions /\ running \in Partitions
    BY DEF Erased, Block, Image, NoManifest, Partitions
  <2>3. floor \in Nat /\ floor <= MaxCounter /\ reservation \in Store!Reservations
    OBVIOUS
  <2>4. beginSequence \in 0..MaxSequence /\ terminalSequence \in 0..MaxSequence
    OBVIOUS
  <2> QED BY <2>1, <2>2, <2>3, <2>4, Zenon DEF Fields, StoreFields, FlashFields, ManifestFields,
             OtherFields
<1>2. Places /\ Verified /\ BootIsAuthentic /\ Consumed /\ Owned
  BY DEF Places, Verified, BootIsAuthentic, BootImage, Consumed, Owned, InstalledIsConsumed,
     ReservationIsOwned, Ending, NoManifest
<1> QED BY <1>1, <1>2 DEF Safe

(***************************************************************************)
(* The operations of the store, as a session uses them.                    *)
(***************************************************************************)
LEMMA StoreSteps ==
  ASSUME Fields
  PROVE  /\ Store!ReserveFloor(floor, manifest.counter, manifest.session) =>
              /\ reservation = Store!None /\ manifest.counter > floor
              /\ floor' = manifest.counter /\ reservation' # Store!None
              /\ reservation'.owner = manifest.session
              /\ reservation'.counter = manifest.counter
              /\ floor' \in Nat /\ floor' <= MaxCounter
              /\ reservation' \in Store!Reservations
         /\ Store!MarkStaged(manifest.session, manifest.counter) =>
              /\ floor' = floor /\ reservation # Store!None /\ reservation' # Store!None
              /\ reservation'.owner = reservation.owner
              /\ reservation'.counter = reservation.counter
              /\ reservation' \in Store!Reservations
         /\ (\/ Store!CompleteReservation(manifest.session, manifest.counter)
             \/ Store!AbandonReservation(manifest.session, manifest.counter)) =>
              /\ floor' = floor /\ reservation # Store!None
              /\ reservation.counter = manifest.counter
              /\ reservation' = Store!None
         /\ Store!RecoverAbandonedReservation => floor' = floor /\ reservation' = Store!None
         /\ Store!None \in Store!Reservations
<1> USE UpdateAssumption DEF Store!None, Store!Reservations, Store!Held, Store!Clear, Store!Counters
<1>1. manifest \in Manifests \cup {NoManifest} /\ floor \in Nat /\ floor <= MaxCounter
      /\ reservation \in Store!Reservations
  BY DEF Fields, StoreFields, FlashFields, ManifestFields, OtherFields
<1>2. manifest.counter \in Nat /\ manifest.counter <= MaxCounter
      /\ (manifest.counter # 0 => manifest.session \in Sessions)
  BY <1>1 DEF Manifests, NoManifest, Counters
<1>3. Store!ReserveFloor(floor, manifest.counter, manifest.session) =>
              /\ reservation = Store!None /\ manifest.counter > floor
              /\ floor' = manifest.counter /\ reservation' # Store!None
              /\ reservation'.owner = manifest.session
              /\ reservation'.counter = manifest.counter
              /\ floor' \in Nat /\ floor' <= MaxCounter
              /\ reservation' \in Store!Reservations
  BY <1>1, <1>2 DEF Store!ReserveFloor
<1>4. Store!MarkStaged(manifest.session, manifest.counter) =>
              /\ floor' = floor /\ reservation # Store!None /\ reservation' # Store!None
              /\ reservation'.owner = reservation.owner
              /\ reservation'.counter = reservation.counter
              /\ reservation' \in Store!Reservations
  BY <1>1, <1>2 DEF Store!MarkStaged
<1>5. (\/ Store!CompleteReservation(manifest.session, manifest.counter)
       \/ Store!AbandonReservation(manifest.session, manifest.counter)) =>
              /\ floor' = floor /\ reservation # Store!None
              /\ reservation.counter = manifest.counter
              /\ reservation' = Store!None
  BY <1>1, <1>2 DEF Store!CompleteReservation, Store!AbandonReservation
<1>6. Store!RecoverAbandonedReservation => floor' = floor /\ reservation' = Store!None
  BY DEF Store!RecoverAbandonedReservation
<1> QED BY <1>3, <1>4, <1>5, <1>6

LEMMA Numbers ==
  ASSUME Fields
  PROVE  /\ boot.counter \in Nat /\ manifest.counter \in Nat /\ floor \in Nat
         /\ 0 \in 0..MaxSequence
  BY UpdateAssumption DEF Fields, StoreFields, ManifestFields, Manifests, NoManifest, Counters

LEMMA SafeStep ==
  ASSUME Safe, [Next]_vars
  PROVE  Safe'
<1> DEFINE Goal == Fields' /\ Places' /\ Verified' /\ BootIsAuthentic' /\ Consumed' /\ Owned'
<1> USE UpdateAssumption
    DEF durableVars, bootVars, sinkVars, sessionVars, ledgerVars, recoveryVars, Unacknowledged, Safe
<1>1. ASSUME NEW m \in Manifests, NEW q \in Sequences, Begin(m, q) PROVE Goal
  <2>1. Fields'
    <3>1. StoreFields'
      BY <1>1 DEF Begin, NewBegin, Erase, Fields, StoreFields
    <3>2. FlashFields'
      <4>1. Erased \in [image : Sessions \cup {NoSession}, right : BOOLEAN]
        BY DEF Erased, Block
      <4>2. flash' = flash \/ flash' = [o \in Offsets |-> Erased]
        BY <1>1 DEF Begin, Erase
      <4>3. running' = running
        BY <1>1 DEF Begin
      <4> QED BY <4>1, <4>2, <4>3 DEF Fields, FlashFields, Partitions
    <3>3. ManifestFields'
      BY <1>1 DEF Begin, NewBegin, Erase, Fields, ManifestFields
    <3>4. OtherFields'
      BY <1>1 DEF Begin, NewBegin, Erase, Fields, OtherFields, Sequences
    <3> QED BY <3>1, <3>2, <3>3, <3>4 DEF Fields
  <2>2. Places'
    BY <1>1 DEF Begin, NewBegin, Erase, Places, Ending, Fields, OtherFields
  <2>3. Verified'
    BY <1>1 DEF Begin, NewBegin, Erase, Verified, Places, Ending, Fields, OtherFields
  <2>4. BootIsAuthentic'
    <3>1. boot' = boot /\ running' = running /\ pending' = pending
      BY <1>1 DEF Begin
    <3>2. CASE Erase
      <4>1. pending \in BOOLEAN /\ overwritten \in BOOLEAN
        BY DEF Fields, ManifestFields
      <4>2. overwritten' \/ (~overwritten /\ ~pending)
        BY <3>2, <4>1 DEF Erase
      <4> QED BY <3>1, <4>2 DEF BootIsAuthentic, BootImage
    <3>3. CASE flash' = flash /\ overwritten' = overwritten
      BY <3>1, <3>3 DEF BootIsAuthentic, BootImage
    <3>4. Erase \/ (flash' = flash /\ overwritten' = overwritten)
      BY <1>1 DEF Begin
    <3> QED BY <3>2, <3>3, <3>4
  <2>5. Consumed'
    BY <1>1 DEF Begin, NewBegin, Erase, Consumed, InstalledIsConsumed, Fields, StoreFields,
       ManifestFields, OtherFields, Places, Ending
  <2>6. Owned'
    BY <1>1 DEF Begin, NewBegin, Erase, Owned, ReservationIsOwned, Fields, StoreFields, ManifestFields,
       OtherFields, Places, Ending
  <2> QED BY <2>1, <2>2, <2>3, <2>4, <2>5, <2>6
<1>2. CASE Reserve
  <2>1. Fields'
    <3>1. StoreFields'
      BY <1>2, StoreSteps DEF Reserve, Fields, StoreFields
    <3>2. FlashFields'
      BY <1>2 DEF Reserve, Fields, FlashFields, Partitions, Chunks, Erased, Block
    <3>3. ManifestFields'
      BY <1>2 DEF Reserve, Fields, ManifestFields
    <3>4. OtherFields'
      <4>1. (beginSequence \in 0..MaxSequence /\ terminalSequence \in 0..MaxSequence)'
        BY <1>2, Numbers DEF Reserve, Fields, OtherFields
      <4>2. (/\ ordered \in BOOLEAN /\ owned \in BOOLEAN /\ attempted \in BOOLEAN
             /\ ready \in BOOLEAN /\ faulted \in BOOLEAN)'
        BY <1>2, Zenon DEF Reserve, Fields, OtherFields
      <4>3. (/\ sink \in {"off", "open", "staged"}
             /\ state \in {"Idle", "Receiving", "Verifying", "Done", "Aborted", "Error"}
             /\ pc \in {"idle", "reserve", "mark", "complete", "activate", "abandon"})'
        BY <1>2 DEF Reserve, Fields, OtherFields
      <4> QED BY <4>1, <4>2, <4>3 DEF OtherFields
    <3> QED BY <3>1, <3>2, <3>3, <3>4 DEF Fields
  <2>2. Places'
    BY <1>2 DEF Reserve, Places, Ending, Fields, OtherFields
  <2>3. Verified'
    BY <1>2 DEF Reserve, Verified, Places, Ending, Fields, OtherFields
  <2>4. BootIsAuthentic'
    BY <1>2 DEF Reserve, BootIsAuthentic, BootImage, Verified, Places, Ending
  <2>5. Consumed'
    BY <1>2, StoreSteps, Numbers DEF Reserve, Consumed, InstalledIsConsumed, Fields
  <2>6. Owned'
    BY <1>2, StoreSteps DEF Reserve, Owned, ReservationIsOwned, Fields, StoreFields,
       ManifestFields, OtherFields, Places, Ending
  <2> QED BY <2>1, <2>2, <2>3, <2>4, <2>5, <2>6
<1>3. ASSUME NEW c \in Chunks, Chunk(c) PROVE Goal
  <2>1. Fields'
    <3>1. StoreFields'
      BY <1>3 DEF Chunk, NewChunk, End, Fields, StoreFields
    <3>2. FlashFields'
      BY <1>3 DEF Chunk, NewChunk, End, Fields, FlashFields, Partitions, Chunks, Erased, Block
    <3>3. ManifestFields'
      BY <1>3 DEF Chunk, NewChunk, End, Fields, ManifestFields
    <3>4. OtherFields'
      BY <1>3 DEF Chunk, NewChunk, End, Fields, OtherFields, Sequences
    <3> QED BY <3>1, <3>2, <3>3, <3>4 DEF Fields
  <2>2. Places'
    BY <1>3 DEF Chunk, NewChunk, End, Places, Ending, Fields, OtherFields
  <2>3. Verified'
    BY <1>3 DEF Chunk, NewChunk, End, Verified, Places, Ending, Fields, OtherFields
  <2>4. BootIsAuthentic'
    BY <1>3 DEF Chunk, NewChunk, End, BootIsAuthentic, BootImage, Verified, Places, Ending
  <2>5. Consumed'
    BY <1>3 DEF Chunk, NewChunk, End, Consumed, InstalledIsConsumed, Fields, StoreFields,
       ManifestFields, OtherFields, Places, Ending
  <2>6. Owned'
    BY <1>3 DEF Chunk, NewChunk, End, Owned, ReservationIsOwned, Fields, StoreFields,
       ManifestFields, OtherFields, Places, Ending
  <2> QED BY <2>1, <2>2, <2>3, <2>4, <2>5, <2>6
<1>4. ASSUME NEW s \in Sessions, NEW q \in Sequences, Commit(s, q) PROVE Goal
  <2>1. Fields'
    <3>1. StoreFields'
      BY <1>4 DEF Commit, NewCommit, End, Verifies, Fields, StoreFields
    <3>2. FlashFields'
      BY <1>4 DEF Commit, NewCommit, End, Verifies, Fields, FlashFields, Partitions, Chunks, Erased, Block
    <3>3. ManifestFields'
      BY <1>4 DEF Commit, NewCommit, End, Verifies, Fields, ManifestFields
    <3>4. OtherFields'
      BY <1>4 DEF Commit, NewCommit, End, Verifies, Fields, OtherFields, Sequences
    <3> QED BY <3>1, <3>2, <3>3, <3>4 DEF Fields
  <2>2. Places'
    BY <1>4 DEF Commit, NewCommit, End, Verifies, Places, Ending, Fields, OtherFields
  <2>3. Verified'
    BY <1>4 DEF Commit, NewCommit, End, Verifies, Verified, Places, Ending, Fields, OtherFields
  <2>4. BootIsAuthentic'
    BY <1>4 DEF Commit, NewCommit, End, Verifies, BootIsAuthentic, BootImage, Verified, Places, Ending
  <2>5. Consumed'
    BY <1>4 DEF Commit, NewCommit, End, Verifies, Consumed, InstalledIsConsumed, Fields,
       StoreFields, ManifestFields, OtherFields, Places, Ending
  <2>6. Owned'
    BY <1>4 DEF Commit, NewCommit, End, Verifies, Owned, ReservationIsOwned, Fields, StoreFields,
       ManifestFields, OtherFields, Places, Ending
  <2> QED BY <2>1, <2>2, <2>3, <2>4, <2>5, <2>6
<1>5. CASE Mark
  <2>1. Fields'
    <3>1. StoreFields'
      BY <1>5, StoreSteps DEF Mark, End, Fields, StoreFields
    <3>2. FlashFields'
      BY <1>5 DEF Mark, End, Fields, FlashFields, Partitions, Chunks, Erased, Block
    <3>3. ManifestFields'
      BY <1>5 DEF Mark, End, Fields, ManifestFields
    <3>4. OtherFields'
      <4>1. (beginSequence \in 0..MaxSequence /\ terminalSequence \in 0..MaxSequence)'
        BY <1>5, Numbers DEF Mark, End, Fields, OtherFields
      <4>2. (/\ ordered \in BOOLEAN /\ owned \in BOOLEAN /\ attempted \in BOOLEAN
             /\ ready \in BOOLEAN /\ faulted \in BOOLEAN)'
        BY <1>5, Zenon DEF Mark, End, Fields, OtherFields
      <4>3. (/\ sink \in {"off", "open", "staged"}
             /\ state \in {"Idle", "Receiving", "Verifying", "Done", "Aborted", "Error"}
             /\ pc \in {"idle", "reserve", "mark", "complete", "activate", "abandon"})'
        BY <1>5 DEF Mark, End, Fields, OtherFields
      <4> QED BY <4>1, <4>2, <4>3 DEF OtherFields
    <3> QED BY <3>1, <3>2, <3>3, <3>4 DEF Fields
  <2>2. Places'
    BY <1>5 DEF Mark, End, Places, Ending, Fields, OtherFields
  <2>3. Verified'
    BY <1>5 DEF Mark, End, Verified, Places, Ending, Fields, OtherFields
  <2>4. BootIsAuthentic'
    BY <1>5 DEF Mark, End, BootIsAuthentic, BootImage, Verified, Places, Ending
  <2>5. Consumed'
    BY <1>5, StoreSteps DEF Mark, End, Consumed, InstalledIsConsumed, Fields, StoreFields,
       ManifestFields, OtherFields, Places, Ending
  <2>6. Owned'
    BY <1>5, StoreSteps DEF Mark, End, Owned, ReservationIsOwned, Fields, StoreFields,
       ManifestFields, OtherFields, Places, Ending
  <2> QED BY <2>1, <2>2, <2>3, <2>4, <2>5, <2>6
<1>6. CASE Complete
  <2>1. Fields'
    <3>1. StoreFields'
      BY <1>6, StoreSteps DEF Complete, End, Fields, StoreFields
    <3>2. FlashFields'
      BY <1>6 DEF Complete, End, Fields, FlashFields, Partitions, Chunks, Erased, Block
    <3>3. ManifestFields'
      BY <1>6 DEF Complete, End, Fields, ManifestFields
    <3>4. OtherFields'
      <4>1. (beginSequence \in 0..MaxSequence /\ terminalSequence \in 0..MaxSequence)'
        BY <1>6, Numbers DEF Complete, End, Fields, OtherFields
      <4>2. (/\ ordered \in BOOLEAN /\ owned \in BOOLEAN /\ attempted \in BOOLEAN
             /\ ready \in BOOLEAN /\ faulted \in BOOLEAN)'
        BY <1>6, Zenon DEF Complete, End, Fields, OtherFields
      <4>3. (/\ sink \in {"off", "open", "staged"}
             /\ state \in {"Idle", "Receiving", "Verifying", "Done", "Aborted", "Error"}
             /\ pc \in {"idle", "reserve", "mark", "complete", "activate", "abandon"})'
        BY <1>6 DEF Complete, End, Fields, OtherFields
      <4> QED BY <4>1, <4>2, <4>3 DEF OtherFields
    <3> QED BY <3>1, <3>2, <3>3, <3>4 DEF Fields
  <2>2. Places'
    BY <1>6 DEF Complete, End, Places, Ending, Fields, OtherFields
  <2>3. Verified'
    BY <1>6 DEF Complete, End, Verified, Places, Ending, Fields, OtherFields
  <2>4. BootIsAuthentic'
    BY <1>6 DEF Complete, End, BootIsAuthentic, BootImage, Verified, Places, Ending
  <2>5. Consumed'
    BY <1>6, StoreSteps DEF Complete, End, Consumed, InstalledIsConsumed, Fields, StoreFields,
       ManifestFields, OtherFields, Places, Ending
  <2>6. Owned'
    BY <1>6, StoreSteps DEF Complete, End, Owned, ReservationIsOwned, Fields, StoreFields,
       ManifestFields, OtherFields, Places, Ending
  <2> QED BY <2>1, <2>2, <2>3, <2>4, <2>5, <2>6
<1>7. CASE Activate
  <2>1. Fields'
    <3>1. StoreFields'
      BY <1>7 DEF Activate, SelectForBoot, End, Fields, StoreFields
    <3>2. FlashFields'
      BY <1>7 DEF Activate, SelectForBoot, End, Fields, FlashFields, Partitions, Chunks, Erased, Block
    <3>3. ManifestFields'
      BY <1>7 DEF Activate, SelectForBoot, End, Fields, ManifestFields
    <3>4. OtherFields'
      BY <1>7 DEF Activate, SelectForBoot, End, Fields, OtherFields, Sequences
    <3> QED BY <3>1, <3>2, <3>3, <3>4 DEF Fields
  <2>2. Places'
    BY <1>7 DEF Activate, SelectForBoot, End, Places, Ending, Fields, OtherFields
  <2>3. Verified'
    BY <1>7 DEF Activate, SelectForBoot, End, Verified, Places, Ending, Fields, OtherFields
  <2>4. BootIsAuthentic'
    BY <1>7 DEF Activate, SelectForBoot, End, BootIsAuthentic, BootImage, Verified, Places, Ending
  <2>5. Consumed'
    BY <1>7 DEF Activate, SelectForBoot, End, Consumed, InstalledIsConsumed, Fields, StoreFields, ManifestFields,
       OtherFields, Places, Ending
  <2>6. Owned'
    BY <1>7 DEF Activate, SelectForBoot, End, Owned, ReservationIsOwned, Fields, StoreFields, ManifestFields,
       OtherFields, Places, Ending
  <2> QED BY <2>1, <2>2, <2>3, <2>4, <2>5, <2>6
<1>8. ASSUME NEW s \in Sessions, NEW q \in Sequences, Abort(s, q) PROVE Goal
  <2>1. Fields'
    <3>1. StoreFields'
      BY <1>8 DEF Abort, NewAbort, End, Fields, StoreFields
    <3>2. FlashFields'
      BY <1>8 DEF Abort, NewAbort, End, Fields, FlashFields, Partitions, Chunks, Erased, Block
    <3>3. ManifestFields'
      BY <1>8 DEF Abort, NewAbort, End, Fields, ManifestFields
    <3>4. OtherFields'
      BY <1>8 DEF Abort, NewAbort, End, Fields, OtherFields, Sequences
    <3> QED BY <3>1, <3>2, <3>3, <3>4 DEF Fields
  <2>2. Places'
    BY <1>8 DEF Abort, NewAbort, End, Places, Ending, Fields, OtherFields
  <2>3. Verified'
    BY <1>8 DEF Abort, NewAbort, End, Verified, Places, Ending, Fields, OtherFields
  <2>4. BootIsAuthentic'
    BY <1>8 DEF Abort, NewAbort, End, BootIsAuthentic, BootImage, Verified, Places, Ending
  <2>5. Consumed'
    BY <1>8 DEF Abort, NewAbort, End, Consumed, InstalledIsConsumed, Fields, StoreFields,
       ManifestFields, OtherFields, Places, Ending
  <2>6. Owned'
    BY <1>8 DEF Abort, NewAbort, End, Owned, ReservationIsOwned, Fields, StoreFields,
       ManifestFields, OtherFields, Places, Ending
  <2> QED BY <2>1, <2>2, <2>3, <2>4, <2>5, <2>6
<1>9. CASE Abandon
  <2>1. Fields'
    <3>1. StoreFields'
      BY <1>9, StoreSteps DEF Abandon, Fields, StoreFields
    <3>2. FlashFields'
      BY <1>9 DEF Abandon, Fields, FlashFields, Partitions, Chunks, Erased, Block
    <3>3. ManifestFields'
      BY <1>9 DEF Abandon, Fields, ManifestFields
    <3>4. OtherFields'
      BY <1>9 DEF Abandon, Fields, OtherFields, Sequences
    <3> QED BY <3>1, <3>2, <3>3, <3>4 DEF Fields
  <2>2. Places'
    BY <1>9 DEF Abandon, Places, Ending, Fields, OtherFields
  <2>3. Verified'
    BY <1>9 DEF Abandon, Verified, Places, Ending, Fields, OtherFields
  <2>4. BootIsAuthentic'
    BY <1>9 DEF Abandon, BootIsAuthentic, BootImage, Verified, Places, Ending
  <2>5. Consumed'
    BY <1>9, StoreSteps DEF Abandon, Consumed, InstalledIsConsumed, Fields, StoreFields,
       ManifestFields, OtherFields, Places, Ending
  <2>6. Owned'
    BY <1>9, StoreSteps DEF Abandon, Owned, ReservationIsOwned, Fields, StoreFields,
       ManifestFields, OtherFields, Places, Ending
  <2> QED BY <2>1, <2>2, <2>3, <2>4, <2>5, <2>6
<1>10. CASE PowerLoss
  <2>1. Fields'
    <3>1. StoreFields'
      BY <1>10 DEF PowerLoss, StartSelected, Fields, StoreFields
    <3>2. FlashFields'
      BY <1>10 DEF PowerLoss, StartSelected, Fields, FlashFields, Partitions, Chunks, Erased, Block
    <3>3. ManifestFields'
      BY <1>10 DEF PowerLoss, StartSelected, Fields, ManifestFields
    <3>4. OtherFields'
      <4>1. (beginSequence \in 0..MaxSequence /\ terminalSequence \in 0..MaxSequence)'
        BY <1>10, Numbers DEF PowerLoss, StartSelected, Fields, OtherFields
      <4>2. (/\ ordered \in BOOLEAN /\ owned \in BOOLEAN /\ attempted \in BOOLEAN
             /\ ready \in BOOLEAN /\ faulted \in BOOLEAN)'
        BY <1>10, Zenon DEF PowerLoss, StartSelected, Fields, OtherFields
      <4>3. (/\ sink \in {"off", "open", "staged"}
             /\ state \in {"Idle", "Receiving", "Verifying", "Done", "Aborted", "Error"}
             /\ pc \in {"idle", "reserve", "mark", "complete", "activate", "abandon"})'
        BY <1>10 DEF PowerLoss, StartSelected, Fields, OtherFields
      <4> QED BY <4>1, <4>2, <4>3 DEF OtherFields
    <3> QED BY <3>1, <3>2, <3>3, <3>4 DEF Fields
  <2>2. Places'
    BY <1>10 DEF PowerLoss, StartSelected, Places, Ending, Fields, OtherFields
  <2>3. Verified'
    BY <1>10 DEF PowerLoss, StartSelected, Verified, Places, Ending, Fields, OtherFields
  <2>4. BootIsAuthentic'
    BY <1>10 DEF PowerLoss, StartSelected, BootIsAuthentic, BootImage, Verified, Places, Ending
  <2>5. Consumed'
    BY <1>10 DEF PowerLoss, StartSelected, Consumed, InstalledIsConsumed, Fields, StoreFields, ManifestFields,
       OtherFields, Places, Ending
  <2>6. Owned'
    BY <1>10 DEF PowerLoss, StartSelected, Owned, ReservationIsOwned, Fields, StoreFields, ManifestFields,
       OtherFields, Places, Ending
  <2> QED BY <2>1, <2>2, <2>3, <2>4, <2>5, <2>6
<1>11. CASE RecoverAtBoot
  <2>1. Fields'
    <3>1. StoreFields'
      BY <1>11, StoreSteps DEF RecoverAtBoot, Fields, StoreFields
    <3>2. FlashFields'
      BY <1>11 DEF RecoverAtBoot, Fields, FlashFields, Partitions, Chunks, Erased, Block
    <3>3. ManifestFields'
      BY <1>11 DEF RecoverAtBoot, Fields, ManifestFields
    <3>4. OtherFields'
      BY <1>11 DEF RecoverAtBoot, Fields, OtherFields, Sequences
    <3> QED BY <3>1, <3>2, <3>3, <3>4 DEF Fields
  <2>2. Places'
    BY <1>11 DEF RecoverAtBoot, Places, Ending, Fields, OtherFields
  <2>3. Verified'
    BY <1>11 DEF RecoverAtBoot, Verified, Places, Ending, Fields, OtherFields
  <2>4. BootIsAuthentic'
    BY <1>11 DEF RecoverAtBoot, BootIsAuthentic, BootImage, Verified, Places, Ending
  <2>5. Consumed'
    BY <1>11, StoreSteps DEF RecoverAtBoot, Consumed, InstalledIsConsumed, Fields, StoreFields,
       ManifestFields, OtherFields, Places, Ending
  <2>6. Owned'
    BY <1>11, StoreSteps DEF RecoverAtBoot, Owned, ReservationIsOwned, Fields, StoreFields,
       ManifestFields, OtherFields, Places, Ending
  <2> QED BY <2>1, <2>2, <2>3, <2>4, <2>5, <2>6
<1>12. CASE UNCHANGED vars
  <2>1. Fields'
    <3>1. StoreFields'
      BY <1>12 DEF vars, Fields, StoreFields
    <3>2. FlashFields'
      BY <1>12 DEF vars, Fields, FlashFields, Partitions, Chunks, Erased, Block
    <3>3. ManifestFields'
      BY <1>12 DEF vars, Fields, ManifestFields
    <3>4. OtherFields'
      BY <1>12 DEF vars, Fields, OtherFields, Sequences
    <3> QED BY <3>1, <3>2, <3>3, <3>4 DEF Fields
  <2>2. Places'
    BY <1>12 DEF vars, Places, Ending, Fields, OtherFields
  <2>3. Verified'
    BY <1>12 DEF vars, Verified, Places, Ending, Fields, OtherFields
  <2>4. BootIsAuthentic'
    BY <1>12 DEF vars, BootIsAuthentic, BootImage, Verified, Ending
  <2>5. Consumed'
    BY <1>12 DEF vars, Consumed, InstalledIsConsumed, Fields, StoreFields, ManifestFields,
       OtherFields, Places, Ending
  <2>6. Owned'
    BY <1>12 DEF vars, Owned, ReservationIsOwned, Fields, StoreFields, ManifestFields, OtherFields,
       Places, Ending
  <2> QED BY <2>1, <2>2, <2>3, <2>4, <2>5, <2>6
<1> QED BY <1>1, <1>2, <1>3, <1>4, <1>5, <1>6, <1>7, <1>8, <1>9, <1>10, <1>11, <1>12, Zenon DEF Next

-----------------------------------------------------------------------------
(***************************************************************************)
(* The ledger.  It is told apart from the flash only while blocks arrive,  *)
(* but its size and its count keep their bounds in every state.            *)
(***************************************************************************)
Ranges == [offset : Offsets, length : 1..ImageSize, right : BOOLEAN, sequence : Sequences]

Covered == UNION {Span(r) : r \in ranges}

Ledgers ==
  /\ ranges \subseteq Ranges /\ IsFiniteSet(ranges) /\ Covered \subseteq Offsets
  /\ Cardinality(ranges) <= Ledger /\ received \in 0..ImageSize
  /\ state = "Receiving" => pc = "idle" /\ LedgerIsFlash

\* The blocks a range covers are as many as it says.
LEMMA SpanSize ==
  ASSUME NEW r, r.offset \in Offsets, r.length \in 1..ImageSize,
         r.offset + r.length <= ImageSize
  PROVE  /\ Span(r) \subseteq Offsets /\ IsFiniteSet(Span(r))
         /\ Cardinality(Span(r)) = r.length
<1> USE UpdateAssumption DEF Offsets, Span
<1>1. r.offset \in Int /\ r.offset + r.length - 1 \in Int /\ r.length >= 1
  OBVIOUS
<1> DEFINE a == r.offset
           b == r.offset + r.length - 1
<1>2. Span(r) = a..b /\ a \in Int /\ b \in Int /\ a <= b /\ b - a + 1 = r.length
  BY <1>1
<1>3. Span(r) \subseteq Offsets
  BY <1>1
<1> HIDE DEF a, b, Span
<1>4. IsFiniteSet(a..b) /\ Cardinality(a..b) = IF a > b THEN 0 ELSE b - a + 1
  BY <1>2, FS_Interval
<1> QED BY <1>2, <1>3, <1>4

LEMMA ChunkKeepsLedger ==
  ASSUME Safe, Ledgers, NEW c \in Chunks, Chunk(c)
  PROVE  Ledgers'
<1> USE UpdateAssumption
<1> DEFINE n == [offset |-> c.offset, length |-> c.length, right |-> c.right,
                 sequence |-> c.sequence]
<1>1. /\ pc = "idle" /\ state = "Receiving" /\ LedgerIsFlash
      /\ c.offset + c.length <= ImageSize /\ c.session = manifest.session
      /\ \A r \in ranges : Span(r) \cap Span(c) = {}
      /\ Cardinality(ranges) < Ledger
  BY DEF Chunk, NewChunk, SameSession, Ledgers
<1>2. CASE UNCHANGED ledgerVars /\ state' = "Error"
  BY <1>2 DEF Ledgers, ledgerVars, Covered
<1>3. CASE /\ ranges' = ranges \cup {n} /\ received' = received + c.length
           /\ flash' = [o \in Offsets |->
                          IF o \in Span(c) THEN Block(c.session, c.right) ELSE flash[o]]
           /\ UNCHANGED <<state, pc, manifest>>
  <2>1. n \in Ranges /\ Span(n) = Span(c)
    BY DEF Chunks, Ranges, Span
  <2>2. /\ Span(c) \subseteq Offsets /\ IsFiniteSet(Span(c))
        /\ Cardinality(Span(c)) = c.length
    BY <1>1, SpanSize DEF Chunks
  <2>3. c.offset \in Span(c) /\ n \notin ranges
    <3>1. c.offset \in Span(c)
      BY DEF Span, Chunks, Offsets
    <3> QED BY <3>1, <2>1, <1>1
  <2>4. /\ ranges' \subseteq Ranges /\ IsFiniteSet(ranges')
        /\ Cardinality(ranges') <= Ledger
    <3>1. Cardinality(ranges) \in Nat /\ Cardinality(ranges') = Cardinality(ranges) + 1
      BY <1>3, <2>3, FS_AddElement, FS_CardinalityType DEF Ledgers
    <3>2. IsFiniteSet(ranges')
      BY <1>3, FS_AddElement DEF Ledgers
    <3> QED BY <1>1, <1>3, <2>1, <3>1, <3>2 DEF Ledgers
  <2>5. Covered' = Covered \cup Span(c) /\ Covered \cap Span(c) = {}
    BY <1>1, <1>3, <2>1 DEF Covered
  <2>6. Covered' \subseteq Offsets /\ IsFiniteSet(Covered)
    <3>1. Covered' \subseteq Offsets
      BY <2>2, <2>5 DEF Ledgers
    <3>2. IsFiniteSet(Offsets)
      BY FS_Interval DEF Offsets
    <3>3. IsFiniteSet(Covered)
      BY <3>2, FS_Subset DEF Ledgers
    <3> QED BY <3>1, <3>3
  <2>7. received' = Cardinality(Covered') /\ received' \in 0..ImageSize
    <3>1. received = Cardinality(Covered) /\ received \in Nat
      BY <1>1 DEF LedgerIsFlash, Covered, Ledgers
    <3>2. Cardinality(Covered') = Cardinality(Covered) + c.length
      <4>1. Cardinality(Covered \cup Span(c)) =
              Cardinality(Covered) + Cardinality(Span(c)) - Cardinality(Covered \cap Span(c))
        BY <2>2, <2>6, FS_Union
      <4>2. Cardinality(Covered \cap Span(c)) = 0
        BY <2>5, FS_EmptySet, Zenon
      <4>3. Covered' = Covered \cup Span(c) /\ Cardinality(Span(c)) = c.length
        BY <2>2, <2>5
      <4>4. Cardinality(Covered) \in Nat /\ c.length \in Nat
        BY <3>1 DEF Chunks
      <4> HIDE DEF Covered
      <4> QED BY <4>1, <4>2, <4>3, <4>4
    <3>3. IsFiniteSet(Offsets) /\ Cardinality(Offsets) = ImageSize
      <4>1. Cardinality(0..(ImageSize - 1)) = (ImageSize - 1) - 0 + 1 /\ IsFiniteSet(Offsets)
        BY FS_Interval DEF Offsets
      <4> QED BY <4>1 DEF Offsets
    <3>4. Cardinality(Covered') <= ImageSize
      BY <2>6, <3>3, FS_Subset
    <3> QED BY <1>3, <3>1, <3>2, <3>4 DEF Chunks
  <2>8. LedgerIsFlash'
    <3>1. \A r, x \in ranges' : r # x => Span(r) \cap Span(x) = {}
      BY <1>1, <1>3, <2>1 DEF LedgerIsFlash
    <3>2. ASSUME NEW o \in Offsets
          PROVE  \/ \E r \in ranges' :
                      o \in Span(r) /\ flash'[o] = Block(manifest'.session, r.right)
                 \/ flash'[o] = Erased /\ \A r \in ranges' : o \notin Span(r)
      <4>1. CASE o \in Span(c)
        BY <1>1, <1>3, <2>1, <4>1
      <4>2. CASE o \notin Span(c)
        <5>1. flash'[o] = flash[o]
          BY <1>3, <4>2
        <5> QED BY <1>1, <1>3, <2>1, <4>2, <5>1 DEF LedgerIsFlash
      <4> QED BY <4>1, <4>2
    <3> QED BY <2>7, <3>1, <3>2 DEF LedgerIsFlash, Covered
  <2> QED BY <1>1, <1>3, <2>4, <2>6, <2>7, <2>8 DEF Ledgers
<1> QED BY <1>1, <1>2, <1>3 DEF Chunk, End

LEMMA LedgersStep ==
  ASSUME Safe, Ledgers, [Next]_vars
  PROVE  Ledgers'
<1> USE DEF durableVars, bootVars, sinkVars, sessionVars, ledgerVars, recoveryVars, Unacknowledged
<1>1. ASSUME UNCHANGED ledgerVars, state' = "Receiving" => state = "Receiving" /\ pc' = pc
             /\ UNCHANGED <<manifest, flash>>
      PROVE  Ledgers'
  BY <1>1 DEF Ledgers, LedgerIsFlash, Covered
<1>2. ASSUME ranges' = {}, received' = 0,
             state' = "Receiving" => pc' = "idle" /\ flash' = [o \in Offsets |-> Erased]
      PROVE  Ledgers'
  <2>1. Covered' = {} /\ Cardinality(Covered') = 0 /\ Cardinality(ranges') = 0
        /\ IsFiniteSet(ranges')
    BY <1>2, FS_EmptySet DEF Covered
  <2>2. state' = "Receiving" => LedgerIsFlash'
    BY <1>2, <2>1 DEF LedgerIsFlash, Covered
  <2> QED BY <1>2, <2>1, <2>2, UpdateAssumption DEF Ledgers
<1>3. ASSUME NEW m \in Manifests, NEW q \in Sequences, Begin(m, q) PROVE Ledgers'
  BY <1>1, <1>3 DEF Begin, NewBegin
<1>4. CASE Reserve
  <2>1. flash' = flash /\ flash = [o \in Offsets |-> Erased] /\ pc' = "idle"
    BY <1>4 DEF Reserve, Safe, Verified
  <2>2. (ranges' = {} /\ received' = 0) \/ (UNCHANGED ledgerVars /\ state' = "Error")
    BY <1>4 DEF Reserve
  <2> QED BY <1>1, <1>2, <2>1, <2>2
<1>5. ASSUME NEW c \in Chunks, Chunk(c) PROVE Ledgers'
  BY <1>5, ChunkKeepsLedger
<1>6. ASSUME NEW s \in Sessions, NEW q \in Sequences, Commit(s, q) \/ Abort(s, q) PROVE Ledgers'
  BY <1>1, <1>6 DEF Commit, Abort, End
<1>7. CASE Mark \/ Complete \/ Activate
  BY <1>1, <1>7 DEF Mark, Complete, Activate, End, Safe, Places, Ending
<1>8. CASE Abandon \/ RecoverAtBoot
  BY <1>1, <1>8 DEF Abandon, RecoverAtBoot, Safe, Places
<1>9. CASE PowerLoss
  BY <1>2, <1>9 DEF PowerLoss
<1>10. CASE UNCHANGED vars
  BY <1>1, <1>10 DEF vars
<1> QED BY <1>3, <1>4, <1>5, <1>6, <1>7, <1>8, <1>9, <1>10, Zenon DEF Next

-----------------------------------------------------------------------------
(***************************************************************************)
(* What was accepted.  A session that has not ended has accepted no        *)
(* COMMIT and no ABORT yet.                                                *)
(***************************************************************************)
Answers ==
  \A x \in acked :
    /\ x[1] = "Begin" /\ state \in {"Receiving", "Verifying"} =>
         x[2] = manifest /\ x[3] = beginSequence
    /\ x[1] = "Chunk" /\ state = "Receiving" => DuplicateChunk(x[2])
    /\ x[1] \in {"Commit", "Abort"} => state \notin {"Receiving", "Verifying"}
    /\ /\ pc # "reserve"
       /\ \/ x[1] = "Commit" /\ state = "Done"
          \/ x[1] = "Abort" /\ state = "Aborted"
       => x[2] = manifest.session /\ x[3] = terminalSequence

LEMMA AnswersStep ==
  ASSUME Safe, Ledgers, Answers, [Next]_vars
  PROVE  Answers'
<1> USE DEF durableVars, bootVars, sinkVars, sessionVars, ledgerVars, recoveryVars, Unacknowledged
<1>1. ASSUME NEW m \in Manifests, NEW q \in Sequences, Begin(m, q) PROVE Answers'
  BY <1>1 DEF Begin, NewBegin, Answers
<1>2. CASE Reserve
  BY <1>2 DEF Reserve, Answers
<1>3. ASSUME NEW c \in Chunks, Chunk(c) PROVE Answers'
  <2>1. /\ pc = "idle" /\ state = "Receiving" /\ SameSession(c.session)
        /\ \A r \in ranges : Span(r) \cap Span(c) = {}
        /\ Span(c) \subseteq Offsets
    BY <1>3, SpanSize DEF Chunk, NewChunk, Chunks
  <2>2. CASE state' = "Error" /\ UNCHANGED acked
    BY <2>2 DEF Answers
  <2> DEFINE Written(d) == [offset |-> d.offset, length |-> d.length, right |-> d.right,
                            sequence |-> d.sequence]
  <2>3. CASE /\ ranges' = ranges \cup {Written(c)}
             /\ flash' = [o \in Offsets |->
                            IF o \in Span(c) THEN Block(c.session, c.right) ELSE flash[o]]
             /\ acked' = acked \cup {<<"Chunk", c>>}
             /\ UNCHANGED <<state, pc, manifest, beginSequence>>
    <3>1. SameSession(c.session)' /\ DuplicateChunk(c)'
      BY <2>1, <2>3 DEF SameSession, DuplicateChunk
    <3>2. ASSUME NEW x \in acked, x[1] = "Chunk" PROVE DuplicateChunk(x[2])'
      <4>1. /\ DuplicateChunk(x[2]) /\ Written(x[2]) \in ranges
            /\ SameSession(x[2].session)'
        BY <2>1, <2>3, <3>2 DEF Answers, DuplicateChunk, SameSession
      <4>2. Span(x[2]) = Span(Written(x[2]))
        BY DEF Span
      <4>3. Span(x[2]) \cap Span(c) = {} /\ Span(x[2]) \subseteq Offsets
        BY <2>1, <4>1, <4>2 DEF Ledgers, Covered
      <4>4. \A o \in Span(x[2]) : flash'[o] = flash[o]
        BY <2>3, <4>3
      <4> QED BY <2>1, <2>3, <4>1, <4>4 DEF DuplicateChunk
    <3>3. \A x \in acked : x[1] \notin {"Commit", "Abort"}
      BY <2>1 DEF Answers
    <3>4. \A x \in acked : x[1] = "Begin" => x[2] = manifest /\ x[3] = beginSequence
      BY <2>1 DEF Answers
    <3> QED BY <2>1, <2>3, <3>1, <3>2, <3>3, <3>4 DEF Answers
  <2> QED BY <1>3, <2>1, <2>2, <2>3 DEF Chunk, End
<1>4. ASSUME NEW s \in Sessions, NEW q \in Sequences, Commit(s, q) PROVE Answers'
  BY <1>4 DEF Commit, NewCommit, End, Answers
<1>5. ASSUME NEW s \in Sessions, NEW q \in Sequences, Abort(s, q) PROVE Answers'
  BY <1>5 DEF Abort, NewAbort, SameSession, End, Answers, Safe, Places, Ending
<1>6. CASE Mark
  BY <1>6 DEF Mark, End, Answers, Safe, Places, Ending
<1>7. CASE Complete
  BY <1>7 DEF Complete, End, Answers, Safe, Places, Ending
<1>8. CASE Activate
  BY <1>8 DEF Activate, End, Answers, Safe, Places, Ending
<1>9. CASE Abandon
  BY <1>9 DEF Abandon, Answers, Safe, Places
<1>10. CASE PowerLoss
  BY <1>10 DEF PowerLoss, Answers
<1>11. CASE RecoverAtBoot \/ UNCHANGED vars
  BY <1>11 DEF RecoverAtBoot, vars, Answers, DuplicateChunk, SameSession
<1> QED BY <1>1, <1>2, <1>3, <1>4, <1>5, <1>6, <1>7, <1>8, <1>9, <1>10, <1>11, Zenon DEF Next

-----------------------------------------------------------------------------
IInv == Safe /\ Ledgers /\ Answers

LEMMA InitHolds == Init => IInv
<1>1. Init => Ledgers
  <2> SUFFICES ASSUME Init PROVE Ledgers
    OBVIOUS
  <2>1. ranges = {} /\ received = 0 /\ state = "Idle"
    BY DEF Init
  <2>2. Covered = {} /\ Cardinality(ranges) = 0 /\ IsFiniteSet(ranges)
    BY <2>1, FS_EmptySet DEF Covered
  <2> QED BY <2>1, <2>2, UpdateAssumption DEF Ledgers
<1>2. Init => Answers
  BY DEF Init, Answers
<1> QED BY <1>1, <1>2, InitSafe DEF IInv

LEMMA Invariance == Spec => []IInv
<1>1. IInv /\ [Next]_vars => IInv'
  BY SafeStep, LedgersStep, AnswersStep DEF IInv
<1> QED BY <1>1, InitHolds, PTL DEF Spec

\* Every field keeps its type, and the ledger of ranges its size.
THEOREM TypesHold == Spec => []TypeOK
<1>1. IInv => TypeOK
  <2> SUFFICES ASSUME IInv PROVE TypeOK
    OBVIOUS
  <2>1. floor \in Counters /\ reservation \in Store!Reservations
    BY UpdateAssumption DEF IInv, Safe, Fields, StoreFields, Counters
  <2>2. {flash, running} \subseteq [Offsets -> [image : Sessions \cup {NoSession}, right : BOOLEAN]]
    BY DEF IInv, Safe, Fields, FlashFields, Partitions
  <2> QED BY <2>1, <2>2 DEF IInv, Safe, Fields, ManifestFields, OtherFields, Ledgers, Ranges, TypeOK
<1> QED BY <1>1, Invariance, PTL

\* The partition selected for boot holds the complete image its signed manifest names,
\* unless an update begun before the restart was written over it.
THEOREM BootsAuthentic == Spec => []BootIsAuthentic
<1>1. IInv => BootIsAuthentic
  BY DEF IInv, Safe
<1> QED BY <1>1, Invariance, PTL

\* The counter of the image selected for boot is consumed for good.
THEOREM CountersAreConsumed == Spec => []InstalledIsConsumed
<1>1. IInv => InstalledIsConsumed
  BY DEF IInv, Safe, Consumed
<1> QED BY <1>1, Invariance, PTL

\* A reservation that no session owns is the trace of a failed store operation.
THEOREM ReservationsAreOwned == Spec => []ReservationIsOwned
<1>1. IInv => ReservationIsOwned
  BY DEF IInv, Safe, Owned
<1> QED BY <1>1, Invariance, PTL

\* The ledger of ranges tells exactly what the inactive partition holds.
THEOREM LedgerTellsFlash == Spec => []LedgerIsFlash
<1>1. IInv => LedgerIsFlash
  BY DEF IInv, Ledgers, LedgerIsFlash
<1> QED BY <1>1, Invariance, PTL

\* Redelivery of a message that was accepted does not fail the transfer.
THEOREM RetriesAreAccepted == Spec => []RetryAccepted
<1>1. IInv => RetryAccepted
  <2> SUFFICES ASSUME IInv, pc = "idle", NEW x \in acked
               PROVE  /\ x[1] = "Begin" /\ state = "Receiving" => DuplicateBegin(x[2], x[3])
                      /\ x[1] = "Chunk" /\ state = "Receiving" => DuplicateChunk(x[2])
                      /\ x[1] = "Commit" /\ state = "Done" => DuplicateEnd(x[2], x[3], "Done")
                      /\ x[1] = "Abort" /\ state = "Aborted" =>
                           DuplicateEnd(x[2], x[3], "Aborted")
    BY DEF RetryAccepted
  <2> QED BY DEF IInv, Answers, DuplicateBegin, DuplicateEnd, SameSession
<1> QED BY <1>1, Invariance, PTL

\* The selection only ever moves to an image with a higher counter.
THEOREM BootOnlyRises == Spec => NeverOlder
<1>1. IInv /\ [Next]_vars => [boot' # boot => boot'.counter > boot.counter]_vars
  <2> SUFFICES ASSUME IInv, Next, boot' # boot
               PROVE  boot'.counter > boot.counter
    OBVIOUS
  <2>1. Activate /\ boot' = manifest
    BY DEF bootVars, SelectForBoot, Next, Begin, Chunk, Commit, Abort, Reserve, Mark, Complete, Activate, Abandon,
       PowerLoss, RecoverAtBoot
  <2>2. boot.counter < manifest.counter
    BY <2>1 DEF Activate, IInv, Safe, Consumed
  <2> QED BY <2>1, <2>2, Numbers DEF IInv, Safe
<1> QED BY <1>1, Invariance, PTL DEF Spec, NeverOlder

\* The session, the recovery at boot and a power loss reach the store through its
\* operations only, acknowledged or not.
LEMMA SessionDrivesStore ==
  ASSUME Safe, [Next]_vars
  PROVE  [Store!Next]_(Store!vars)
<1> DEFINE o == manifest.session
           c == manifest.counter
<1> USE DEF Store!vars
<1>1. floor \in Store!Counters /\ (c # 0 => o \in Sessions /\ c \in Store!Counters)
  BY UpdateAssumption DEF Safe, Fields, StoreFields, ManifestFields, Manifests, NoManifest,
     Counters, Store!Counters
<1>2. ASSUME Store!ReserveFloor(floor, c, o) PROVE Store!Next
  <2>1. c # 0
    BY <1>2, UpdateAssumption
       DEF Store!ReserveFloor, Safe, Fields, StoreFields, ManifestFields, Manifests, NoManifest,
           Counters
  <2> QED BY <1>1, <1>2, <2>1 DEF Store!Next
<1>3. ASSUME \/ Store!MarkStaged(o, c)
             \/ Store!CompleteReservation(o, c)
             \/ Store!AbandonReservation(o, c)
      PROVE  Store!Next
  <2>1. reservation.state # "None" /\ reservation.counter = c
    BY <1>3 DEF Store!MarkStaged, Store!CompleteReservation, Store!AbandonReservation, Store!Held
  <2>2. c # 0
    BY <2>1 DEF Safe, Fields, StoreFields, Store!Reservations, Store!None
  <2> QED BY <1>1, <1>3, <2>2 DEF Store!Next
<1>4. CASE Reserve
  BY <1>2, <1>4 DEF Reserve, Unacknowledged, durableVars
<1>5. CASE Mark \/ Complete \/ Abandon
  BY <1>3, <1>5 DEF Mark, Complete, Abandon, Unacknowledged, durableVars
<1>6. CASE RecoverAtBoot
  BY <1>6 DEF RecoverAtBoot, Unacknowledged, durableVars, Store!Next
<1>7. CASE \/ \E m \in Manifests, q \in Sequences : Begin(m, q)
           \/ \E d \in Chunks : Chunk(d)
           \/ \E s \in Sessions, q \in Sequences : Commit(s, q) \/ Abort(s, q)
           \/ Activate \/ PowerLoss \/ UNCHANGED vars
  BY <1>7 DEF Begin, Chunk, Commit, Abort, Activate, PowerLoss, durableVars, vars
<1> QED BY <1>4, <1>5, <1>6, <1>7 DEF Next

\* Whatever the broker delivers, fails or cuts short, an update changes the floor
\* and the reservation only as ReplayStore allows; the journal implements that.
THEOREM SessionUsesStore == Spec => Store!Spec
<1>1. Init => Store!Init
  BY DEF Init
<1>2. IInv /\ [Next]_vars => [Store!Next]_(Store!vars)
  BY SessionDrivesStore DEF IInv
<1> QED BY <1>1, <1>2, Invariance, PTL DEF Spec, Store!Spec

-----------------------------------------------------------------------------
(***************************************************************************)
(* The journal under the store: an atomic store for every generation       *)
(* range, rollback counter and owner, under every torn or unacknowledged   *)
(* write.                                                                  *)
(***************************************************************************)
(***************************************************************************)
(* Its inductive invariant.  A record that a slot holds is one the store   *)
(* would accept back; with that and consecutive generations a write goes   *)
(* to the older slot, and whatever it leaves there the newer one is read.  *)
(***************************************************************************)
AllWellFormed == \A s \in Slots : Valid(s) => WellFormed(record[s])

JournalInv == JournalTypeOK /\ Consecutive /\ AllWellFormed

-----------------------------------------------------------------------------
(***************************************************************************)
(* Serial-number arithmetic on neighbours.                                 *)
(***************************************************************************)
LEMMA Neighbours ==
  ASSUME NEW g \in 0..(Generations - 1)
  PROVE  LET n == (g + 1) % Generations IN
         /\ n \in 0..(Generations - 1)
         /\ Delta(n, g) = 1 /\ Delta(g, n) = Generations - 1
<1> USE JournalAssumption DEF Generations, Delta
<1>1. CASE g + 1 < Generations
  <2>1. (g + 1) % Generations = g + 1
    BY <1>1
  <2>2. (g + 1 - g) % Generations = 1
    BY <1>1
  <2>3. (g - (g + 1)) % Generations = Generations - 1
    BY <1>1
  <2> QED BY <1>1, <2>1, <2>2, <2>3
<1>2. CASE g + 1 = Generations
  <2>1. (g + 1) % Generations = 0
    BY <1>2
  <2>2. (0 - g) % Generations = 1
    BY <1>2
  <2>3. (g - 0) % Generations = Generations - 1
    BY <1>2
  <2> QED BY <1>2, <2>1, <2>2, <2>3
<1> QED BY <1>1, <1>2

LEMMA LatestTypes ==
  ASSUME JournalInv
  PROVE  /\ Latest \in Records /\ LatestSlot \in Slots /\ Target \in Slots
         /\ NextGeneration \in 0..(Generations - 1)
         /\ WellFormed(Latest)
         /\ Present => Valid(LatestSlot)
<1> USE JournalAssumption DEF JournalInv, JournalTypeOK, Slots
<1>1. Blank \in Records /\ WellFormed(Blank)
  BY DEF Blank, Records, Floors, Generations, WellFormed
<1>2. LatestSlot \in Slots /\ (Present => Valid(LatestSlot))
  BY DEF LatestSlot, Present, Valid
<1>3. Latest \in Records
  BY <1>1, <1>2 DEF Latest
<1>4. WellFormed(Latest)
  BY <1>1, <1>2 DEF Latest, AllWellFormed
<1>5. Target \in Slots
  BY <1>2 DEF Target
<1>6. NextGeneration \in 0..(Generations - 1)
  BY <1>3, Neighbours DEF NextGeneration, Records
<1> QED BY <1>2, <1>3, <1>4, <1>5, <1>6

(***************************************************************************)
(* A write, however it ends, installs the next record or nothing.          *)
(***************************************************************************)
LEMMA PublishIsAtomic ==
  ASSUME JournalInv, NEW r \in Records, WellFormed(r), Publish(r)
  PROVE  /\ JournalInv'
         /\ Present => Present'
         /\ Latest' = Latest \/ Latest' = [r EXCEPT !.generation = NextGeneration]
<1> DEFINE next == [r EXCEPT !.generation = NextGeneration]
<1>1. next \in Records /\ WellFormed(next) /\ next.generation = NextGeneration
  BY LatestTypes DEF Records, WellFormed
<1>2. Blank \in Records
  BY JournalAssumption DEF Blank, Records, Floors, Generations
<1> USE DEF Slots
<1>3. PICK full \in BOOLEAN :
        /\ status' = [status EXCEPT ![Target] = IF full THEN "valid" ELSE "invalid"]
        /\ record' = [record EXCEPT ![Target] = IF full THEN next ELSE Blank]
  BY <1>1 DEF Publish
<1> HIDE DEF next
<1>4. JournalTypeOK'
  BY <1>1, <1>2, <1>3, LatestTypes DEF JournalInv, JournalTypeOK
<1>5. AllWellFormed'
  BY <1>1, <1>3, LatestTypes DEF JournalInv, JournalTypeOK, AllWellFormed, Valid, WellFormed
<1>6. CASE ~Present
  <2>1. Target = 0 /\ ~Valid(1)' /\ (full <=> Valid(0)') /\ (full => record'[0] = next)
    BY <1>3, <1>6 DEF Target, Present, Valid, JournalInv, JournalTypeOK
  <2>2. Consecutive'
    BY <2>1 DEF Consecutive
  <2>3. Latest' = IF full THEN next ELSE Blank
    BY <2>1 DEF Latest, LatestSlot, Present
  <2>4. Latest = Blank
    BY <1>6 DEF Latest
  <2> QED BY <1>4, <1>5, <1>6, <2>2, <2>3, <2>4 DEF JournalInv, next
<1>7. CASE Present
  <2>1. PICK l \in Slots, m \in Slots : l = LatestSlot /\ m = 1 - l
    BY LatestTypes
  <2> DEFINE g == record[l].generation
  <2>2. /\ l # m /\ Target = m /\ Latest = record[l] /\ Valid(l)
        /\ g \in 0..(Generations - 1) /\ NextGeneration = (g + 1) % Generations
    BY <1>7, <2>1, LatestTypes DEF Target, Latest, JournalInv, JournalTypeOK, Records, NextGeneration
  <2>3. /\ Valid(l)' /\ record'[l] = record[l] /\ (full <=> Valid(m)')
        /\ full => record'[m] = next
    BY <1>3, <2>2 DEF Valid, JournalInv, JournalTypeOK
  <2>4. Present'
    BY <2>3 DEF Present
  <2>5. CASE ~full
    <3>1. LatestSlot' = l
      BY <2>1, <2>3, <2>5 DEF LatestSlot
    <3>2. Consecutive'
      BY <2>1, <2>3, <2>5 DEF Consecutive
    <3>3. Latest' = Latest
      BY <2>2, <2>3, <2>4, <3>1 DEF Latest
    <3> QED BY <1>4, <1>5, <2>4, <3>2, <3>3 DEF JournalInv
  <2>6. CASE full
    <3>1. /\ Delta(record'[m].generation, record'[l].generation) = 1
          /\ Delta(record'[l].generation, record'[m].generation) = Generations - 1
      BY <1>1, <2>2, <2>3, <2>6, Neighbours
    <3>2. LatestSlot' = m
      <4>1. NewerGeneration(record'[m].generation, record'[l].generation)
        BY <3>1, JournalAssumption DEF NewerGeneration
      <4>2. ~NewerGeneration(record'[l].generation, record'[m].generation)
        BY <3>1, JournalAssumption DEF NewerGeneration, Generations
      <4>3. CASE m = 1
        BY <2>1, <2>3, <2>6, <4>1, <4>3 DEF LatestSlot
      <4>4. CASE m = 0
        BY <2>1, <2>3, <2>6, <4>2, <4>4 DEF LatestSlot
      <4> QED BY <4>3, <4>4
    <3>3. Consecutive'
      <4>1. 1 - m = l
        BY <2>1
      <4> QED BY <3>1, <3>2, <4>1 DEF Consecutive
    <3>4. Latest' = next
      BY <2>3, <2>4, <2>6, <3>2 DEF Latest
    <3> QED BY <1>4, <1>5, <2>4, <3>3, <3>4 DEF JournalInv, next
  <2> QED BY <2>5, <2>6
<1> QED BY <1>6, <1>7

-----------------------------------------------------------------------------
(***************************************************************************)
(* Every operation is one step of ReplayStore, or leaves it as it was.     *)
(***************************************************************************)
LEMMA OperationStep ==
  ASSUME JournalInv, [JournalNext]_journalVars
  PROVE  /\ JournalInv'
         /\ Present => Present'
         /\ [Atomic!Next]_(Atomic!vars)
<1> USE DEF Atomic!vars
<1>1. ASSUME UNCHANGED Latest PROVE UNCHANGED Atomic!vars
  BY <1>1
<1>2. CASE UNCHANGED journalVars
  BY <1>2, Zenon
  DEF journalVars, JournalInv, JournalTypeOK, Consecutive, AllWellFormed, Present, Latest,
      LatestSlot, Valid
<1>3. Latest \in Records /\ WellFormed(Latest)
  BY LatestTypes
<1> USE DEF Records, Floors
<1>4. ASSUME NEW o \in Owners, NEW c \in Floors, NEW e \in Floors, ReserveFloor(e, c, o)
      PROVE  JournalInv' /\ (Present => Present') /\ [Atomic!Next]_(Atomic!vars)
  <2> DEFINE r == [Latest EXCEPT !.floor = c, !.counter = c, !.owner = o, !.state = "Reserved"]
  <2>1. r \in Records /\ WellFormed(r) /\ Publish(r)
    <3>1. c # 0 /\ o # NoOwner /\ Publish(r)
      BY <1>4 DEF ReserveFloor
    <3>2. r \in Records
      BY <1>3
    <3> QED BY <1>3, <3>1, <3>2 DEF WellFormed
  <2>2. Latest' = Latest \/ Latest' = [r EXCEPT !.generation = NextGeneration]
    BY <2>1, PublishIsAtomic
  <2>3. CASE Latest' = [r EXCEPT !.generation = NextGeneration]
    <3>1. Atomic!ReserveFloor(e, c, o)
      BY <1>3, <1>4, <2>3 DEF ReserveFloor, Active, WellFormed, Atomic!ReserveFloor, Atomic!None
    <3> QED BY <3>1, <2>1, PublishIsAtomic DEF Atomic!Next, Atomic!Counters
  <2> QED BY <2>1, <2>2, <2>3, <1>1, PublishIsAtomic
<1>5. ASSUME NEW o \in Owners, NEW c \in Floors, MarkStaged(o, c)
      PROVE  JournalInv' /\ (Present => Present') /\ [Atomic!Next]_(Atomic!vars)
  <2> DEFINE r == [Latest EXCEPT !.state = "Staged"]
  <2>1. r \in Records /\ WellFormed(r) /\ Publish(r)
    BY <1>3, <1>5 DEF MarkStaged, WellFormed
  <2>2. Latest' = Latest \/ Latest' = [r EXCEPT !.generation = NextGeneration]
    BY <2>1, PublishIsAtomic
  <2>3. CASE Latest' = [r EXCEPT !.generation = NextGeneration]
    <3>1. Atomic!MarkStaged(o, c)
      BY <1>3, <1>5, <2>3 DEF MarkStaged, Held, Atomic!MarkStaged, Atomic!Held
    <3> QED BY <3>1, <2>1, PublishIsAtomic DEF Atomic!Next, Atomic!Counters
  <2> QED BY <2>1, <2>2, <2>3, <1>1, PublishIsAtomic
<1>6. ASSUME Clear, Active
      PROVE  JournalInv' /\ (Present => Present') /\ (UNCHANGED Atomic!vars \/ Atomic!Clear)
  <2> DEFINE r == [Latest EXCEPT !.state = "None", !.counter = 0, !.owner = NoOwner]
  <2>1. r \in Records /\ WellFormed(r) /\ Publish(r)
    <3>1. Publish(r)
      BY <1>6 DEF Clear
    <3>2. 0 \in 0..MaxFloor
      BY JournalAssumption
    <3>3. r \in Records
      BY <1>3, <3>2
    <3> QED BY <1>3, <3>1, <3>3 DEF WellFormed
  <2>2. Latest' = Latest \/ Latest' = [r EXCEPT !.generation = NextGeneration]
    BY <2>1, PublishIsAtomic
  <2>3. CASE Latest' = [r EXCEPT !.generation = NextGeneration]
    <3>1. Atomic!Clear
      BY <1>3, <2>3 DEF Atomic!Clear, Atomic!None
    <3> QED BY <3>1, <2>1, PublishIsAtomic
  <2> QED BY <2>1, <2>2, <2>3, <1>1, PublishIsAtomic
<1>7. ASSUME NEW o \in Owners, NEW c \in Floors,
             CompleteReservation(o, c) \/ AbandonReservation(o, c)
      PROVE  JournalInv' /\ (Present => Present') /\ [Atomic!Next]_(Atomic!vars)
  <2>1. Clear /\ Active /\ Held(o, c) /\ (CompleteReservation(o, c) => Latest.state = "Staged")
    BY <1>7 DEF CompleteReservation, AbandonReservation, Active
  <2>2. CASE Atomic!Clear
    <3>1. Atomic!CompleteReservation(o, c) \/ Atomic!AbandonReservation(o, c)
      BY <1>7, <2>1, <2>2 DEF Active, Held, Atomic!CompleteReservation,
         Atomic!AbandonReservation, Atomic!Held
    <3> QED BY <3>1, <2>1, <1>6 DEF Atomic!Next, Atomic!Counters
  <2> QED BY <2>1, <2>2, <1>6
<1>8. CASE RecoverAbandonedReservation
  <2>1. Clear /\ Active
    BY <1>8 DEF RecoverAbandonedReservation
  <2>2. CASE Atomic!Clear
    <3>1. Atomic!RecoverAbandonedReservation
      BY <2>1, <2>2 DEF Active, Atomic!RecoverAbandonedReservation, Atomic!None
    <3> QED BY <3>1, <2>1, <1>6 DEF Atomic!Next
  <2> QED BY <2>1, <2>2, <1>6
<1> QED BY <1>2, <1>4, <1>5, <1>7, <1>8 DEF JournalNext

LEMMA JournalInitHolds == JournalInit => JournalInv
  BY JournalAssumption
  DEF JournalInit, JournalInv, JournalTypeOK, Consecutive, AllWellFormed, Valid, Blank, Records,
      Floors, Generations, Slots

LEMMA JournalInvariance == JournalSpec => []JournalInv
  BY JournalInitHolds, OperationStep, PTL DEF JournalSpec

\* Both slots keep their type, whatever a crash leaves in them.
THEOREM SlotTypesHold == JournalSpec => []JournalTypeOK
<1>1. JournalInv => JournalTypeOK
  BY DEF JournalInv
<1> QED BY <1>1, JournalInvariance, PTL

\* Two valid slots can always be told apart, however often the generation wraps.
THEOREM AlwaysOrdered == JournalSpec => []Consecutive
<1>1. JournalInv => Consecutive
  BY DEF JournalInv
<1> QED BY <1>1, JournalInvariance, PTL

\* A completed write is never lost to a later one that is torn.
THEOREM Survives == JournalSpec => RecordSurvives
<1>1. JournalInv /\ [JournalNext]_journalVars => [Present => Present']_journalVars
  BY OperationStep
<1> QED BY <1>1, JournalInvariance, PTL DEF JournalSpec, RecordSurvives

\* The journal implements the atomic store under every crash inside a write.
THEOREM Refinement == JournalSpec => StoreSpec
<1>1. JournalInit => Atomic!Init
  BY DEF JournalInit, Atomic!Init, Atomic!None, Latest, Present, Valid, Blank, Slots
<1>2. JournalInv /\ [JournalNext]_journalVars => [Atomic!Next]_(Atomic!vars)
  BY OperationStep
<1> QED BY <1>1, <1>2, JournalInvariance, PTL DEF JournalSpec, StoreSpec, Atomic!Spec

\* What a session may rely on in the floor that readLatest() returns: it rises
\* exactly when a reservation is made, to the counter that was reserved.
CounterIsFresh ==
  \/ Latest.floor' = Latest.floor /\ (Active' => Active /\ Latest.counter' = Latest.counter)
  \/ /\ ~Active /\ Active'
     /\ Latest.floor' > Latest.floor /\ Latest.counter' = Latest.floor'

\* No counter is reserved twice, and none below one reserved before: neither a
\* torn write nor a generation that wraps brings an earlier floor back.
THEOREM CountersAreFresh == JournalSpec => [][CounterIsFresh]_journalVars
<1>1. ASSUME JournalInv, [JournalNext]_journalVars PROVE CounterIsFresh
  <2> USE DEF CounterIsFresh, Active
  <2>1. [Atomic!Next]_(Atomic!vars)
    BY <1>1, OperationStep
  <2>2. CASE UNCHANGED Atomic!vars
    BY <2>2 DEF Atomic!vars
  <2>3. ASSUME NEW e, NEW c, NEW o, Atomic!ReserveFloor(e, c, o) PROVE CounterIsFresh
    BY <2>3 DEF Atomic!ReserveFloor, Atomic!None
  <2>4. ASSUME NEW c, NEW o, Atomic!MarkStaged(o, c) PROVE CounterIsFresh
    BY <2>4 DEF Atomic!MarkStaged, Atomic!Held
  <2>5. CASE Atomic!Clear
    BY <2>5 DEF Atomic!Clear, Atomic!None
  <2> QED BY <2>1, <2>2, <2>3, <2>4, <2>5
          DEF Atomic!Next, Atomic!CompleteReservation, Atomic!AbandonReservation,
              Atomic!RecoverAbandonedReservation
<1> QED BY <1>1, JournalInvariance, PTL DEF JournalSpec
===============================================================================
