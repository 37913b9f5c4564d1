----------------------------- MODULE CameraStore -----------------------------
(***************************************************************************)
(* The saved cameras of CameraList (lib/furble/CameraList.cpp) on NVS.     *)
(* One operation runs at a time under m_PersistenceMutex, as a sequence of *)
(* NVS writes.  Each write may be done, be refused by nvs_set_*(), or take *)
(* effect and still be reported as failed, when nvs_commit() fails         *)
(* (lib/preferences/Preferences.cpp); power may be lost between any two    *)
(* steps; reading never fails.  The index is a function from camera to id, *)
(* and legacy the cameras whose entry has a type that is not supported any *)
(* more; the order of the entries and the contents of a record are         *)
(* abstracted.                                                             *)
(***************************************************************************)
EXTENDS Integers

CONSTANTS
  Cameras,    \* cameras, by address key
  MaxId,      \* 254 in the code
  MaxFaults,  \* bound on writes that fail
  MaxCrashes  \* bound on power losses

ASSUME StoreAssumption ==
  MaxId \in Nat \ {0} /\ MaxFaults \in Nat /\ MaxCrashes \in Nat

VARIABLES
  index, records, next,  \* NVS: "index", one record per address, "index_next"
  legacy,                \* the entries of the index that deserialize() passes over
  bonds,                 \* cameras whose BLE bond the host stack still has
  loaded, list, ids,     \* m_SavedInitialized, m_SavedList, m_CameraIds
  op, cam, pc,           \* the operation that runs, its camera, its next step
  ix, nx,                \* its copies of the index and of the id counter
  faults, crashes,       \* bounded by MaxFaults and MaxCrashes
  last, steady,          \* history: see Catalog
  unacked,               \* history: since boot, an index took effect unacknowledged
  dropped                \* history: a recovery gave up its bond, and it has not paired since

flash == <<index, records, next, legacy>>
memory == <<loaded, list, ids>>
running == <<op, cam, pc, ix, nx>>
history == <<last, steady, unacked, dropped>>
vars == <<flash, bonds, memory, running, faults, crashes, history>>

Ids == 1..MaxId
Indexes == UNION {[S -> 0..MaxId] : S \in SUBSET Cameras}
Empty == [c \in {} |-> 0]

After(id) == IF id = MaxId THEN 1 ELSE id + 1
Before(id) == IF id = 1 THEN MaxId ELSE id - 1

Used(i) == {i[c] : c \in DOMAIN i} \ {0}

\* How far the walk from n has to go to reach id.
Steps(n, id) == IF id >= n THEN id - n ELSE MaxId - n + id

\* Faulty: the walk starts at the first id, whatever the counter says.
CandidatesFromOne(i, n) == {id \in Ids \ Used(i) : \A k \in Ids \ Used(i) : id <= k}

\* The first id at or after n that no entry has.
Candidates(i, n) ==
  {id \in Ids \ Used(i) : \A k \in Ids \ Used(i) : Steps(n, id) <= Steps(n, k)}

\* The entries that got their id in this operation.
Given == {c \in DOMAIN ix : ix[c] # 0 /\ ~(c \in DOMAIN index /\ index[c] = ix[c])}

Without(i, c) == [d \in DOMAIN i \ {c} |-> i[d]]

\* How a write may end.  An unacknowledged one takes effect and reports failure.
Outcomes == {"done"} \cup (IF faults < MaxFaults THEN {"refused", "unacked"} ELSE {})
Effective(w) == w # "refused"
Count(w) == faults' = IF w = "done" THEN faults ELSE faults + 1

Init ==
  /\ \E S \in SUBSET Cameras :
       index = [c \in S |-> 0] /\ records = S /\ bonds = S /\ legacy \in SUBSET S
  /\ next = 1
  /\ loaded = FALSE /\ list = {} /\ ids = Empty
  /\ op = "load" /\ cam \in Cameras /\ pc = "idle" /\ ix = Empty /\ nx = 1
  /\ faults = 0 /\ crashes = 0
  /\ last = 0 /\ steady = FALSE /\ unacked = FALSE /\ dropped = {}

\* A camera pairs, on the task of its target.
Pair(c) ==
  /\ bonds' = bonds \cup {c} /\ dropped' = dropped \ {c}
  /\ UNCHANGED <<flash, memory, running, faults, crashes, last, steady, unacked>>

\* FujifilmSecure::_connect() gives up the bond of a camera, saved or not, whose
\* handshake failed SECURE_FAILURE_LIMIT times in a row, on the task of its
\* target; the pairing it then tries may fail.
DropBond(c) ==
  /\ c \in bonds
  /\ bonds' = bonds \ {c} /\ dropped' = dropped \cup {c}
  /\ UNCHANGED <<flash, memory, running, faults, crashes, last, steady, unacked>>

\* load(), getSaveCount() and savedSnapshot() only load; the UI saves cameras
\* that are connected and so paired, and removes any.  Returning at once, when
\* the preferences do not open, changes nothing.
Start(o, c) ==
  /\ pc = "idle"
  /\ o = "save" => c \in bonds
  /\ o = "load" => ~loaded
  /\ op' = o /\ cam' = c /\ pc' = "read"
  /\ UNCHANGED <<flash, bonds, memory, ix, nx, faults, crashes, history>>

\* Faulty: saving a camera again forgets the id of its entry.
AddIndexAnew(i, c) == [d \in DOMAIN i \cup {c} |-> IF d = c THEN 0 ELSE i[d]]

\* Saving a camera again keeps the id of its entry.
AddIndex(i, c) == [d \in DOMAIN i \cup {c} |-> IF d \in DOMAIN i THEN i[d] ELSE 0]

\* The index is read, by ensureSavedLoaded() before the operation and then by
\* the operation itself, which changes its copy.
Read ==
  /\ pc = "read"
  /\ nx' = next
  /\ \/ /\ ~loaded /\ ix' = index /\ pc' = "assign"
     \/ /\ loaded /\ op = "save" /\ ix' = AddIndex(index, cam) /\ pc' = "assign"
     \/ /\ loaded /\ op = "remove" /\ ix' = Without(index, cam)
        /\ pc' = IF cam \in DOMAIN index THEN "index" ELSE "orphan"
  /\ UNCHANGED <<flash, bonds, memory, op, cam, faults, crashes, history>>

\* assignCameraIds(): an entry without an id takes the next one in turn.
Assign(c) ==
  /\ pc = "assign" /\ c \in DOMAIN ix /\ ix[c] = 0
  /\ \E id \in Candidates(ix, nx) :
       ix' = [ix EXCEPT ![c] = id] /\ nx' = After(id)
  /\ UNCHANGED <<flash, bonds, memory, op, cam, pc, faults, crashes, history>>

AllAssigned == (\A c \in DOMAIN ix : ix[c] # 0) \/ Ids \subseteq Used(ix)

\* The counter is written when an id was assigned, and the result ignored.
PutCounter ==
  /\ pc = "assign" /\ AllAssigned
  /\ \/ /\ Given = {} /\ UNCHANGED <<next, steady, faults>>
        /\ pc' = IF loaded THEN "record" ELSE "view"
     \/ /\ Given # {}
        /\ \E w \in Outcomes :
             /\ next' = IF Effective(w) THEN nx ELSE next
             /\ steady' = (steady /\ Effective(w))
             /\ Count(w)
        /\ pc' = IF loaded THEN "record" ELSE "index"
  /\ UNCHANGED <<index, records, legacy, bonds, memory, op, cam, ix, nx, crashes, last, unacked,
                 dropped>>

\* Faulty: the index is written whether the record was or not.
PutRecordUnchecked ==
  /\ pc = "record" /\ op = "save" /\ pc' = "index"
  /\ \E w \in Outcomes :
       /\ records' = IF Effective(w) THEN records \cup {cam} ELSE records
       /\ Count(w)
  /\ UNCHANGED <<index, next, legacy, bonds, memory, op, cam, ix, nx, crashes, history>>

\* save() writes the record before the index.
PutRecord ==
  /\ pc = "record" /\ op = "save"
  /\ \E w \in Outcomes :
       /\ records' = IF Effective(w) THEN records \cup {cam} ELSE records
       /\ pc' = IF w = "done" THEN "index" ELSE "idle"
       /\ steady' = (steady /\ (w = "done" \/ Given = {}))
       /\ Count(w)
  /\ UNCHANGED <<index, next, legacy, bonds, memory, op, cam, ix, nx, crashes, last, unacked,
                 dropped>>

\* save_index(): the step that commits a save, a removal or a migration.  The
\* entry a save writes has the type of its camera.
PutIndex ==
  /\ pc = "index"
  /\ \E w \in Outcomes :
       /\ index' = IF Effective(w) THEN ix ELSE index
       /\ legacy' = IF Effective(w) /\ loaded THEN legacy \ {cam} ELSE legacy
       /\ IF Given = {} THEN UNCHANGED <<last, steady>>
          ELSE IF Effective(w) THEN last' = Before(nx) /\ steady' = (next = nx)
          ELSE UNCHANGED last /\ steady' = FALSE
       /\ unacked' = (unacked \/ (w = "unacked" /\ loaded))
       /\ pc' = IF w # "done" THEN "idle"
                ELSE IF op = "remove" /\ loaded THEN "record" ELSE "view"
       /\ Count(w)
  /\ UNCHANGED <<records, next, bonds, memory, op, cam, ix, nx, crashes, dropped>>

\* remove() erases the record of an entry the index no longer has, and the
\* record of a camera that had none; an erase that fails leaves an orphan.
EraseRecord ==
  /\ op = "remove" /\ loaded /\ pc \in {"record", "orphan"}
  /\ \E w \in Outcomes :
       /\ records' = IF Effective(w) THEN records \ {cam} ELSE records
       /\ Count(w)
  /\ pc' = IF pc = "record" THEN "view" ELSE "bond"
  /\ UNCHANGED <<index, next, legacy, bonds, memory, op, cam, ix, nx, crashes, history>>

\* Faulty: the new ids are published and m_SavedList is left as it was.
PublishIdsOnly ==
  /\ pc = "view" /\ ids' = ix /\ loaded' = TRUE
  /\ list' = IF loaded THEN list ELSE (DOMAIN ix \cap records) \ legacy
  /\ pc' = IF loaded THEN (IF op = "remove" THEN "bond" ELSE "idle")
                     ELSE (IF op = "load" THEN "idle" ELSE "read")
  /\ UNCHANGED <<flash, bonds, op, cam, ix, nx, faults, crashes, history>>

\* publishCameraIds() and the change of m_SavedList.  Loading builds the list
\* from the records of the types it supports (deserialize), and publishes the id
\* of every entry; the operation then begins.
Publish ==
  /\ pc = "view" /\ ids' = ix /\ loaded' = TRUE
  /\ \/ /\ ~loaded /\ list' = (DOMAIN ix \cap records) \ legacy
        /\ pc' = IF op = "load" THEN "idle" ELSE "read"
     \/ /\ loaded /\ op = "save" /\ list' = list \cup {cam} /\ pc' = "idle"
     \/ /\ loaded /\ op = "remove" /\ list' = list \ {cam} /\ pc' = "bond"
  /\ UNCHANGED <<flash, bonds, op, cam, ix, nx, faults, crashes, history>>

\* NimBLEDevice::deleteBond().
DeleteBond ==
  /\ pc = "bond"
  /\ bonds' = bonds \ {cam} /\ dropped' = dropped \ {cam} /\ pc' = "idle"
  /\ UNCHANGED <<flash, memory, op, cam, ix, nx, faults, crashes, last, steady, unacked>>

\* Power is lost.  The flash and the bonds stay.
Crash ==
  /\ crashes < MaxCrashes /\ crashes' = crashes + 1
  /\ loaded' = FALSE /\ list' = {} /\ ids' = Empty
  /\ pc' = "idle" /\ ix' = Empty /\ nx' = 1
  /\ steady' = (steady /\ (pc \notin {"record", "index"} \/ Given = {}))
  /\ unacked' = FALSE
  /\ UNCHANGED <<flash, bonds, op, cam, faults, last, dropped>>

Next ==
  \/ \E c \in Cameras : Pair(c) \/ DropBond(c) \/ Assign(c)
  \/ \E c \in Cameras, o \in {"load", "save", "remove"} : Start(o, c)
  \/ Read \/ PutCounter \/ PutRecord \/ PutIndex \/ EraseRecord
  \/ Publish \/ DeleteBond \/ Crash

Spec == Init /\ [][Next]_vars

-----------------------------------------------------------------------------
\* The type invariant.
TypeOK ==
  /\ index \in Indexes /\ ids \in Indexes /\ ix \in Indexes
  /\ records \subseteq Cameras /\ bonds \subseteq Cameras /\ list \subseteq Cameras
  /\ legacy \subseteq Cameras /\ dropped \subseteq Cameras
  /\ next \in Ids /\ nx \in Ids /\ last \in 0..MaxId
  /\ op \in {"load", "save", "remove"} /\ cam \in Cameras
  /\ pc \in {"idle", "read", "assign", "record", "index", "orphan", "view", "bond"}
  /\ loaded \in BOOLEAN /\ steady \in BOOLEAN /\ unacked \in BOOLEAN
  /\ faults \in 0..MaxFaults /\ crashes \in 0..MaxCrashes

\* A camera in the index can be reconnected: its record is there, and so is its
\* bond but where the recovery from a stale bond gave it up, whichever write
\* failed and whenever power was lost: a removal takes the bond of a camera only
\* once its entry is gone (CameraList.cpp:291, 358 and 389).
Reconnectable == DOMAIN index \subseteq records \cap (bonds \cup dropped)

\* Between operations the list in memory is that of the entries on flash whose
\* type is supported, and the ids are those of all its entries, unless an index
\* took effect without being acknowledged since boot (CameraList.cpp:291 and
\* 358: what is not committed is not advertised).
ViewIsFlash ==
  loaded /\ pc = "idle" /\ ~unacked => list = DOMAIN index \ legacy /\ ids = index

Abstract == INSTANCE Catalog WITH catalog <- index

\* The index on flash is a catalog changed by whole operations, whose ids are
\* distinct, stay with their camera and are not handed straight back
\* (CameraList.cpp:22 and 161).
CatalogSpec == Abstract!Spec
=============================================================================
