--------------------------- MODULE CameraStoreProof ---------------------------
(***************************************************************************)
(* What holds of CameraStore for every set of cameras, every range of ids  *)
(* and any number of failed writes and power losses: a saved camera can be *)
(* reconnected, the catalog in memory is the one on flash, and the index   *)
(* implements Catalog.                                                     *)
(***************************************************************************)
EXTENDS CameraStore, TLAPS

(***************************************************************************)
(* The inductive invariant, in the parts its proof is split along.  What   *)
(* the flash promises is not inductive by itself: what a step writes is    *)
(* the copy that earlier steps prepared, with the camera they prepared it  *)
(* for.                                                                    *)
(***************************************************************************)
Distinct(i) == \A c, d \in DOMAIN i : c # d /\ i[c] = i[d] => i[c] = 0

Keeps == \A c \in DOMAIN index : index[c] # 0 => ix[c] = index[c]

\* The operation is one that gives out ids, and has not committed.
Adding == pc \in {"assign", "record", "index"} /\ (~loaded \/ op = "save")

FreshIds == {ix[c] : c \in Given}

CopyInv ==
  /\ Distinct(index)
  /\ pc # "idle" /\ op = "load" => ~loaded
  /\ pc = "assign" => ~loaded \/ op = "save"
  /\ pc = "record" => loaded
  /\ pc \in {"orphan", "bond"} => loaded /\ op = "remove" /\ cam \notin DOMAIN index
  /\ Adding => /\ Distinct(ix) /\ Keeps
               /\ DOMAIN ix = IF loaded THEN DOMAIN index \cup {cam} ELSE DOMAIN index
  /\ Adding /\ pc # "assign" => AllAssigned
  /\ pc = "index" /\ loaded /\ op = "remove" =>
       ix = Without(index, cam) /\ cam \in DOMAIN index
  /\ pc = "view" => ix = index
  /\ pc \in {"record", "view"} /\ loaded /\ op = "remove" =>
       ix = index /\ cam \notin DOMAIN index

OrderInv ==
  /\ Reconnectable
  /\ pc # "idle" /\ op = "save" => cam \in bonds \cup dropped
  /\ pc = "index" /\ loaded /\ op = "save" => cam \in records

ViewInv ==
  loaded /\ ~unacked =>
    IF pc = "view" \/ (pc = "record" /\ op = "remove")
    THEN DOMAIN index \ legacy = IF op = "save" THEN list \cup {cam} ELSE list \ {cam}
    ELSE list = DOMAIN index \ legacy /\ ids = index

\* While nothing fails, the walk starts after the id given out last and comes
\* back to it only when it has passed every other.
TurnInv ==
  /\ steady => last \in Ids
  /\ steady /\ ~(Adding /\ pc # "assign" /\ Given # {}) => next = After(last)
  /\ pc = "assign" /\ Given = {} => nx = next
  /\ Adding /\ Given # {} => Before(nx) \in FreshIds
  /\ Adding /\ steady /\ last \in FreshIds => Ids \subseteq Used(ix)
  /\ pc = "assign" /\ steady /\ last \notin FreshIds =>
       \A id \in Ids : Steps(next, id) < Steps(next, nx) => id \in Used(ix)

IInv == TypeOK /\ CopyInv /\ OrderInv /\ ViewInv /\ TurnInv

-----------------------------------------------------------------------------
(***************************************************************************)
(* The operators: the sets of indexes, and the circle of ids.              *)
(***************************************************************************)
LEMMA IndexType ==
  ASSUME NEW i
  PROVE  i \in Indexes <=> /\ DOMAIN i \subseteq Cameras
                           /\ i \in [DOMAIN i -> 0..MaxId]
<1>1. ASSUME i \in Indexes PROVE DOMAIN i \subseteq Cameras /\ i \in [DOMAIN i -> 0..MaxId]
  <2>1. PICK S \in SUBSET Cameras : i \in [S -> 0..MaxId]
    BY <1>1 DEF Indexes
  <2> QED BY <2>1
<1>2. ASSUME DOMAIN i \subseteq Cameras, i \in [DOMAIN i -> 0..MaxId] PROVE i \in Indexes
  <2>1. DOMAIN i \in SUBSET Cameras
    BY <1>2
  <2> QED BY <1>2, <2>1 DEF Indexes
<1> QED BY <1>1, <1>2

\* A copy of the index with one entry more, one fewer, or another id.
LEMMA IndexChanges ==
  ASSUME NEW i \in Indexes, NEW c \in Cameras
  PROVE  /\ AddIndex(i, c) \in Indexes
         /\ Without(i, c) \in Indexes
         /\ \A id \in Ids : [i EXCEPT ![c] = id] \in Indexes
         /\ Empty \in Indexes
<1>0. MaxId \in Nat \ {0}
  BY StoreAssumption
<1>1. DOMAIN i \subseteq Cameras /\ i \in [DOMAIN i -> 0..MaxId]
  BY IndexType
<1>2. /\ DOMAIN AddIndex(i, c) \subseteq Cameras
      /\ AddIndex(i, c) \in [DOMAIN AddIndex(i, c) -> 0..MaxId]
  BY <1>0, <1>1 DEF AddIndex
<1>3. DOMAIN Without(i, c) \subseteq Cameras /\ Without(i, c) \in [DOMAIN Without(i, c) -> 0..MaxId]
  BY <1>1 DEF Without
<1>4. ASSUME NEW id \in Ids
      PROVE  LET j == [i EXCEPT ![c] = id]
             IN  DOMAIN j \subseteq Cameras /\ j \in [DOMAIN j -> 0..MaxId]
  <2>1. id \in 0..MaxId
    BY <1>0 DEF Ids
  <2>2. DOMAIN [i EXCEPT ![c] = id] = DOMAIN i
    OBVIOUS
  <2>3. [i EXCEPT ![c] = id] \in [DOMAIN i -> 0..MaxId]
    BY <1>1, <2>1
  <2> QED BY <1>1, <2>2, <2>3
<1>5. DOMAIN Empty \subseteq Cameras /\ Empty \in [DOMAIN Empty -> 0..MaxId]
  BY DEF Empty
<1>6. AddIndex(i, c) \in Indexes /\ Without(i, c) \in Indexes /\ Empty \in Indexes
  BY <1>2, <1>3, <1>5, IndexType
<1>7. ASSUME NEW id \in Ids PROVE [i EXCEPT ![c] = id] \in Indexes
  BY <1>4, IndexType
<1> QED BY <1>6, <1>7

\* The walk along the ids, from wherever it starts.
LEMMA StepsSum ==
  ASSUME NEW s \in Ids, NEW n \in Ids, NEW k \in Ids, Steps(s, n) <= Steps(s, k)
  PROVE  Steps(s, k) = Steps(s, n) + Steps(n, k)
BY StoreAssumption DEF Ids, Steps

LEMMA StepsDiffer ==
  ASSUME NEW n \in Ids
  PROVE  /\ \A k \in Ids : Steps(n, k) \in 0 .. MaxId - 1
         /\ \A j, k \in Ids : Steps(n, j) = Steps(n, k) => j = k
         /\ Steps(n, n) = 0
BY StoreAssumption DEF Ids, Steps

\* The walk that starts after an id comes to that id last.
LEMMA StepsLast ==
  ASSUME NEW l \in Ids
  PROVE  /\ After(l) \in Ids /\ Before(l) \in Ids
         /\ After(Before(l)) = l /\ Before(After(l)) = l
         /\ \A k \in Ids : Steps(After(l), k) <= Steps(After(l), l)
         /\ \A k \in Ids \ {l} : Steps(After(l), After(k)) = Steps(After(l), k) + 1
BY StoreAssumption DEF Ids, Steps, After, Before

-----------------------------------------------------------------------------
(***************************************************************************)
(* Types.                                                                  *)
(***************************************************************************)
LEMMA TypesInit == Init => TypeOK
<1>1. ASSUME NEW S \in SUBSET Cameras PROVE [c \in S |-> 0] \in Indexes
  <2>1. [c \in S |-> 0] \in [S -> 0..MaxId]
    BY StoreAssumption
  <2> QED BY <2>1 DEF Indexes
<1>2. Empty \in Indexes
  <2>1. {} \in SUBSET Cameras /\ Empty \in [{} -> 0..MaxId]
    BY DEF Empty
  <2> QED BY <2>1 DEF Indexes
<1>3. 1 \in Ids /\ 0 \in 0..MaxId /\ 0 \in 0..MaxFaults /\ 0 \in 0..MaxCrashes
  BY StoreAssumption DEF Ids
<1> SUFFICES ASSUME Init PROVE TypeOK
  OBVIOUS
<1>4. PICK S \in SUBSET Cameras :
        index = [c \in S |-> 0] /\ records = S /\ bonds = S /\ legacy \in SUBSET S
  BY DEF Init
<1> QED BY <1>1, <1>2, <1>3, <1>4 DEF Init, TypeOK

\* A write counts at most one fault, within the bound.
LEMMA CountTypes ==
  ASSUME faults \in 0..MaxFaults, NEW w \in Outcomes, Count(w)
  PROVE  faults' \in 0..MaxFaults
BY StoreAssumption DEF Outcomes, Count

LEMMA TypesNext == TypeOK /\ [Next]_vars => TypeOK'
<1> SUFFICES ASSUME TypeOK, [Next]_vars PROVE TypeOK'
  OBVIOUS
<1> USE DEF flash, memory, running, history
<1>1. ASSUME NEW c \in Cameras, Pair(c) \/ DropBond(c) PROVE TypeOK'
  BY <1>1 DEF Pair, DropBond, TypeOK
<1>2. ASSUME NEW c \in Cameras, Assign(c) PROVE TypeOK'
  <2>1. PICK id \in Candidates(ix, nx) : ix' = [ix EXCEPT ![c] = id] /\ nx' = After(id)
    BY <1>2 DEF Assign
  <2>2. id \in Ids
    BY <2>1 DEF Candidates
  <2>3. ix' \in Indexes /\ nx' \in Ids
    BY <2>1, <2>2, IndexChanges, StepsLast DEF TypeOK
  <2> QED BY <1>2, <2>3 DEF Assign, TypeOK
<1>3. ASSUME NEW c \in Cameras, NEW o \in {"load", "save", "remove"}, Start(o, c) PROVE TypeOK'
  BY <1>3 DEF Start, TypeOK
<1>4. CASE Read
  <2>1. ix' \in Indexes
    BY <1>4, IndexChanges DEF Read, TypeOK
  <2>2. pc' \in {"assign", "index", "orphan"}
    BY <1>4 DEF Read
  <2> QED BY <1>4, <2>1, <2>2 DEF Read, TypeOK
<1>5. CASE PutCounter
  <2>1. next' \in Ids /\ steady' \in BOOLEAN /\ faults' \in 0..MaxFaults
    BY <1>5, CountTypes DEF PutCounter, TypeOK
  <2>2. pc' \in {"record", "view", "index"}
    BY <1>5 DEF PutCounter
  <2> QED BY <1>5, <2>1, <2>2 DEF PutCounter, TypeOK
<1>6. CASE PutRecord
  <2>1. records' \subseteq Cameras /\ steady' \in BOOLEAN /\ faults' \in 0..MaxFaults
    BY <1>6, CountTypes DEF PutRecord, TypeOK
  <2>2. pc' \in {"index", "idle"}
    BY <1>6 DEF PutRecord
  <2> QED BY <1>6, <2>1, <2>2 DEF PutRecord, TypeOK
<1>7. CASE PutIndex
  <2>1. PICK w \in Outcomes :
          /\ index' = IF Effective(w) THEN ix ELSE index
          /\ IF Given = {} THEN UNCHANGED <<last, steady>>
             ELSE IF Effective(w) THEN last' = Before(nx) /\ steady' = (next = nx)
             ELSE UNCHANGED last /\ steady' = FALSE
          /\ unacked' = (unacked \/ (w = "unacked" /\ loaded))
          /\ pc' \in {"idle", "record", "view"}
          /\ Count(w)
    BY <1>7 DEF PutIndex
  <2>2. index' \in Indexes /\ unacked' \in BOOLEAN /\ steady' \in BOOLEAN /\ legacy' \subseteq Cameras
    BY <1>7, <2>1 DEF PutIndex, TypeOK
  <2>3. last' \in 0..MaxId
    <3>1. Before(nx) \in Ids
      BY StepsLast DEF TypeOK
    <3> QED BY <2>1, <3>1, StoreAssumption DEF TypeOK, Ids
  <2>4. faults' \in 0..MaxFaults
    BY <2>1, CountTypes DEF TypeOK
  <2> QED BY <1>7, <2>1, <2>2, <2>3, <2>4 DEF PutIndex, TypeOK
<1>8. CASE EraseRecord
  <2>1. records' \subseteq Cameras /\ faults' \in 0..MaxFaults
    BY <1>8, CountTypes DEF EraseRecord, TypeOK
  <2>2. pc' \in {"view", "bond"}
    BY <1>8 DEF EraseRecord
  <2> QED BY <1>8, <2>1, <2>2 DEF EraseRecord, TypeOK
<1>9. CASE Publish
  <2>1. list' \subseteq Cameras
    BY <1>9 DEF Publish, TypeOK
  <2>2. pc' \in {"idle", "read", "bond"}
    BY <1>9 DEF Publish
  <2> QED BY <1>9, <2>1, <2>2 DEF Publish, TypeOK
<1>10. CASE DeleteBond
  BY <1>10 DEF DeleteBond, TypeOK
<1>11. CASE Crash
  <2>1. Empty \in Indexes /\ 1 \in Ids /\ crashes' \in 0..MaxCrashes
    BY <1>11, IndexChanges, StoreAssumption DEF Crash, TypeOK, Ids
  <2> QED BY <1>11, <2>1 DEF Crash, TypeOK
<1>12. CASE UNCHANGED vars
  BY <1>12 DEF vars, TypeOK
<1> QED
  BY <1>1, <1>2, <1>3, <1>4, <1>5, <1>6, <1>7, <1>8, <1>9, <1>10, <1>11, <1>12 DEF Next
-----------------------------------------------------------------------------
(***************************************************************************)
(* The copy of the index that an operation prepares.                       *)
(***************************************************************************)
LEMMA CopyInit == Init => CopyInv
BY DEF Init, CopyInv, Distinct, Adding

LEMMA CopyNext == TypeOK /\ CopyInv /\ [Next]_vars => CopyInv'
<1> SUFFICES ASSUME TypeOK, CopyInv, [Next]_vars PROVE CopyInv'
  OBVIOUS
<1> USE DEF flash, memory, running, history
<1>a. /\ op \in {"load", "save", "remove"}
      /\ pc \in {"idle", "read", "assign", "record", "index", "orphan", "view", "bond"}
      /\ loaded \in BOOLEAN
  BY DEF TypeOK
<1>1. ASSUME NEW c \in Cameras, Pair(c) \/ DropBond(c) PROVE CopyInv'
  BY <1>1 DEF Pair, DropBond, CopyInv, Distinct, Keeps, Adding, AllAssigned, Used, Without
<1>2. ASSUME NEW c \in Cameras, Assign(c) PROVE CopyInv'
  <2>1. PICK id \in Candidates(ix, nx) : ix' = [ix EXCEPT ![c] = id]
    BY <1>2 DEF Assign
  <2>2. id \in Ids \ Used(ix) /\ id # 0
    BY <2>1, StoreAssumption DEF Candidates, Ids
  <2>3. /\ pc = "assign" /\ Adding /\ c \in DOMAIN ix /\ ix[c] = 0
        /\ UNCHANGED <<index, loaded, op, cam, pc>>
    BY <1>2 DEF Assign, Adding, CopyInv
  <2>4. DOMAIN ix' = DOMAIN ix /\ \A d \in DOMAIN ix : ix'[d] = IF d = c THEN id ELSE ix[d]
    BY <2>1
  <2>5. \A d \in DOMAIN ix : ix[d] # id
    BY <2>2 DEF Used
  <2>6. Distinct(ix')
    BY <2>3, <2>4, <2>5 DEF CopyInv, Distinct
  <2>7. Keeps'
    BY <2>3, <2>4 DEF CopyInv, Keeps
  <2> QED BY <2>3, <2>4, <2>6, <2>7 DEF CopyInv, Adding
<1>3. ASSUME NEW c \in Cameras, NEW o \in {"load", "save", "remove"}, Start(o, c) PROVE CopyInv'
  BY <1>3 DEF Start, CopyInv, Adding
<1>4. CASE Read
  <2>1. pc = "read" /\ UNCHANGED <<index, loaded, op, cam>>
    BY <1>4 DEF Read
  <2>2. CASE ~loaded /\ ix' = index /\ pc' = "assign"
    BY <2>1, <2>2 DEF CopyInv, Adding, Keeps
  <2>3. CASE loaded /\ op = "save" /\ ix' = AddIndex(index, cam) /\ pc' = "assign"
    <3>1. /\ DOMAIN ix' = DOMAIN index \cup {cam}
          /\ \A d \in DOMAIN ix' : ix'[d] = IF d \in DOMAIN index THEN index[d] ELSE 0
      BY <2>3 DEF AddIndex
    <3>2. Distinct(ix') /\ Keeps'
      BY <2>1, <3>1 DEF CopyInv, Distinct, Keeps
    <3> QED BY <2>1, <2>3, <3>1, <3>2 DEF CopyInv, Adding
  <2>4. CASE /\ loaded /\ op = "remove" /\ ix' = Without(index, cam)
             /\ pc' = IF cam \in DOMAIN index THEN "index" ELSE "orphan"
    BY <2>1, <2>4 DEF CopyInv, Adding, Distinct, Without
  <2> QED BY <1>4, <2>2, <2>3, <2>4 DEF Read
<1>5. CASE PutCounter
  <2>1. pc = "assign" /\ AllAssigned /\ UNCHANGED <<index, loaded, op, cam, ix>>
    BY <1>5 DEF PutCounter
  <2>2. CASE Given = {} /\ ~loaded /\ pc' = "view"
    <3>1. /\ DOMAIN ix = DOMAIN index /\ ix \in Indexes /\ index \in Indexes
          /\ \A c \in DOMAIN ix : ix[c] # 0 => ix[c] = index[c]
          /\ \A c \in DOMAIN ix : index[c] # 0 => ix[c] = index[c]
      BY <2>1, <2>2 DEF CopyInv, Adding, Keeps, Given, TypeOK
    <3>2. \A c \in DOMAIN ix : ix[c] = index[c]
      BY <3>1
    <3>3. ix = index
      <4>1. ix = [c \in DOMAIN ix |-> ix[c]] /\ index = [c \in DOMAIN index |-> index[c]]
        BY <3>1, IndexType
      <4> QED BY <3>1, <3>2, <4>1
    <3> QED BY <2>1, <2>2, <3>3 DEF CopyInv, Adding
  <2>3. CASE (pc' = "record" /\ loaded) \/ (pc' = "index" /\ ~loaded)
    BY <2>1, <2>3 DEF CopyInv, Adding, Keeps, AllAssigned
  <2>4. \/ Given = {} /\ pc' = IF loaded THEN "record" ELSE "view"
        \/ pc' = IF loaded THEN "record" ELSE "index"
    BY <1>5 DEF PutCounter
  <2>5. CASE loaded
    <3>1. pc' = "record"
      BY <2>4, <2>5
    <3> QED BY <2>3, <2>5, <3>1
  <2>6. CASE ~loaded
    <3>1. (Given = {} /\ pc' = "view") \/ pc' = "index"
      BY <2>4, <2>6
    <3> QED BY <2>2, <2>3, <2>6, <3>1
  <2> QED BY <2>5, <2>6
<1>6. CASE PutRecord
  <2>1. /\ pc = "record" /\ op = "save" /\ pc' \in {"index", "idle"}
        /\ UNCHANGED <<index, loaded, op, cam, ix>>
    BY <1>6 DEF PutRecord
  <2> QED BY <2>1 DEF CopyInv, Adding, Keeps, AllAssigned
<1>7. CASE PutIndex
  <2>1. PICK w \in Outcomes :
          /\ index' = IF Effective(w) THEN ix ELSE index
          /\ pc' = IF w # "done" THEN "idle"
                   ELSE IF op = "remove" /\ loaded THEN "record" ELSE "view"
    BY <1>7 DEF PutIndex
  <2>2. pc = "index" /\ UNCHANGED <<loaded, op, cam, ix>>
    BY <1>7 DEF PutIndex
  <2>3. Distinct(ix)
    <3>1. CASE Adding
      BY <3>1 DEF CopyInv
    <3>2. CASE ~Adding
      BY <1>a, <2>2, <3>2 DEF CopyInv, Adding, Distinct, Without
    <3> QED BY <3>1, <3>2
  <2>4. Distinct(index')
    BY <2>1, <2>3 DEF CopyInv
  <2>5. CASE w # "done"
    BY <2>1, <2>2, <2>4, <2>5 DEF CopyInv, Adding
  <2>6. CASE w = "done"
    <3>1. index' = ix
      BY <2>1, <2>6 DEF Effective
    <3>2. loaded /\ op = "remove" => cam \notin DOMAIN ix
      BY <2>2 DEF CopyInv, Without
    <3>3. pc' = IF op = "remove" /\ loaded THEN "record" ELSE "view"
      BY <2>1, <2>6
    <3> QED BY <2>2, <2>4, <3>1, <3>2, <3>3 DEF CopyInv, Adding
  <2> QED BY <2>5, <2>6
<1>8. CASE EraseRecord
  BY <1>8 DEF EraseRecord, CopyInv, Adding
<1>9. CASE Publish
  BY <1>9 DEF Publish, CopyInv, Adding
<1>10. CASE DeleteBond
  BY <1>10 DEF DeleteBond, CopyInv, Adding
<1>11. CASE Crash
  BY <1>11 DEF Crash, CopyInv, Adding
<1>12. CASE UNCHANGED vars
  BY <1>12 DEF vars, CopyInv, Distinct, Keeps, Adding, AllAssigned, Used, Without
<1> QED
  BY <1>1, <1>2, <1>3, <1>4, <1>5, <1>6, <1>7, <1>8, <1>9, <1>10, <1>11, <1>12 DEF Next

-----------------------------------------------------------------------------
(***************************************************************************)
(* Records and bonds.                                                      *)
(***************************************************************************)
LEMMA OrderInit == Init => OrderInv
BY DEF Init, OrderInv, Reconnectable

LEMMA OrderNext == TypeOK /\ CopyInv /\ OrderInv /\ [Next]_vars => OrderInv'
<1> SUFFICES ASSUME TypeOK, CopyInv, OrderInv, [Next]_vars PROVE OrderInv'
  OBVIOUS
<1> USE DEF flash, memory, running, history, OrderInv, Reconnectable
<1>1. ASSUME NEW c \in Cameras, Pair(c) \/ DropBond(c) PROVE OrderInv'
  BY <1>1 DEF Pair, DropBond
<1>2. ASSUME NEW c \in Cameras, Assign(c) PROVE OrderInv'
  BY <1>2 DEF Assign
<1>3. ASSUME NEW c \in Cameras, NEW o \in {"load", "save", "remove"}, Start(o, c) PROVE OrderInv'
  BY <1>3 DEF Start
<1>4. CASE Read
  BY <1>4 DEF Read
<1>5. CASE PutCounter
  BY <1>5 DEF PutCounter
<1>6. CASE PutRecord
  BY <1>6 DEF PutRecord, Effective
<1>7. CASE PutIndex
  <2>1. /\ pc = "index" /\ index' \in {index, ix} /\ pc' \in {"idle", "record", "view"}
        /\ UNCHANGED <<records, bonds, dropped, loaded, op, cam>>
    BY <1>7 DEF PutIndex
  <2>2. DOMAIN ix \subseteq records \cap (bonds \cup dropped)
    <3>1. CASE Adding
      BY <2>1, <3>1 DEF CopyInv, Adding
    <3>2. CASE ~Adding
      BY <2>1, <3>2 DEF CopyInv, Adding, Without, TypeOK
    <3> QED BY <3>1, <3>2
  <2> QED BY <2>1, <2>2
<1>8. CASE EraseRecord
  BY <1>8 DEF EraseRecord, CopyInv
<1>9. CASE Publish
  BY <1>9 DEF Publish
<1>10. CASE DeleteBond
  BY <1>10 DEF DeleteBond, CopyInv
<1>11. CASE Crash
  BY <1>11 DEF Crash
<1>12. CASE UNCHANGED vars
  BY <1>12 DEF vars
<1> QED
  BY <1>1, <1>2, <1>3, <1>4, <1>5, <1>6, <1>7, <1>8, <1>9, <1>10, <1>11, <1>12 DEF Next

-----------------------------------------------------------------------------
(***************************************************************************)
(* The catalog in memory.                                                  *)
(***************************************************************************)
LEMMA ViewInit == Init => ViewInv
BY DEF Init, ViewInv

LEMMA ViewNext == TypeOK /\ CopyInv /\ OrderInv /\ ViewInv /\ [Next]_vars => ViewInv'
<1> SUFFICES ASSUME TypeOK, CopyInv, OrderInv, ViewInv, [Next]_vars PROVE ViewInv'
  OBVIOUS
<1> USE DEF flash, memory, running, history
<1>1. ASSUME NEW c \in Cameras, Pair(c) \/ DropBond(c) PROVE ViewInv'
  BY <1>1 DEF Pair, DropBond, ViewInv
<1>2. ASSUME NEW c \in Cameras, Assign(c) PROVE ViewInv'
  BY <1>2 DEF Assign, ViewInv
<1>3. ASSUME NEW c \in Cameras, NEW o \in {"load", "save", "remove"}, Start(o, c) PROVE ViewInv'
  BY <1>3 DEF Start, ViewInv
<1>4. CASE Read
  BY <1>4 DEF Read, ViewInv
<1>5. CASE PutCounter
  BY <1>5 DEF PutCounter, ViewInv, CopyInv
<1>6. CASE PutRecord
  BY <1>6 DEF PutRecord, ViewInv
<1>7. CASE PutIndex
  <2>1. PICK w \in Outcomes :
          /\ index' = IF Effective(w) THEN ix ELSE index
          /\ legacy' = IF Effective(w) /\ loaded THEN legacy \ {cam} ELSE legacy
          /\ unacked' = (unacked \/ (w = "unacked" /\ loaded))
          /\ pc' = IF w # "done" THEN "idle"
                   ELSE IF op = "remove" /\ loaded THEN "record" ELSE "view"
    BY <1>7 DEF PutIndex
  <2>2. pc = "index" /\ UNCHANGED <<loaded, list, ids, op, cam>>
    BY <1>7 DEF PutIndex
  <2> SUFFICES ASSUME loaded, ~unacked, w # "unacked" PROVE ViewInv'
    BY <2>1, <2>2 DEF ViewInv
  <2>3. list = DOMAIN index \ legacy /\ ids = index
    BY <2>2 DEF ViewInv
  <2>4. CASE w = "refused"
    BY <2>1, <2>2, <2>3, <2>4 DEF ViewInv, Effective
  <2>5. CASE w = "done"
    <3>1. /\ index' = ix /\ legacy' = legacy \ {cam}
          /\ pc' = IF op = "remove" THEN "record" ELSE "view"
      BY <2>1, <2>5 DEF Effective
    <3>2. CASE op = "save"
      BY <2>2, <2>3, <3>1, <3>2 DEF ViewInv, CopyInv, Adding
    <3>3. CASE op = "remove"
      BY <2>2, <2>3, <3>1, <3>3 DEF ViewInv, CopyInv, Without
    <3> QED BY <2>2, <3>2, <3>3 DEF TypeOK, CopyInv
  <2> QED BY <2>1, <2>4, <2>5 DEF Outcomes
<1>8. CASE EraseRecord
  BY <1>8 DEF EraseRecord, ViewInv
<1>9. CASE Publish
  <2>1. pc = "view" /\ ix = index /\ ids' = index /\ UNCHANGED <<index, legacy, op, cam, unacked>>
    BY <1>9 DEF Publish, CopyInv
  <2>2. list' = DOMAIN index \ legacy \/ unacked
    <3>1. CASE ~loaded
      BY <1>9, <2>1, <3>1 DEF Publish, OrderInv, Reconnectable
    <3>2. CASE loaded
      BY <1>9, <2>1, <3>2 DEF Publish, ViewInv
    <3> QED BY <3>1, <3>2
  <2>3. pc' \in {"idle", "read", "bond"}
    BY <1>9 DEF Publish
  <2> QED BY <2>1, <2>2, <2>3 DEF ViewInv
<1>10. CASE DeleteBond
  BY <1>10 DEF DeleteBond, ViewInv
<1>11. CASE Crash
  BY <1>11 DEF Crash, ViewInv
<1>12. CASE UNCHANGED vars
  BY <1>12 DEF vars, ViewInv
<1> QED
  BY <1>1, <1>2, <1>3, <1>4, <1>5, <1>6, <1>7, <1>8, <1>9, <1>10, <1>11, <1>12 DEF Next
-----------------------------------------------------------------------------
(***************************************************************************)
(* Whose turn it is: the ids that are given out.                           *)
(***************************************************************************)
LEMMA TurnInit == Init => TurnInv
BY DEF Init, TurnInv, Adding

\* One id more: the walk goes on behind it, and reaches the id given out last
\* only when there is no other.
LEMMA TurnAssign ==
  ASSUME TypeOK, CopyInv, TurnInv, NEW c \in Cameras, Assign(c)
  PROVE  TurnInv'
<1> USE DEF flash, memory, running, history
<1>1. PICK id \in Candidates(ix, nx) : ix' = [ix EXCEPT ![c] = id] /\ nx' = After(id)
  BY DEF Assign
<1>2. /\ pc = "assign" /\ Adding /\ Adding' /\ c \in DOMAIN ix /\ ix[c] = 0
      /\ UNCHANGED <<index, next, last, steady, loaded, op, pc>>
  BY DEF Assign, Adding, CopyInv
<1>3. /\ id \in Ids \ Used(ix) /\ id # 0
      /\ \A k \in Ids \ Used(ix) : Steps(nx, id) <= Steps(nx, k)
  BY <1>1, StoreAssumption DEF Candidates, Ids
<1>4. DOMAIN ix' = DOMAIN ix /\ \A d \in DOMAIN ix : ix'[d] = IF d = c THEN id ELSE ix[d]
  BY <1>1
<1>5. Used(ix') = Used(ix) \cup {id}
  BY <1>2, <1>3, <1>4 DEF Used
<1>6. Given' = Given \cup {c}
  <2>1. c \in Given'
    BY <1>2, <1>3, <1>4 DEF Given, CopyInv, Keeps
  <2> QED BY <1>2, <1>4, <2>1 DEF Given
<1>7. FreshIds' = FreshIds \cup {id}
  <2>1. c \notin Given
    BY <1>2 DEF Given
  <2>2. \A d \in Given : d \in DOMAIN ix
    BY DEF Given
  <2> QED BY <1>2, <1>4, <1>6, <2>1, <2>2 DEF FreshIds
<1>8. Before(nx') = id
  BY <1>1, <1>3, StepsLast
<1>9. ASSUME steady
      PROVE  /\ last \in FreshIds' => Ids \subseteq Used(ix')
             /\ last \notin FreshIds' =>
                  \A k \in Ids : Steps(next, k) < Steps(next, nx') => k \in Used(ix')
  <2>1. last \in Ids /\ next = After(last) /\ next \in Ids /\ nx \in Ids
    BY <1>2, <1>9 DEF TurnInv, TypeOK
  <2>2. CASE last \in FreshIds
    BY <1>2, <1>3, <1>9, <2>2 DEF TurnInv
  <2>3. CASE last \notin FreshIds
    <3>1. \A k \in Ids \ Used(ix) : Steps(next, nx) <= Steps(next, k)
      <4>1. ASSUME NEW k \in Ids \ Used(ix) PROVE Steps(next, nx) <= Steps(next, k)
        <5>1. ~(Steps(next, k) < Steps(next, nx))
          BY <1>2, <1>9, <2>3 DEF TurnInv
        <5>2. Steps(next, k) \in Int /\ Steps(next, nx) \in Int
          BY <2>1, StepsDiffer
        <5> QED BY <5>1, <5>2
      <4> QED BY <4>1
    <3>2. \A k \in Ids \ Used(ix) : Steps(next, k) = Steps(next, nx) + Steps(nx, k)
      BY <2>1, <3>1, StepsSum
    <3>3. \A k \in Ids : Steps(next, k) \in Int /\ Steps(nx, k) \in Int
      BY <2>1, StepsDiffer
    <3>4. \A k \in Ids \ Used(ix) : Steps(next, id) <= Steps(next, k)
      BY <1>3, <2>1, <3>2, <3>3
    <3>5. CASE id = last
      <4>1. ASSUME NEW k \in Ids \ Used(ix) PROVE k = id
        <5>1. Steps(next, k) <= Steps(next, id)
          BY <2>1, <3>5, StepsLast
        <5>2. Steps(next, k) = Steps(next, id)
          BY <1>3, <3>3, <3>4, <5>1
        <5> QED BY <1>3, <2>1, <5>2, StepsDiffer
      <4> QED BY <1>5, <1>7, <3>5, <4>1
    <3>6. CASE id # last
      <4>1. Steps(next, nx') = Steps(next, id) + 1
        BY <1>1, <1>3, <2>1, <3>6, StepsLast
      <4>2. ASSUME NEW k \in Ids, Steps(next, k) < Steps(next, nx'), k \notin Used(ix)
            PROVE  k = id
        <5>1. Steps(next, k) = Steps(next, id)
          BY <1>3, <3>3, <3>4, <4>1, <4>2
        <5> QED BY <1>3, <2>1, <5>1, StepsDiffer
      <4> QED BY <1>5, <1>7, <2>3, <3>6, <4>2
    <3> QED BY <3>5, <3>6
  <2> QED BY <2>2, <2>3
<1>10. Given' # {} /\ Before(nx') \in FreshIds'
  BY <1>6, <1>7, <1>8
<1> QED BY <1>2, <1>9, <1>10 DEF TurnInv

LEMMA TurnNext == TypeOK /\ CopyInv /\ TurnInv /\ [Next]_vars => TurnInv'
<1> SUFFICES ASSUME TypeOK, CopyInv, TurnInv, [Next]_vars PROVE TurnInv'
  OBVIOUS
<1> USE DEF flash, memory, running, history
<1>a. /\ op \in {"load", "save", "remove"} /\ loaded \in BOOLEAN /\ steady \in BOOLEAN
      /\ next \in Ids /\ nx \in Ids
  BY DEF TypeOK
<1>1. ASSUME NEW c \in Cameras, Pair(c) \/ DropBond(c) PROVE TurnInv'
  BY <1>1 DEF Pair, DropBond, TurnInv, Adding, Given, FreshIds, Used
<1>2. ASSUME NEW c \in Cameras, Assign(c) PROVE TurnInv'
  BY <1>2, TurnAssign
<1>3. ASSUME NEW c \in Cameras, NEW o \in {"load", "save", "remove"}, Start(o, c) PROVE TurnInv'
  BY <1>3 DEF Start, TurnInv, Adding
<1>4. CASE Read
  <2>1. pc = "read" /\ nx' = next /\ UNCHANGED <<index, next, last, steady, loaded, op, cam>>
    BY <1>4 DEF Read
  <2>2. steady => last \in Ids /\ next = After(last)
    BY <2>1 DEF TurnInv, Adding
  <2>3. CASE pc' = "assign"
    <3>1. Given' = {}
      <4>1. ix' = index \/ ix' = AddIndex(index, cam)
        BY <1>4, <2>3 DEF Read
      <4> QED BY <2>1, <4>1 DEF Given, AddIndex
    <3>2. FreshIds' = {}
      BY <3>1 DEF FreshIds
    <3>3. \A k \in Ids : ~(Steps(next, k) < Steps(next, nx'))
      <4>1. Steps(next, nx') = 0 /\ \A k \in Ids : Steps(next, k) \in Nat
        BY <1>a, <2>1, StepsDiffer
      <4> QED BY <4>1
    <3> QED BY <2>1, <2>2, <2>3, <3>1, <3>2, <3>3 DEF TurnInv
  <2>4. CASE pc' \in {"index", "orphan"} /\ loaded /\ op = "remove"
    BY <2>1, <2>2, <2>4 DEF TurnInv, Adding
  <2> QED BY <1>4, <2>3, <2>4 DEF Read
<1>5. CASE PutCounter
  <2>1. /\ pc = "assign" /\ Adding /\ UNCHANGED <<index, ix, nx, last, loaded, op>>
        /\ pc' \in {"record", "index", "view"}
    BY <1>5 DEF PutCounter, Adding, CopyInv
  <2>2. Given' = Given /\ FreshIds' = FreshIds /\ Used(ix') = Used(ix)
    BY <2>1 DEF Given, FreshIds
  <2>3. CASE Given = {} /\ UNCHANGED <<next, steady>>
    BY <2>1, <2>2, <2>3 DEF TurnInv, FreshIds
  <2>4. CASE Given # {} /\ (steady' => steady) /\ pc' \in {"record", "index"}
    <3>1. Adding'
      BY <2>1, <2>4 DEF Adding
    <3> QED BY <2>1, <2>2, <2>4, <3>1 DEF TurnInv
  <2>5. (Given = {} /\ UNCHANGED <<next, steady>>) \/
        (Given # {} /\ (steady' => steady) /\ pc' \in {"record", "index"})
    BY <1>5 DEF PutCounter
  <2> QED BY <2>3, <2>4, <2>5
<1>6. CASE PutRecord
  <2>1. /\ pc = "record" /\ op = "save" /\ Adding
        /\ UNCHANGED <<index, next, ix, nx, last, loaded, op>>
    BY <1>6 DEF PutRecord, Adding
  <2>2. Given' = Given /\ FreshIds' = FreshIds /\ Used(ix') = Used(ix)
    BY <2>1 DEF Given, FreshIds
  <2>3. CASE pc' = "index" /\ (steady' => steady)
    <3>1. Adding'
      BY <2>1, <2>3 DEF Adding
    <3> QED BY <2>1, <2>2, <2>3, <3>1 DEF TurnInv
  <2>4. CASE pc' = "idle" /\ (steady' => steady /\ Given = {})
    BY <2>1, <2>2, <2>4 DEF TurnInv, Adding
  <2>5. (pc' = "index" /\ (steady' => steady)) \/
        (pc' = "idle" /\ (steady' => steady /\ Given = {}))
    BY <1>6 DEF PutRecord
  <2> QED BY <2>3, <2>4, <2>5
<1>7. CASE PutIndex
  <2>1. PICK w \in Outcomes :
          /\ IF Given = {} THEN UNCHANGED <<last, steady>>
             ELSE IF Effective(w) THEN last' = Before(nx) /\ steady' = (next = nx)
             ELSE UNCHANGED last /\ steady' = FALSE
          /\ pc' = IF w # "done" THEN "idle"
                   ELSE IF op = "remove" /\ loaded THEN "record" ELSE "view"
    BY <1>7 DEF PutIndex
  <2>2. pc = "index" /\ UNCHANGED <<next, nx, loaded, op>>
    BY <1>7 DEF PutIndex
  <2>3. ~Adding' /\ pc' # "assign"
    BY <2>1, <2>2 DEF Adding
  <2>4. CASE Given = {}
    BY <2>1, <2>2, <2>3, <2>4 DEF TurnInv
  <2>5. CASE Given # {}
    <3>1. steady' => last' = Before(nx) /\ next = nx
      BY <2>1, <2>5
    <3> QED BY <1>a, <2>2, <2>3, <3>1, StepsLast DEF TurnInv
  <2> QED BY <2>4, <2>5
<1>8. CASE EraseRecord
  BY <1>8 DEF EraseRecord, TurnInv, Adding
<1>9. CASE Publish
  BY <1>9 DEF Publish, TurnInv, Adding
<1>10. CASE DeleteBond
  BY <1>10 DEF DeleteBond, TurnInv, Adding
<1>11. CASE Crash
  BY <1>11 DEF Crash, TurnInv, Adding
<1>12. CASE UNCHANGED vars
  BY <1>12 DEF vars, TurnInv, Adding, Given, FreshIds, Used
<1> QED
  BY <1>1, <1>2, <1>3, <1>4, <1>5, <1>6, <1>7, <1>8, <1>9, <1>10, <1>11, <1>12 DEF Next
-----------------------------------------------------------------------------
LEMMA InvariantHolds == Spec => []IInv
<1>1. Init => IInv
  BY TypesInit, CopyInit, OrderInit, ViewInit, TurnInit DEF IInv
<1>2. IInv /\ [Next]_vars => IInv'
  BY TypesNext, CopyNext, OrderNext, ViewNext, TurnNext DEF IInv
<1> QED BY <1>1, <1>2, PTL DEF Spec

\* The types hold, for every value of the constants.
THEOREM TypesHold == Spec => []TypeOK
<1>1. IInv => TypeOK
  BY DEF IInv
<1> QED BY <1>1, InvariantHolds, PTL

\* Whichever write of save(), remove() or a migration fails and whenever power
\* is lost, every camera in the index has its record, and its bond but where the
\* recovery from a stale bond gave it up.
THEOREM SavedIsReconnectable == Spec => []Reconnectable
<1>1. IInv => Reconnectable
  BY DEF IInv, OrderInv
<1> QED BY <1>1, InvariantHolds, PTL

\* Between operations m_SavedList is what the index on flash has of supported
\* types and m_CameraIds are its ids, as long as no index took effect without
\* being acknowledged.
THEOREM MemoryIsFlash == Spec => []ViewIsFlash
<1>1. IInv => ViewIsFlash
  BY DEF IInv, ViewInv, ViewIsFlash
<1> QED BY <1>1, InvariantHolds, PTL

\* An id names one camera, on flash and in the catalog the companion reads, and
\* the same camera in both, also in the middle of an operation, unless an index
\* took effect unacknowledged.
OneName ==
  loaded /\ ~unacked =>
    \A c \in DOMAIN ids, d \in DOMAIN index :
      /\ ids[c] = index[d] /\ ids[c] # 0 => c = d
      /\ c = d /\ ids[c] # 0 => ids[c] = index[c]

IdsAreNames == Distinct(index) /\ Distinct(ids) /\ OneName

LEMMA NamesNext == IInv /\ IdsAreNames /\ [Next]_vars => IdsAreNames'
<1> SUFFICES ASSUME IInv, IdsAreNames, [Next]_vars PROVE IdsAreNames'
  OBVIOUS
<1>0. Distinct(index')
  <2>1. CopyInv'
    BY CopyNext DEF IInv
  <2> QED BY <2>1 DEF CopyInv, Distinct
<1>1. ASSUME UNCHANGED <<index, ids, loaded, unacked>> PROVE IdsAreNames'
  BY <1>1 DEF IdsAreNames, OneName, Distinct
<1>2. CASE PutIndex
  <2>1. UNCHANGED <<ids, loaded>> /\ (index' = index \/ index' = ix) /\ (~unacked' => ~unacked)
        /\ pc = "index"
    BY <1>2 DEF PutIndex, memory
  <2>2. CASE loaded /\ ~unacked' /\ index' = ix
    <3>1. ids = index /\ (op = "save" \/ op = "remove")
      BY <2>1, <2>2 DEF IInv, ViewInv, CopyInv, TypeOK
    <3>2. \A c \in DOMAIN index, d \in DOMAIN ix :
            /\ index[c] = ix[d] /\ index[c] # 0 => c = d
            /\ c = d /\ index[c] # 0 => index[c] = ix[c]
      <4>1. CASE op = "save"
        <5>1. Distinct(ix) /\ Keeps /\ DOMAIN ix = DOMAIN index \cup {cam}
          BY <2>1, <2>2, <4>1 DEF IInv, CopyInv, Adding
        <5> QED BY <5>1 DEF Distinct, Keeps
      <4>2. CASE op = "remove"
        <5>1. ix = Without(index, cam) /\ Distinct(index)
          BY <2>1, <2>2, <4>2 DEF IInv, CopyInv
        <5> QED BY <5>1 DEF Distinct, Without
      <4> QED BY <3>1, <4>1, <4>2
    <3> QED BY <1>0, <2>1, <2>2, <3>1, <3>2 DEF IdsAreNames, OneName, Distinct
  <2>3. CASE ~(loaded /\ ~unacked') \/ index' = index
    BY <1>0, <2>1, <2>3 DEF IdsAreNames, OneName, Distinct
  <2> QED BY <2>1, <2>2, <2>3
<1>3. CASE Publish
  <2>1. ids' = index'
    BY <1>3 DEF Publish, IInv, CopyInv, flash
  <2> QED BY <1>0, <2>1 DEF IdsAreNames, OneName, Distinct
<1>4. CASE Crash
  BY <1>0, <1>4 DEF Crash, IdsAreNames, OneName, Distinct, Empty
<1>5. ASSUME NEW c \in Cameras,
             Pair(c) \/ DropBond(c) \/ Assign(c) \/ \E o \in {"load", "save", "remove"} : Start(o, c)
      PROVE  IdsAreNames'
  BY <1>1, <1>5 DEF Pair, DropBond, Assign, Start, flash, memory, history
<1>6. CASE Read \/ PutCounter \/ PutRecord \/ EraseRecord \/ DeleteBond \/ UNCHANGED vars
  BY <1>1, <1>6 DEF Read, PutCounter, PutRecord, EraseRecord, DeleteBond, vars, flash, memory,
     history
<1> QED BY <1>2, <1>3, <1>4, <1>5, <1>6 DEF Next

\* No two saved cameras share an id, and the one the companion asks for by an id
\* is the one flash has under it.
THEOREM IdsNameOneCamera == Spec => []IdsAreNames
<1>1. Init => IdsAreNames
  BY DEF Init, IdsAreNames, OneName, Distinct, Empty
<1>2. IInv /\ IdsAreNames /\ [Next]_vars => IdsAreNames'
  BY NamesNext
<1> QED BY <1>1, <1>2, InvariantHolds, PTL DEF Spec

-----------------------------------------------------------------------------
(***************************************************************************)
(* The refinement: only the write of the index changes the catalog.        *)
(***************************************************************************)
\* The index of an operation that gives out ids is numbered as Catalog asks.
LEMMA NumberCommits ==
  ASSUME IInv, Adding, pc = "index", index' = ix, steady' \in BOOLEAN,
         IF Given = {} THEN last' = last ELSE last' = Before(nx)
  PROVE  Abstract!Number
<1> USE DEF flash, memory, running, history
<1>1. /\ Distinct(ix) /\ Keeps /\ AllAssigned /\ ix \in Indexes /\ index \in Indexes
      /\ DOMAIN index \subseteq DOMAIN ix
  BY DEF IInv, TypeOK, CopyInv
<1>2. \A c \in DOMAIN ix : ix[c] \in 0..MaxId
  BY <1>1, IndexType
<1>3. \A c \in DOMAIN index : index[c] # 0 => ix[c] = index[c]
  BY <1>1 DEF Keeps
<1>4. \A c, d \in DOMAIN ix : c # d /\ ix[c] = ix[d] => ix[c] = 0
  BY <1>1 DEF Distinct
<1>5. Abstract!Ids = Ids /\ Abstract!Used' = Used(ix)
  BY DEF Abstract!Ids, Ids, Abstract!Used, Used
<1>6. (\E c \in DOMAIN ix : ix[c] = 0) => Ids \subseteq Used(ix)
  BY <1>1 DEF AllAssigned
<1>7. Abstract!Fresh = FreshIds
  <2>1. Abstract!Fresh =
          {ix[c] : c \in {d \in DOMAIN ix : d \in DOMAIN index => index[d] = 0}} \ {0}
    BY DEF Abstract!Fresh
  <2>2. Given = {c \in DOMAIN ix : ix[c] # 0 /\ (c \in DOMAIN index => index[c] = 0)}
    BY <1>3 DEF Given
  <2> QED BY <2>1, <2>2 DEF FreshIds
<1>8. steady /\ last \in FreshIds => Ids \subseteq Used(ix)
  BY DEF IInv, TurnInv
<1>9. IF FreshIds = {} THEN last' = last ELSE last' \in FreshIds
  <2>1. FreshIds = {} <=> Given = {}
    BY DEF FreshIds
  <2> QED BY <2>1 DEF IInv, TurnInv
<1> QED BY <1>2, <1>3, <1>4, <1>5, <1>6, <1>7, <1>8, <1>9 DEF Abstract!Number

LEMMA InitImplements == Init => Abstract!Init
<1> SUFFICES ASSUME Init PROVE Abstract!Init
  OBVIOUS
<1>1. PICK S \in SUBSET Cameras : index = [c \in S |-> 0]
  BY DEF Init
<1>2. index \in [S -> {0}]
  BY <1>1
<1>3. index \in UNION {[T -> {0}] : T \in SUBSET Cameras}
  BY <1>2
<1> QED BY <1>3 DEF Init, Abstract!Init

LEMMA StepImplements ==
  ASSUME IInv, [Next]_vars
  PROVE  [Abstract!Next]_Abstract!vars
<1> USE DEF flash, memory, running, history, Abstract!vars
<1>a. steady \in BOOLEAN /\ cam \in Cameras
  BY DEF IInv, TypeOK
<1>b. ASSUME UNCHANGED <<index, last>>, steady' = FALSE \/ steady' = steady
      PROVE  [Abstract!Next]_Abstract!vars
  BY <1>b DEF Abstract!Next, Abstract!Disturb
<1>1. ASSUME NEW c \in Cameras, Pair(c) \/ DropBond(c) PROVE [Abstract!Next]_Abstract!vars
  BY <1>1 DEF Pair, DropBond
<1>2. ASSUME NEW c \in Cameras, Assign(c) PROVE [Abstract!Next]_Abstract!vars
  BY <1>2 DEF Assign
<1>3. ASSUME NEW c \in Cameras, NEW o \in {"load", "save", "remove"}, Start(o, c)
      PROVE  [Abstract!Next]_Abstract!vars
  BY <1>3 DEF Start
<1>4. CASE Read
  BY <1>4 DEF Read
<1>5. CASE PutCounter
  <2>1. UNCHANGED <<index, last>> /\ (steady' = FALSE \/ steady' = steady)
    BY <1>5, <1>a DEF PutCounter
  <2> QED BY <1>b, <2>1
<1>6. CASE PutRecord
  <2>1. UNCHANGED <<index, last>> /\ (steady' = FALSE \/ steady' = steady)
    BY <1>6, <1>a DEF PutRecord
  <2> QED BY <1>b, <2>1
<1>7. CASE PutIndex
  <2>1. PICK w \in Outcomes :
          /\ index' = IF Effective(w) THEN ix ELSE index
          /\ IF Given = {} THEN UNCHANGED <<last, steady>>
             ELSE IF Effective(w) THEN last' = Before(nx) /\ steady' = (next = nx)
             ELSE UNCHANGED last /\ steady' = FALSE
    BY <1>7 DEF PutIndex
  <2>2. pc = "index"
    BY <1>7 DEF PutIndex
  <2>3. CASE ~Effective(w)
    <3>1. UNCHANGED <<index, last>> /\ (steady' = FALSE \/ steady' = steady)
      BY <2>1, <2>3
    <3> QED BY <1>b, <3>1
  <2>4. CASE Effective(w) /\ Adding
    <3>1. /\ index' = ix /\ steady' \in BOOLEAN
          /\ IF Given = {} THEN last' = last ELSE last' = Before(nx)
      BY <1>a, <2>1, <2>4
    <3>2. Abstract!Number
      BY <2>2, <2>4, <3>1, NumberCommits
    <3>3. DOMAIN index' = IF loaded THEN DOMAIN index \cup {cam} ELSE DOMAIN index
      BY <2>4, <3>1 DEF IInv, CopyInv
    <3>4. CASE loaded
      <4>1. Abstract!Save(cam)
        BY <3>2, <3>3, <3>4 DEF Abstract!Save
      <4> QED BY <1>a, <4>1 DEF Abstract!Next
    <3>5. CASE ~loaded
      <4>1. Abstract!Migrate
        BY <3>2, <3>3, <3>5 DEF Abstract!Migrate
      <4> QED BY <4>1 DEF Abstract!Next
    <3> QED BY <3>4, <3>5
  <2>5. CASE Effective(w) /\ ~Adding
    <3>1. loaded /\ op = "remove" /\ ix = Without(index, cam) /\ cam \in DOMAIN index
      BY <2>2, <2>5 DEF IInv, CopyInv, Adding, TypeOK
    <3>2. Given = {}
      BY <3>1 DEF Given, Without
    <3>3. Abstract!Remove(cam)
      BY <2>1, <2>5, <3>1, <3>2 DEF Abstract!Remove, Without
    <3> QED BY <1>a, <3>3 DEF Abstract!Next
  <2> QED BY <2>3, <2>4, <2>5
<1>8. CASE EraseRecord
  BY <1>8 DEF EraseRecord
<1>9. CASE Publish
  BY <1>9 DEF Publish
<1>10. CASE DeleteBond
  BY <1>10 DEF DeleteBond
<1>11. CASE Crash
  <2>1. UNCHANGED <<index, last>> /\ (steady' = FALSE \/ steady' = steady)
    BY <1>11, <1>a DEF Crash
  <2> QED BY <1>b, <2>1
<1>12. CASE UNCHANGED vars
  BY <1>12 DEF vars
<1> QED
  BY <1>1, <1>2, <1>3, <1>4, <1>5, <1>6, <1>7, <1>8, <1>9, <1>10, <1>11, <1>12 DEF Next

\* CameraStore implements Catalog: with writes that fail, writes that take
\* effect unacknowledged and power lost anywhere, the index changes by whole
\* operations, an id stays with its camera, no two cameras share one, and an id
\* is not handed straight back.
THEOREM StoreImplementsCatalog == Spec => CatalogSpec
<1>1. Init => Abstract!Init
  BY InitImplements
<1>2. IInv /\ [Next]_vars => [Abstract!Next]_Abstract!vars
  BY StepImplements
<1> QED BY <1>1, <1>2, InvariantHolds, PTL DEF Spec, CatalogSpec, Abstract!Spec
=============================================================================
