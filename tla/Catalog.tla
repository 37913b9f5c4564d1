------------------------------- MODULE Catalog -------------------------------
(***************************************************************************)
(* What CameraList (lib/furble/CameraList.h) promises about the saved      *)
(* cameras: a catalog changed only by whole operations, whatever fails or  *)
(* whenever power is lost, in which a camera keeps the id the companion    *)
(* knows it by.                                                            *)
(***************************************************************************)
EXTENDS Integers

CONSTANTS
  Cameras,  \* cameras, by address
  MaxId     \* the last id, 254 in the code; 0 is "no id"

VARIABLES
  catalog,  \* the saved cameras and their ids
  last,     \* the id given out most recently, 0 before any
  steady    \* nothing has failed since, so that id is not the next in turn

vars == <<catalog, last, steady>>

Ids == 1..MaxId

Used == {catalog[c] : c \in DOMAIN catalog} \ {0}

\* Entries written by a version that had no ids.
Init ==
  /\ catalog \in UNION {[S -> {0}] : S \in SUBSET Cameras}
  /\ last = 0
  /\ steady = FALSE

\* The ids given out by a step.
Fresh ==
  {catalog'[c] : c \in {d \in DOMAIN catalog' : d \in DOMAIN catalog => catalog[d] = 0}} \ {0}

\* No id changes, no two cameras share one, and one goes without only when all
\* are used.  The id given out just before is not given again unless every
\* other is used by then.
Number ==
  /\ \A c \in DOMAIN catalog' : catalog'[c] \in 0..MaxId
  /\ \A c \in DOMAIN catalog : catalog[c] # 0 => catalog'[c] = catalog[c]
  /\ \A c, d \in DOMAIN catalog' : c # d /\ catalog'[c] = catalog'[d] => catalog'[c] = 0
  /\ (\E c \in DOMAIN catalog' : catalog'[c] = 0) => Ids \subseteq Used'
  /\ steady /\ last \in Fresh => Ids \subseteq Used'
  /\ IF Fresh = {} THEN last' = last ELSE last' \in Fresh
  /\ steady' \in BOOLEAN

\* A camera is saved; entries that went without an id may get one.
Save(c) ==
  /\ DOMAIN catalog' = DOMAIN catalog \cup {c}
  /\ Number

\* Entries that have no id get one.
Migrate == DOMAIN catalog' = DOMAIN catalog /\ Number

Remove(c) ==
  /\ c \in DOMAIN catalog
  /\ catalog' = [d \in DOMAIN catalog \ {c} |-> catalog[d]]
  /\ UNCHANGED <<last, steady>>

\* A write failed or power was lost between drawing an id and giving it out.
Disturb == steady' = FALSE /\ UNCHANGED <<catalog, last>>

Next ==
  \/ \E c \in Cameras : Save(c) \/ Remove(c)
  \/ Migrate \/ Disturb

Spec == Init /\ [][Next]_vars
=============================================================================
