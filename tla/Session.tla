------------------------------- MODULE Session -------------------------------
(***************************************************************************)
(* What Control promises about the lifetime of its Target objects, whoever *)
(* calls it and in whatever order the threads run.                         *)
(*                                                                         *)
(* A target joins the session with its own task.  It leaves by being       *)
(* dismissed to the drain, or with the whole session at once; it is freed  *)
(* only when its task is gone, and its task goes only when it was told to. *)
(* The generation counts the sessions that ended, and nothing else.        *)
(***************************************************************************)
EXTENDS Integers

CONSTANT Targets

VARIABLES
  members,     \* targets that commands reach
  draining,    \* dismissed targets, not yet freed
  running,     \* targets whose task may still touch the object
  told,        \* targets that were sent CMD_DISCONNECT
  generation   \* sessions ended

vars == <<members, draining, running, told, generation>>

Init ==
  /\ members = {} /\ draining = {} /\ running = {} /\ told = {}
  /\ generation = 0

Join(t) ==
  /\ t \notin members \cup draining
  /\ members' = members \cup {t}
  /\ running' = running \cup {t}
  /\ UNCHANGED <<draining, told, generation>>

Tell(S) ==
  /\ S \subseteq members \cap running
  /\ told' = told \cup S
  /\ UNCHANGED <<members, draining, running, generation>>

\* A task stops only once told, and only then.
Stop(t) ==
  /\ t \in running \cap told
  /\ running' = running \ {t}
  /\ told' = told \ {t}
  /\ UNCHANGED <<members, draining, generation>>

\* Some members are told to stop and drain; the session ends with the last one.
Dismiss(S) ==
  /\ S \subseteq members /\ S # {}
  /\ told' = told \cup (S \cap running)
  /\ members' = members \ S
  /\ draining' = draining \cup S
  /\ generation' = IF S = members THEN generation + 1 ELSE generation
  /\ UNCHANGED running

\* The whole session ends.  Its stopped members may be freed at once.
End(D) ==
  /\ members # {}
  /\ D \subseteq members /\ members \cap running \subseteq D \cap told
  /\ members' = {}
  /\ draining' = draining \cup D
  /\ generation' = generation + 1
  /\ UNCHANGED <<running, told>>

Free(S) ==
  /\ S \subseteq draining \ running
  /\ draining' = draining \ S
  /\ UNCHANGED <<members, running, told, generation>>

Next ==
  \/ \E t \in Targets : Join(t) \/ Stop(t)
  \/ \E S \in SUBSET Targets : Tell(S) \/ Dismiss(S) \/ End(S) \/ Free(S)

Spec == Init /\ [][Next]_vars
==============================================================================
