------------------------------- MODULE Control -------------------------------
(***************************************************************************)
(* The camera session core of the remote: src/FurbleControl.cpp.           *)
(*                                                                         *)
(* Three kinds of thread share one Control object:                         *)
(*  - the control task runs Control::task(): it reaps drained targets,     *)
(*    receives commands and drives the state machine, and it is the only   *)
(*    thread that calls Camera::connect();                                 *)
(*  - the caller (the UI task, and the console and companion requests the  *)
(*    UI task serves) adds targets, requests a connect cycle and tears the *)
(*    session down with Control::disconnect();                             *)
(*  - every Target has a task that waits for CMD_DISCONNECT, closes its    *)
(*    camera's link, stores m_Stopped and deletes itself.                  *)
(*                                                                         *)
(* Each section under m_Mutex is one action.  Everything a thread does     *)
(* between two such sections is an action of its own, so a state read      *)
(* before an unlock can be stale when it is used.  setState() is split in  *)
(* two: the store of m_State, and the release of the light-sleep lock that *)
(* follows it under m_StateMutex.  Control::task() reads m_State right     *)
(* after it has taken a command off the queue; the two are one action.     *)
(*                                                                         *)
(* Simplifications: a Target's queue is reduced to the one command that    *)
(* ends it (CMD_DISCONNECT empties the queue and goes to its front); the   *)
(* order in which m_Targets is walked is left open; timeouts may fire at   *)
(* any time.  Adaptive power, GPS and the reconnect delays carry no state  *)
(* of the session and are left out.                                        *)
(*                                                                         *)
(* A definition marked "Faulty" is the one after it with a bug put in; no  *)
(* specification uses it, and it shows that a property notices the bug.    *)
(***************************************************************************)
EXTENDS Integers, Sequences, FiniteSets

CONSTANTS
  Cameras,         \* Camera objects held by CameraList
  Targets,         \* Control::Target objects, slots that are reused once freed
  NoCamera,        \* m_ConnectCamera == nullptr
  QueueLength,     \* Control::m_QueueLength
  SleepConn,       \* Settings::sleepConnEffective()
  Declining,       \* bound: cameras whose pairing requests can be declined
  InfiniteModes,   \* bound: values of Settings::RECONNECT the caller passes
  Restarts,        \* bound: is a teardown interactive, ahead of a restart, or either?
  MaxRequests      \* bound: connect cycles and teardowns the caller requests

ASSUME ConstantsAssumption ==
  /\ NoCamera \notin Cameras
  /\ QueueLength \in Nat \ {0}
  /\ SleepConn \in BOOLEAN
  /\ Declining \subseteq Cameras
  /\ InfiniteModes \subseteq BOOLEAN /\ InfiniteModes # {}
  /\ Restarts \subseteq BOOLEAN /\ Restarts # {}
  /\ MaxRequests \in Nat

States == {"IDLE", "CONNECT", "CONNECTING", "CONNECT_FAILED", "ACTIVE", "DISCONNECTING"}

Commands == {"CMD_CONNECT", "CMD_ERROR"}

VARIABLES
  state,        \* m_State
  stateOwner,   \* who is inside setState() with the sleep lock still to release
  lockCount,    \* Power's NO_LIGHT_SLEEP count for owner "control"
  lockHeld,     \* m_SleepLockHeld
  abort,        \* m_ConnectAbort
  inProgress,   \* m_ConnectInProgress
  infinite,     \* m_InfiniteReconnect
  failCount,    \* m_ConnectFailCount, only its being below two is ever tested
  clearCancel,  \* m_ClearConnectCancel
  connectCam,   \* m_ConnectCamera
  queue,        \* m_Queue
  targets,      \* m_Targets
  zombies,      \* m_ZombieTargets
  pastDeadline, \* has m_ZombieDeadline passed?
  generation,   \* m_SessionGeneration
  camOf,        \* Target::m_Camera
  tgtTask,      \* what each target's task is doing
  told,         \* targets with an undelivered CMD_DISCONNECT
  client,       \* each camera's current NimBLE client
  stray,        \* cameras with an earlier client whose link is not down yet
  connected,    \* Camera::m_Connected
  token,        \* Camera::m_ConnectCancelled
  declined,     \* Camera::pairingCancelled()
  disowned,     \* history: cameras that addActive() made forget a link still up
  pc, todo, cur, outcome, next,  \* the control task
  ui, toAdd, forRestart, settled, requests  \* the caller

stateVars  == <<state, stateOwner, lockCount, lockHeld>>
flagVars   == <<abort, infinite, clearCancel>>
connVars   == <<inProgress, failCount, connectCam>>
ownVars    == <<targets, zombies, pastDeadline, generation>>
targetVars == <<camOf, tgtTask, told>>
cameraVars == <<client, stray, connected, token, declined, disowned>>
taskVars   == <<pc, todo, cur, outcome, next>>
uiVars     == <<ui, toAdd, forRestart, settled, requests>>

vars == <<state, stateOwner, lockCount, lockHeld, abort, inProgress, infinite, failCount,
          clearCancel, connectCam, queue, targets, zombies, pastDeadline, generation,
          camOf, tgtTask, told, client, stray, connected, token, declined, disowned,
          pc, todo, cur, outcome, next, ui, toAdd, forRestart, settled, requests>>

(***************************************************************************)
(* Program points.  AttemptPCs is the part of the connect pass in which    *)
(* the control task is committed to one camera.                            *)
(***************************************************************************)
AttemptPCs == {"publishCam", "enter", "attempt", "unpublishCam"}
PassPCs    == {"begin", "each", "finish", "retry", "publish"} \cup AttemptPCs
TaskPCs    == {"reap", "retire", "retired", "receive", "toConnect", "gate",
               "toConnecting", "active", "dropped"} \cup PassPCs

TeardownPCs == {"toDisconnecting", "cancel", "wait", "drain", "toIdle", "wake"}
UiPCs       == {"idle", "adding", "disarm", "send", "halted"} \cup TeardownPCs

Init ==
  /\ state = "IDLE" /\ stateOwner = "nobody"
  /\ lockCount = 0 /\ lockHeld = FALSE
  /\ abort = FALSE /\ inProgress = FALSE /\ infinite = FALSE
  /\ failCount = 0 /\ clearCancel = FALSE /\ connectCam = NoCamera
  /\ queue = <<>>
  /\ targets = {} /\ zombies = {} /\ pastDeadline = TRUE /\ generation = 0
  /\ camOf = [t \in Targets |-> NoCamera]
  /\ tgtTask = [t \in Targets |-> "none"]
  /\ told = {}
  /\ client = [c \in Cameras |-> "none"]
  /\ stray = {}
  /\ connected = [c \in Cameras |-> FALSE]
  /\ token = [c \in Cameras |-> FALSE]
  /\ declined = [c \in Cameras |-> FALSE]
  /\ disowned = {}
  /\ pc = "reap" /\ todo = {} /\ cur = NoCamera
  /\ outcome = "ok" /\ next = "IDLE"
  /\ ui = "idle" /\ toAdd = {} /\ forRestart = FALSE /\ settled = FALSE
  /\ requests = 0

-----------------------------------------------------------------------------
(***************************************************************************)
(* setState(): one mutex-protected call in two steps.  The lock is taken   *)
(* before m_State is stored and released after it; a thread that has a     *)
(* release to do owns m_StateMutex until Settle.                           *)
(***************************************************************************)
Holds(s) == s = "ACTIVE" /\ ~SleepConn

\* Faulty: releases the lock on DISCONNECTING only.
SetStateReleasingLate(who, s) ==
  /\ stateOwner = "nobody"
  /\ state' = s
  /\ lockCount' = IF Holds(s) /\ ~lockHeld THEN lockCount + 1 ELSE lockCount
  /\ lockHeld' = (lockHeld \/ Holds(s))
  /\ stateOwner' = IF lockHeld /\ s = "DISCONNECTING" THEN who ELSE "nobody"

SetState(who, s) ==
  /\ stateOwner = "nobody"
  /\ state' = s
  /\ IF s = state
     THEN UNCHANGED <<stateOwner, lockCount, lockHeld>>
     ELSE /\ lockCount' = IF Holds(s) /\ ~lockHeld THEN lockCount + 1 ELSE lockCount
          /\ lockHeld' = (lockHeld \/ Holds(s))
          /\ stateOwner' = IF lockHeld /\ ~Holds(s) THEN who ELSE "nobody"

Settle(who) ==
  /\ stateOwner = who
  /\ stateOwner' = "nobody"
  /\ lockCount' = lockCount - 1
  /\ lockHeld' = FALSE
  /\ UNCHANGED <<state, flagVars, connVars, queue, ownVars, targetVars, cameraVars,
                 taskVars, uiVars>>

TaskAt(l) == pc = l /\ stateOwner # "control"
UiAt(l)   == ui = l /\ stateOwner # "caller"

\* A send without a wait: a full queue drops the command.
Sent(c) == IF Len(queue) < QueueLength THEN Append(queue, c) ELSE queue

Stopped(t) == tgtTask[t] = "stopped"   \* Target::m_Stopped

\* m_ConnectAbort, or a teardown that has published its state.
Aborted == abort \/ state = "DISCONNECTING"

\* Control::allConnected()
AllConnected(ts) ==
  /\ \A t \in ts : declined[camOf[t]] \/ connected[camOf[t]]
  /\ \E t \in ts : ~declined[camOf[t]]

-----------------------------------------------------------------------------
(***************************************************************************)
(* retireCancelledTargetsLocked(): a target whose pairing was declined is  *)
(* told to stop and moved to the drain; the last one ends the session.     *)
(***************************************************************************)
DeclinedTargets == {t \in targets : declined[camOf[t]]}
RetireEnds      == DeclinedTargets # {} /\ DeclinedTargets = targets

\* Faulty: moves the target without sending CMD_DISCONNECT.
RetireUntold ==
  /\ targets' = targets \ DeclinedTargets
  /\ zombies' = zombies \cup DeclinedTargets
  /\ pastDeadline' = (pastDeadline /\ DeclinedTargets = {})
  /\ generation' = IF RetireEnds THEN generation + 1 ELSE generation
  /\ UNCHANGED <<camOf, tgtTask, told>>

RetireDeclined ==
  /\ targets' = targets \ DeclinedTargets
  /\ zombies' = zombies \cup DeclinedTargets
  /\ told' = told \cup {t \in DeclinedTargets : tgtTask[t] = "wait"}
  /\ pastDeadline' = (pastDeadline /\ DeclinedTargets = {})
  /\ generation' = IF RetireEnds THEN generation + 1 ELSE generation
  /\ UNCHANGED <<camOf, tgtTask>>

(***************************************************************************)
(* reapZombieTargets(): a stopped target is freed once its camera reads    *)
(* disconnected, or past the deadline after its client was reclaimed.      *)
(***************************************************************************)
\* Freeing a target deletes the object; a task that still runs stays.
FreeTargets(ts) ==
  /\ camOf' = [t \in Targets |-> IF t \in ts THEN NoCamera ELSE camOf[t]]
  /\ tgtTask' = [t \in Targets |-> IF t \in ts /\ Stopped(t) THEN "none" ELSE tgtTask[t]]

\* Faulty: no deadline for a terminate that never completes.
ReapableWhenDown == {t \in zombies : Stopped(t) /\ ~connected[camOf[t]]}

Reapable == {t \in zombies : Stopped(t) /\ (connected[camOf[t]] => pastDeadline)}

\* Faulty: frees the target past the deadline and leaves its client.
ReclaimedNever == {}

\* Cameras whose client the reaper frees in place of the stalled terminate.
Reclaimed == {camOf[t] : t \in {z \in Reapable : connected[camOf[z]]}}

Reap ==
  /\ TaskAt("reap")
  /\ zombies' = zombies \ Reapable
  /\ FreeTargets(Reapable)
  /\ client' = [c \in Cameras |-> IF c \in Reclaimed THEN "none" ELSE client[c]]
  /\ connected' = [c \in Cameras |-> connected[c] /\ c \notin Reclaimed]
  /\ \E pending \in SUBSET (Reclaimed \cap Declining) :   \* clearPairingRequest(true)
       declined' = [c \in Cameras |-> declined[c] \/ c \in pending]
  /\ pc' = "retire"
  /\ UNCHANGED <<stateVars, flagVars, connVars, queue, targets, pastDeadline, generation,
                 told, stray, token, disowned, todo, cur, outcome, next, uiVars>>

\* The top of the loop in Control::task().
Retire ==
  /\ TaskAt("retire")
  /\ RetireDeclined
  /\ failCount' = IF RetireEnds THEN 0 ELSE failCount
  /\ pc' = IF RetireEnds /\ state # "DISCONNECTING" THEN "retired" ELSE "receive"
  /\ UNCHANGED <<stateVars, flagVars, inProgress, connectCam, queue, cameraVars,
                 todo, cur, outcome, next, uiVars>>

PublishRetired ==
  /\ TaskAt("retired")
  /\ SetState("control", "IDLE")
  /\ pc' = "receive"
  /\ UNCHANGED <<flagVars, connVars, queue, ownVars, targetVars, cameraVars,
                 todo, cur, outcome, next, uiVars>>

\* xQueueReceive with its 250 ms tick (CMD_ERROR), and the one read of m_State
\* that decides what is done next.
Receive ==
  /\ TaskAt("receive")
  /\ queue' = IF queue = <<>> THEN queue ELSE Tail(queue)
  /\ LET connect == queue # <<>> /\ Head(queue) = "CMD_CONNECT"
     IN \/ state = "IDLE" /\ connect /\ pc' = "toConnect"
        \/ state = "CONNECT" /\ pc' = "gate"
        \/ state = "ACTIVE" /\ pc' = "active"
        \/ (state = "IDLE" => ~connect) /\ state \notin {"CONNECT", "ACTIVE"} /\ pc' = "reap"
  /\ UNCHANGED <<stateVars, flagVars, connVars, ownVars, targetVars, cameraVars,
                 todo, cur, outcome, next, uiVars>>

PublishConnect ==
  /\ TaskAt("toConnect") \/ TaskAt("dropped")
  /\ SetState("control", "CONNECT")
  /\ pc' = "reap"
  /\ UNCHANGED <<flagVars, connVars, queue, ownVars, targetVars, cameraVars,
                 todo, cur, outcome, next, uiVars>>

\* STATE_ACTIVE: a lost link sends the session back through a connect pass.
CheckActive ==
  /\ TaskAt("active")
  /\ pc' = IF AllConnected(targets) THEN "reap" ELSE "dropped"
  /\ UNCHANGED <<stateVars, flagVars, connVars, queue, ownVars, targetVars, cameraVars,
                 todo, cur, outcome, next, uiVars>>

\* teardownDraining() holds the connect gate.
Gate ==
  /\ TaskAt("gate")
  /\ pc' = IF zombies # {} THEN "reap" ELSE "toConnecting"
  /\ UNCHANGED <<stateVars, flagVars, connVars, queue, ownVars, targetVars, cameraVars,
                 todo, cur, outcome, next, uiVars>>

PublishConnecting ==
  /\ TaskAt("toConnecting")
  /\ SetState("control", "CONNECTING")
  /\ pc' = "begin"
  /\ UNCHANGED <<flagVars, connVars, queue, ownVars, targetVars, cameraVars,
                 todo, cur, outcome, next, uiVars>>

-----------------------------------------------------------------------------
(***************************************************************************)
(* connectAll(): one connect pass on the control task.                     *)
(***************************************************************************)
\* A pass that returns STATE_DISCONNECTING leaves the state to the teardown that
\* aborted it; any other result is published by task().
Returns(s) ==
  /\ next' = IF s = "DISCONNECTING" THEN "IDLE" ELSE s
  /\ pc' = IF s = "DISCONNECTING" THEN "reap" ELSE "publish"
  /\ outcome' = "ok"

\* Retire, consume the re-arm request, snapshot the cameras to connect.
BeginPass ==
  LET held == {camOf[t] : t \in targets \ DeclinedTargets}
  IN /\ TaskAt("begin")
     /\ RetireDeclined
     /\ failCount' = IF RetireEnds \/ clearCancel THEN 0 ELSE failCount
     /\ token' = [c \in Cameras |-> token[c] /\ ~(clearCancel /\ c \in held)]
     /\ clearCancel' = FALSE
     /\ \/ /\ held = {}
           /\ Returns(IF Aborted THEN "DISCONNECTING" ELSE "IDLE")
           /\ UNCHANGED <<inProgress, todo>>
        \/ /\ held # {}
           /\ inProgress' = TRUE
           /\ todo' = {c \in held : ~connected[c]}
           /\ pc' = "each"
           /\ UNCHANGED <<outcome, next>>
     /\ UNCHANGED <<stateVars, abort, infinite, connectCam, queue,
                    client, stray, connected, declined, disowned, cur, uiVars>>

NextCamera ==
  /\ TaskAt("each")
  /\ IF abort \/ todo = {}
     THEN pc' = "finish" /\ todo' = {} /\ UNCHANGED cur
     ELSE \E c \in todo : cur' = c /\ todo' = todo \ {c} /\ pc' = "publishCam"
  /\ UNCHANGED <<stateVars, flagVars, connVars, queue, ownVars, targetVars, cameraVars,
                 outcome, next, uiVars>>

PublishCamera ==
  /\ TaskAt("publishCam")
  /\ connectCam' = cur
  /\ pc' = "enter"
  /\ UNCHANGED <<stateVars, flagVars, inProgress, failCount, queue, ownVars, targetVars,
                 cameraVars, todo, cur, outcome, next, uiVars>>

\* Camera::connect() takes the camera's mutex and creates a client.
EnterConnect ==
  /\ TaskAt("enter")
  /\ stray' = IF client[cur] = "none" THEN stray ELSE stray \cup {cur}
  /\ disowned' = disowned \ {cur}
  /\ client' = [client EXCEPT ![cur] = "dialing"]
  /\ pc' = "attempt"
  /\ UNCHANGED <<stateVars, flagVars, connVars, queue, ownVars, targetVars, connected,
                 token, declined, todo, cur, outcome, next, uiVars>>

\* _connect() succeeded: the client owns itself from here.  connect() returns
\* m_Connected, which a disconnect event can have cleared meanwhile.
ConnectSucceeds ==
  /\ TaskAt("attempt")
  /\ client[cur] = "up"
  /\ client' = [client EXCEPT ![cur] = "live"]
  /\ outcome' = IF connected[cur] THEN "ok" ELSE "failed"
  /\ pc' = "unpublishCam"
  /\ UNCHANGED <<stateVars, flagVars, connVars, queue, ownVars, targetVars, stray, connected,
                 token, declined, disowned, todo, cur, next, uiVars>>

\* _connect() failed or was cancelled.  The camera forgets the client; one
\* whose link reads up may still be closing, with its callback armed.
ConnectFails ==
  /\ TaskAt("attempt")
  /\ client' = [client EXCEPT ![cur] = "none"]
  /\ stray' \in {stray} \cup {stray \cup {c} : c \in {x \in {cur} : connected[x]}}
  /\ connected' = [connected EXCEPT ![cur] = FALSE]
  /\ outcome' \in {"failed", "repair"}
  /\ pc' = "unpublishCam"
  /\ UNCHANGED <<stateVars, flagVars, connVars, queue, ownVars, targetVars,
                 token, declined, disowned, todo, cur, next, uiVars>>

Capped(n) == IF n < 2 THEN n ELSE 2

UnpublishCamera ==
  /\ TaskAt("unpublishCam")
  /\ connectCam' = NoCamera /\ cur' = NoCamera
  /\ IF outcome = "ok" \/ declined[cur]
     THEN /\ pc' = "each" /\ outcome' = "ok"
          /\ UNCHANGED <<failCount, todo>>
     ELSE /\ pc' = "finish" /\ todo' = {}
          /\ failCount' = Capped(failCount + 1)
          /\ UNCHANGED outcome
  /\ UNCHANGED <<stateVars, flagVars, inProgress, queue, ownVars, targetVars, cameraVars,
                 next, uiVars>>

\* The verdict taken under m_Mutex once every camera was tried.
FinishPass ==
  /\ TaskAt("finish")
  /\ inProgress' = FALSE
  /\ \/ /\ Aborted
        /\ connectCam' = NoCamera
        /\ Returns("DISCONNECTING")
        /\ UNCHANGED <<ownVars, targetVars, failCount>>
     \/ /\ ~Aborted
        /\ RetireDeclined
        /\ IF RetireEnds \/ AllConnected(targets \ DeclinedTargets)
           THEN failCount' = 0 /\ Returns(IF RetireEnds THEN "IDLE" ELSE "ACTIVE")
           ELSE pc' = "retry" /\ UNCHANGED <<failCount, outcome, next>>
        /\ UNCHANGED connectCam
  /\ UNCHANGED <<stateVars, flagVars, queue, cameraVars, todo, cur, uiVars>>

\* Repair ends the cycle; otherwise wait and try again within the budget.
RetryOrFail ==
  /\ TaskAt("retry")
  /\ IF outcome # "repair" /\ (infinite \/ failCount < 2)
     THEN Returns(IF Aborted THEN "DISCONNECTING" ELSE "CONNECT")
     ELSE Returns("CONNECT_FAILED")
  /\ UNCHANGED <<stateVars, flagVars, connVars, queue, ownVars, targetVars, cameraVars,
                 todo, cur, uiVars>>

PublishPass ==
  /\ TaskAt("publish")
  /\ SetState("control", next)
  /\ next' = "IDLE"
  /\ pc' = "reap"
  /\ UNCHANGED <<flagVars, connVars, queue, ownVars, targetVars, cameraVars,
                 todo, cur, outcome, uiVars>>

-----------------------------------------------------------------------------
(***************************************************************************)
(* The target task.  Camera::disconnect() takes the camera's mutex, which  *)
(* an attempt on that camera holds until connect() returns.                *)
(***************************************************************************)
Attempting(c) == pc = "attempt" /\ cur = c

TargetDisconnect(t) ==
  LET c == camOf[t] IN
  /\ tgtTask[t] = "wait" /\ t \in told
  /\ ~Attempting(c)
  /\ told' = told \ {t}
  /\ client' = [client EXCEPT ![c] = IF connected[c] /\ @ = "live" THEN "closing" ELSE @]
  /\ tgtTask' = [tgtTask EXCEPT ![t] = "exiting"]
  /\ UNCHANGED <<stateVars, flagVars, connVars, queue, ownVars, camOf, stray, connected,
                 token, declined, disowned, taskVars, uiVars>>

TargetStops(t) ==
  /\ tgtTask[t] = "exiting"
  /\ tgtTask' = [tgtTask EXCEPT ![t] = "stopped"]
  /\ UNCHANGED <<stateVars, flagVars, connVars, queue, ownVars, camOf, told, cameraVars,
                 taskVars, uiVars>>

(***************************************************************************)
(* The radio.  The NimBLE host refuses a second link to a peer it still    *)
(* holds one to, so a link comes up only once the stray one is gone.       *)
(***************************************************************************)
\* A pairing request still pending when its link goes is recorded as declined.
Abandoned(c) ==
  \E pending \in BOOLEAN :
    /\ pending => c \in Declining
    /\ declined' = [declined EXCEPT ![c] = @ \/ pending]

LinkUp(c) ==
  /\ Attempting(c) /\ client[c] = "dialing" /\ c \notin stray
  /\ client' = [client EXCEPT ![c] = "up"]
  /\ connected' = [connected EXCEPT ![c] = TRUE]
  /\ UNCHANGED <<stateVars, flagVars, connVars, queue, ownVars, targetVars, stray, token,
                 declined, disowned, taskVars, uiVars>>

\* onDisconnect()
LinkLost(c) ==
  /\ client[c] \in {"up", "live", "closing"}
  /\ client' = [client EXCEPT ![c] = IF @ = "up" THEN "dialing" ELSE "none"]
  /\ connected' = [connected EXCEPT ![c] = FALSE]
  /\ disowned' = disowned \ {c}
  /\ Abandoned(c)
  /\ UNCHANGED <<stateVars, flagVars, connVars, queue, ownVars, targetVars, stray, token,
                 taskVars, uiVars>>

StrayLost(c) ==
  /\ c \in stray
  /\ stray' = stray \ {c}
  /\ connected' = [connected EXCEPT ![c] = FALSE]
  /\ Abandoned(c)
  /\ UNCHANGED <<stateVars, flagVars, connVars, queue, ownVars, targetVars, client, token,
                 disowned, taskVars, uiVars>>

\* The user declines the pairing request the link has raised.
DeclinePairing(c) ==
  /\ client[c] \in {"up", "live"} /\ c \in Declining \ {x \in Cameras : declined[x]}
  /\ declined' = [declined EXCEPT ![c] = TRUE]
  /\ UNCHANGED <<stateVars, flagVars, connVars, queue, ownVars, targetVars, client, stray,
                 connected, token, disowned, taskVars, uiVars>>

DeadlinePasses ==
  /\ ~pastDeadline /\ zombies # {}
  /\ pastDeadline' = TRUE
  /\ UNCHANGED <<stateVars, flagVars, connVars, queue, targets, zombies, generation,
                 targetVars, cameraVars, taskVars, uiVars>>

-----------------------------------------------------------------------------
(***************************************************************************)
(* The caller: addActive() for each selected camera, then connectAll().    *)
(***************************************************************************)
RequestConnect ==
  /\ UiAt("idle") /\ requests < MaxRequests
  /\ requests' = requests + 1
  /\ toAdd' \in SUBSET Cameras
  /\ ui' = "adding"
  /\ UNCHANGED <<stateVars, flagVars, connVars, queue, ownVars, targetVars, cameraVars,
                 taskVars, forRestart, settled>>

\* A camera with a target is skipped; xTaskCreate can fail for any other, and
\* the camera is reset whether or not its task comes up.
AddActive(c) ==
  /\ UiAt("adding") /\ c \in toAdd
  /\ toAdd' = toAdd \ {c}
  /\ IF \E t \in targets : camOf[t] = c
     THEN UNCHANGED <<targets, camOf, tgtTask, connected, declined, disowned>>
     ELSE /\ connected' = [connected EXCEPT ![c] = FALSE]
          /\ disowned' = disowned \cup {x \in {c} : connected[x]}
          /\ declined' = [declined EXCEPT ![c] = FALSE]
          /\ \/ \E t \in Targets :
                  /\ tgtTask[t] = "none"
                  /\ targets' = targets \cup {t}
                  /\ camOf' = [camOf EXCEPT ![t] = c]
                  /\ tgtTask' = [tgtTask EXCEPT ![t] = "wait"]
             \/ UNCHANGED <<targets, camOf, tgtTask>>
  /\ UNCHANGED <<stateVars, flagVars, connVars, queue, zombies, pastDeadline, generation,
                 told, client, stray, token, taskVars, ui, forRestart, settled, requests>>

\* Faulty: connectAll(bool) clears the cancel tokens itself.
ArmConnectAtOnce ==
  /\ UiAt("adding") /\ toAdd = {}
  /\ token' = [c \in Cameras |-> token[c] /\ \A t \in targets : camOf[t] # c]
  /\ ui' = "disarm"
  /\ UNCHANGED <<stateVars, flagVars, connVars, queue, ownVars, targetVars, client, stray,
                 connected, declined, disowned, taskVars, toAdd, forRestart, settled,
                 requests>>

\* connectAll(bool) asks for the re-arm under m_Mutex ...
ArmConnect ==
  /\ UiAt("adding") /\ toAdd = {}
  /\ clearCancel' = TRUE
  /\ ui' = "disarm"
  /\ UNCHANGED <<stateVars, abort, infinite, connVars, queue, ownVars, targetVars,
                 cameraVars, taskVars, toAdd, forRestart, settled, requests>>

\* ... then stores the flags of the cycle, the abort flag last ...
DisarmAbort ==
  /\ UiAt("disarm")
  /\ infinite' \in InfiniteModes
  /\ abort' = FALSE
  /\ settled' = FALSE
  /\ ui' = "send"
  /\ UNCHANGED <<stateVars, clearCancel, connVars, queue, ownVars, targetVars, cameraVars,
                 taskVars, toAdd, forRestart, requests>>

\* ... and sends the command.
SendConnect ==
  /\ UiAt("send")
  /\ queue' = Sent("CMD_CONNECT")
  /\ ui' = "idle"
  /\ UNCHANGED <<stateVars, flagVars, connVars, ownVars, targetVars, cameraVars, taskVars,
                 toAdd, forRestart, settled, requests>>

-----------------------------------------------------------------------------
(***************************************************************************)
(* The caller: disconnect(), interactive or ahead of esp_restart().        *)
(***************************************************************************)
RequestDisconnect ==
  /\ UiAt("idle") /\ requests < MaxRequests
  /\ requests' = requests + 1
  /\ abort' = TRUE
  /\ forRestart' \in Restarts
  /\ settled' = FALSE
  /\ ui' = "toDisconnecting"
  /\ UNCHANGED <<stateVars, infinite, clearCancel, connVars, queue, ownVars, targetVars,
                 cameraVars, taskVars, toAdd>>

PublishDisconnecting ==
  /\ UiAt("toDisconnecting")
  /\ SetState("caller", "DISCONNECTING")
  /\ ui' = "cancel"
  /\ UNCHANGED <<flagVars, connVars, queue, ownVars, targetVars, cameraVars, taskVars,
                 toAdd, forRestart, settled, requests>>

\* Faulty: cancels the attempt in flight only, not the one about to begin.
CancelledInFlight == {connectCam} \ {NoCamera}

\* Every camera this session still owns, whether or not it has a target left.
Cancelled == {camOf[t] : t \in targets \cup zombies} \cup ({connectCam} \ {NoCamera})

\* Faulty: waits without telling anyone.
DismissedNone == {}

\* Targets whose task will receive the CMD_DISCONNECT sent to them.
Dismissed == {t \in targets : tgtTask[t] = "wait"}

\* abortBlockingConnect() only hastens what LinkLost may do anyway.
CancelAll ==
  /\ UiAt("cancel")
  /\ clearCancel' = FALSE
  /\ token' = [c \in Cameras |-> token[c] \/ c \in Cancelled]
  /\ told' = told \cup Dismissed
  /\ ui' = "wait"
  /\ UNCHANGED <<stateVars, abort, infinite, connVars, queue, ownVars, camOf, tgtTask,
                 client, stray, connected, declined, disowned, taskVars, toAdd, forRestart,
                 settled, requests>>

\* Faulty: does not wait for the connect pass.
SettledTargetsOnly == \A t \in targets : Stopped(t)

\* targetTasksStopped(), and what disconnectComplete() adds ahead of a restart.
TeardownSettled ==
  /\ \A t \in targets : Stopped(t)
  /\ ~inProgress
  /\ forRestart => \A t \in targets : ~connected[camOf[t]]

TeardownSettles ==
  /\ UiAt("wait")
  /\ TeardownSettled
  /\ settled' = TRUE
  /\ ui' = "drain"
  /\ UNCHANGED <<stateVars, flagVars, connVars, queue, ownVars, targetVars, cameraVars,
                 taskVars, toAdd, forRestart, requests>>

TeardownTimesOut ==
  /\ UiAt("wait")
  /\ ui' = "drain"
  /\ UNCHANGED <<stateVars, flagVars, connVars, queue, ownVars, targetVars, cameraVars,
                 taskVars, toAdd, forRestart, settled, requests>>

\* Faulty: a restart frees every target, stopped or not.
DrainedOnlyWhenInteractive == IF forRestart THEN {} ELSE targets

\* Interactive: every target drains.  Restart: only a target whose task still
\* runs is kept, the others are freed here.
Drained == IF forRestart THEN {t \in targets : ~settled /\ ~Stopped(t)} ELSE targets

\* Faulty: counts a teardown without a session.
GenerationAlways == generation + 1

\* m_SessionGeneration moves on when a session with targets ends.
NextGeneration == IF targets # {} THEN generation + 1 ELSE generation

DrainTargets ==
  /\ UiAt("drain")
  /\ zombies' = zombies \cup Drained
  /\ FreeTargets(targets \ Drained)
  /\ told' = told \ (targets \ Drained)
  /\ pastDeadline' = (pastDeadline /\ forRestart /\ settled)
  /\ generation' = NextGeneration
  /\ targets' = {}
  /\ connectCam' = NoCamera
  /\ ui' = "toIdle"
  /\ UNCHANGED <<stateVars, flagVars, inProgress, failCount, queue, cameraVars,
                 taskVars, toAdd, forRestart, settled, requests>>

PublishIdle ==
  /\ UiAt("toIdle")
  /\ SetState("caller", "IDLE")
  /\ ui' = IF forRestart THEN "halted" ELSE "wake"
  /\ UNCHANGED <<flagVars, connVars, queue, ownVars, targetVars, cameraVars, taskVars,
                 toAdd, forRestart, settled, requests>>

\* Wake the control task so that it reaps the drain now.
WakeControl ==
  /\ UiAt("wake")
  /\ queue' = Sent("CMD_ERROR")
  /\ ui' = "idle"
  /\ UNCHANGED <<stateVars, flagVars, connVars, ownVars, targetVars, cameraVars, taskVars,
                 toAdd, forRestart, settled, requests>>

-----------------------------------------------------------------------------
ConnectEnds == ConnectSucceeds \/ ConnectFails

Task ==
  \/ Reap \/ Retire \/ PublishRetired \/ Receive \/ PublishConnect
  \/ CheckActive \/ Gate \/ PublishConnecting
  \/ BeginPass \/ NextCamera \/ PublishCamera \/ EnterConnect \/ ConnectEnds
  \/ UnpublishCamera \/ FinishPass \/ RetryOrFail \/ PublishPass
  \/ Settle("control")

TargetTask(t) == TargetDisconnect(t) \/ TargetStops(t)

Radio(c) == LinkUp(c) \/ LinkLost(c) \/ StrayLost(c) \/ DeclinePairing(c)

ConnectCaller ==
  \/ RequestConnect \/ ArmConnect \/ DisarmAbort \/ SendConnect
  \/ \E c \in Cameras : AddActive(c)

\* The teardown short of its time cap.
Teardown ==
  \/ PublishDisconnecting \/ CancelAll \/ TeardownSettles \/ DrainTargets
  \/ PublishIdle \/ WakeControl \/ Settle("caller")

Next ==
  \/ Task
  \/ \E t \in Targets : TargetTask(t)
  \/ \E c \in Cameras : Radio(c)
  \/ DeadlinePasses
  \/ ConnectCaller \/ RequestDisconnect \/ Teardown \/ TeardownTimesOut

Spec == Init /\ [][Next]_vars

(***************************************************************************)
(* Every task is scheduled and every attempt ends within its vendor        *)
(* timeouts.  Nothing is assumed of the user, of the peer, or of the time  *)
(* cap of a teardown.                                                      *)
(***************************************************************************)
Fairness ==
  /\ WF_vars(Task)
  /\ \A t \in Targets : WF_vars(TargetTask(t))
  /\ WF_vars(DeadlinePasses)
  /\ WF_vars(Teardown)

FairSpec == Spec /\ Fairness

-----------------------------------------------------------------------------
StateTypeOK ==
  /\ state \in States /\ stateOwner \in {"nobody", "control", "caller"}
  /\ lockCount \in Int /\ lockHeld \in BOOLEAN

FlagTypeOK ==
  /\ abort \in BOOLEAN /\ inProgress \in BOOLEAN /\ infinite \in BOOLEAN
  /\ failCount \in 0..2 /\ clearCancel \in BOOLEAN
  /\ connectCam \in Cameras \cup {NoCamera}

QueueTypeOK == queue \in Seq(Commands) /\ Len(queue) <= QueueLength

TargetTypeOK ==
  /\ targets \subseteq Targets /\ zombies \subseteq Targets /\ told \subseteq Targets
  /\ pastDeadline \in BOOLEAN /\ generation \in Nat
  /\ camOf \in [Targets -> Cameras \cup {NoCamera}]
  /\ tgtTask \in [Targets -> {"none", "wait", "exiting", "stopped"}]

CameraTypeOK ==
  /\ client \in [Cameras -> {"none", "dialing", "up", "live", "closing"}]
  /\ stray \subseteq Cameras
  /\ connected \in [Cameras -> BOOLEAN] /\ token \in [Cameras -> BOOLEAN]
  /\ declined \in [Cameras -> BOOLEAN] /\ disowned \subseteq Cameras

TaskTypeOK ==
  /\ pc \in TaskPCs /\ todo \subseteq Cameras /\ cur \in Cameras \cup {NoCamera}
  /\ pc \in AttemptPCs => cur \in Cameras
  /\ outcome \in {"ok", "failed", "repair"} /\ next \in States

CallerTypeOK ==
  /\ ui \in UiPCs /\ toAdd \subseteq Cameras
  /\ forRestart \in BOOLEAN /\ settled \in BOOLEAN
  /\ requests \in 0..MaxRequests

\* Every field keeps its type; the command queue never outgrows its length.
TypeOK ==
  /\ StateTypeOK /\ FlagTypeOK /\ QueueTypeOK /\ TargetTypeOK
  /\ CameraTypeOK /\ TaskTypeOK /\ CallerTypeOK

(***************************************************************************)
(* Safety.                                                                 *)
(***************************************************************************)
Running(t) == tgtTask[t] \in {"wait", "exiting"}

\* A Target object is never freed while its task can still touch it, whichever
\* of the reaper and the two teardown paths frees it (the use-after-free that
\* m_ZombieTargets exists to prevent).
TargetAlive == \A t \in Targets : Running(t) => t \in targets \cup zombies

\* CMD_DISCONNECT is never lost: a draining target whose task still waits, and
\* every target a teardown waits for, has it in its queue.
ToldToStop ==
  \A t \in Targets :
    /\ tgtTask[t] = "wait"
    /\ t \in zombies \/ (t \in targets /\ ui \in {"wait", "drain"})
    => t \in told

\* The sleep lock is held whenever an observer can read STATE_ACTIVE and the
\* user asked the device to stay awake, and once setState() has returned it is
\* held for no other state: neither leaked nor released twice.
AwakeWhileActive ==
  /\ state = "ACTIVE" /\ ~SleepConn => lockCount = 1
  /\ stateOwner = "nobody" => lockCount = IF state = "ACTIVE" /\ ~SleepConn THEN 1 ELSE 0

\* From the moment disconnect() has walked its targets until it stops waiting,
\* an attempt that connect() is executing carries the cancel token, even one
\* that the teardown before gave up waiting for and whose session is over.
AttemptsAreCancelled ==
  ui \in {"wait", "drain"} /\ pc \in {"enter", "attempt"} => token[cur]

\* disconnect() that returned without hitting its time cap leaves no attempt
\* behind, until the caller starts another connect cycle.
SettledIsQuiet == settled => pc \notin AttemptPCs

\* A camera's client, whatever m_Connected says of it, belongs to someone who will
\* take its link down: an attempt, or a target that is active or draining.  There
\* are two exceptions.  A restart that ran out of time abandons links to the reset
\* that follows; and addActive() of a camera that still drains makes it forget a
\* link that is up, so that the drain lets it go (FurbleControl.cpp:1243).
LinkHasOwner ==
  \A c \in Cameras :
    client[c] # "none" => \/ Attempting(c)
                          \/ \E t \in targets \cup zombies : camOf[t] = c
                          \/ forRestart /\ ui \in {"toIdle", "halted"}
                          \/ c \in disowned

\* No step clears the cancel token of an attempt connect() is executing: a
\* cancelled attempt stays cancelled until it returns.
CancelSticks ==
  [][pc = "attempt" /\ token[cur] => token'[cur] \/ pc' # "attempt"]_vars

\* The lifetime of the targets, as Session specifies it.
Lifetime == INSTANCE Session WITH
       members    <- targets,
       draining   <- zombies,
       running    <- {t \in Targets : Running(t)},
       told       <- told \cup {t \in Targets : tgtTask[t] = "exiting"}

\* Control implements Session: whoever ends a session, and however, its targets
\* drain before they are freed, and the generation counts the sessions.
SessionSpec == Lifetime!Spec

(***************************************************************************)
(* Liveness.                                                               *)
(***************************************************************************)
\* An interactive teardown stops waiting on its own: targets, attempts and
\* mutexes never wait for each other in a circle.
TeardownReturns == ui = "wait" /\ ~forRestart ~> ui # "wait"

\* The drain that gates STATE_CONNECT empties.
GateOpens == zombies # {} ~> zombies = {}

(***************************************************************************)
(* What documents say of the program, and it does not do.                  *)
(***************************************************************************)
\* STATE_CONNECTING means connectAll() runs on the control task; while it does
\* not, and no teardown is there to move the state on, the machine is stuck.
ConnectingIsRunning ==
  state = "CONNECTING" /\ ui \notin TeardownPCs => pc \in PassPCs
==============================================================================
