----------------------------- MODULE ControlProof -----------------------------
(***************************************************************************)
(* What holds of Control for every number of cameras, targets, queue slots *)
(* and requests: the types, the lifetime of the targets, the sleep lock,   *)
(* that Control implements Session, and what becomes of its attempts.      *)
(***************************************************************************)
EXTENDS Control, TLAPS

(***************************************************************************)
(* The inductive invariant.  That no running target is freed is not        *)
(* inductive by itself: the teardown ahead of a restart frees the targets  *)
(* it saw stop, and the reaper frees what CMD_DISCONNECT stopped.          *)
(***************************************************************************)
Waiting == {t \in Targets : tgtTask[t] = "wait"}

LifetimeInv ==
  /\ \A t \in Targets : tgtTask[t] = "none" <=> t \notin targets \cup zombies
  /\ targets \cap zombies = {}
  /\ \A t \in targets \cup zombies : camOf[t] \in Cameras
  /\ told \subseteq Waiting
  /\ zombies \cap Waiting \subseteq told
  /\ ui \in {"wait", "drain"} => targets \cap Waiting \subseteq told
  /\ settled => ui \notin {"toDisconnecting", "cancel", "wait"}
  /\ settled /\ ui = "drain" => \A t \in targets : Stopped(t)

SleepLockInv ==
  /\ lockCount = IF lockHeld THEN 1 ELSE 0
  /\ stateOwner = "nobody" => lockHeld = Holds(state)
  /\ stateOwner # "nobody" => lockHeld /\ ~Holds(state)

IInv == TypeOK /\ LifetimeInv /\ SleepLockInv

-----------------------------------------------------------------------------
(***************************************************************************)
(* The operators shared by the actions.                                    *)
(***************************************************************************)
LEMMA SetStateTypes ==
  ASSUME StateTypeOK, NEW who \in {"control", "caller"}, NEW s \in States, SetState(who, s)
  PROVE  StateTypeOK'
<1>1. lockHeld' \in BOOLEAN
  BY Zenon DEF StateTypeOK, SetState
<1>2. state' \in States /\ stateOwner' \in {"nobody", "control", "caller"}
  BY Zenon DEF StateTypeOK, SetState
<1>3. lockCount' \in Int
  <2>1. lockCount' \in {lockCount, lockCount + 1}
    BY Zenon DEF SetState
  <2> QED BY <2>1 DEF StateTypeOK
<1> QED BY <1>1, <1>2, <1>3, Zenon DEF StateTypeOK

LEMMA SetStateLocks ==
  ASSUME StateTypeOK, SleepLockInv, NEW who \in {"control", "caller"}, NEW s \in States,
         SetState(who, s)
  PROVE  SleepLockInv'
<1>1. CASE s = state
  BY <1>1 DEF SetState, SleepLockInv
<1>2. CASE s # state
  <2>1. lockHeld \/ ~lockHeld
    OBVIOUS
  <2>2. /\ state' = s /\ stateOwner = "nobody"
        /\ lockHeld = Holds(state) /\ lockCount = IF lockHeld THEN 1 ELSE 0
        /\ lockHeld' = (lockHeld \/ Holds(s))
        /\ lockCount' = IF Holds(s) /\ ~lockHeld THEN lockCount + 1 ELSE lockCount
        /\ stateOwner' = IF lockHeld /\ ~Holds(s) THEN who ELSE "nobody"
    BY <1>2, Zenon DEF SetState, SleepLockInv
  <2>3. CASE lockHeld
    <3>1. lockCount' = 1 /\ lockHeld'
      BY <2>2, <2>3
    <3>2. stateOwner' = "nobody" => Holds(s)
      BY <2>2, <2>3
    <3>3. stateOwner' # "nobody" => ~Holds(s)
      BY <2>2, <2>3
    <3> QED BY <2>2, <3>1, <3>2, <3>3 DEF SleepLockInv, Holds
  <2>4. CASE ~lockHeld
    <3>1. stateOwner' = "nobody"
      BY <2>2, <2>4
    <3>2. lockHeld' = Holds(s)
      BY <2>2, <2>4, Zenon DEF Holds
    <3>3. lockCount' = IF Holds(s) THEN 1 ELSE 0
      BY <2>2, <2>4
    <3> QED BY <2>2, <3>1, <3>2, <3>3 DEF SleepLockInv, Holds
  <2> QED BY <2>3, <2>4
<1> QED BY <1>1, <1>2

LEMMA SettleLocks ==
  ASSUME StateTypeOK, SleepLockInv, NEW who \in {"control", "caller"}, Settle(who)
  PROVE  StateTypeOK' /\ SleepLockInv'
<1>1. /\ state' = state /\ stateOwner' = "nobody" /\ stateOwner # "nobody"
      /\ lockHeld' = FALSE /\ lockCount' = lockCount - 1
  BY DEF Settle
<1>2. lockCount' = 0 /\ ~Holds(state)
  BY <1>1 DEF SleepLockInv
<1>3. StateTypeOK'
  <2>1. lockHeld' \in BOOLEAN
    BY <1>1, Zenon
  <2>2. lockCount' \in Int
    BY <1>2
  <2> QED BY <1>1, <2>1, <2>2, Zenon DEF StateTypeOK
<1>4. SleepLockInv'
  BY <1>1, <1>2 DEF SleepLockInv, Holds
<1> QED BY <1>3, <1>4

LEMMA ReturnsTypes ==
  ASSUME NEW s \in States, Returns(s)
  PROVE  next' \in States /\ pc' \in {"reap", "publish"} /\ outcome' = "ok"
  BY DEF Returns, States

LEMMA RetireTypes ==
  ASSUME TargetTypeOK, RetireDeclined
  PROVE  TargetTypeOK'
  BY DEF TargetTypeOK, RetireDeclined, DeclinedTargets

LEMMA FreeTypes ==
  ASSUME TargetTypeOK, NEW F, FreeTargets(F)
  PROVE  /\ camOf' \in [Targets -> Cameras \cup {NoCamera}]
         /\ tgtTask' \in [Targets -> {"none", "wait", "exiting", "stopped"}]
  BY DEF TargetTypeOK, FreeTargets

LEMMA InitHolds == Init => IInv
<1> SUFFICES ASSUME Init PROVE IInv
  OBVIOUS
<1> USE ConstantsAssumption DEF Init
<1>1. StateTypeOK
  <2>1. lockHeld \in BOOLEAN
    BY Zenon
  <2>2. state \in States /\ stateOwner \in {"nobody", "control", "caller"} /\ lockCount \in Int
    BY DEF States
  <2> QED BY <2>1, <2>2, Zenon DEF StateTypeOK
<1>2. FlagTypeOK
  <2>1. /\ abort \in BOOLEAN /\ inProgress \in BOOLEAN /\ infinite \in BOOLEAN
        /\ clearCancel \in BOOLEAN
    BY Zenon
  <2>2. failCount \in 0..2 /\ connectCam \in Cameras \cup {NoCamera}
    OBVIOUS
  <2> QED BY <2>1, <2>2, Zenon DEF FlagTypeOK
<1>3. QueueTypeOK
  BY DEF QueueTypeOK
<1>4. TargetTypeOK
  BY DEF TargetTypeOK
<1>5. CameraTypeOK
  BY DEF CameraTypeOK
<1>6. TaskTypeOK
  BY DEF TaskTypeOK, TaskPCs, AttemptPCs, PassPCs, States
<1>7. CallerTypeOK
  <2>1. forRestart \in BOOLEAN /\ settled \in BOOLEAN
    BY Zenon
  <2>2. requests \in 0..MaxRequests
    OBVIOUS
  <2>3. ui \in UiPCs /\ toAdd \subseteq Cameras
    BY DEF UiPCs
  <2> QED BY <2>1, <2>2, <2>3, Zenon DEF CallerTypeOK
<1>8. LifetimeInv
  BY DEF LifetimeInv, Waiting
<1>9. SleepLockInv
  BY DEF SleepLockInv, Holds
<1> QED BY <1>1, <1>2, <1>3, <1>4, <1>5, <1>6, <1>7, <1>8, <1>9 DEF IInv, TypeOK

-----------------------------------------------------------------------------
(***************************************************************************)
(* The lifetime of the targets.                                            *)
(***************************************************************************)
lifetimeVars == <<targets, zombies, camOf, tgtTask, told, ui, settled>>

LEMMA LifetimeStutter ==
  ASSUME LifetimeInv, UNCHANGED lifetimeVars
  PROVE  LifetimeInv'
  BY DEF LifetimeInv, lifetimeVars, Waiting, Stopped

\* Retiring moves targets to the drain and tells those that still wait.
LEMMA RetireLifetime ==
  ASSUME TargetTypeOK, LifetimeInv, RetireDeclined, UNCHANGED <<ui, settled>>
  PROVE  LifetimeInv'
<1> USE DEF RetireDeclined, DeclinedTargets, Waiting, Stopped, TargetTypeOK
<1>1. /\ targets' \cup zombies' = targets \cup zombies
      /\ targets' \subseteq targets
      /\ camOf' = camOf /\ tgtTask' = tgtTask
  OBVIOUS
<1>2. \A t \in Targets : tgtTask'[t] = "none" <=> t \notin targets' \cup zombies'
  BY <1>1 DEF LifetimeInv
<1>3. targets' \cap zombies' = {}
  BY DEF LifetimeInv
<1>4. \A t \in targets' \cup zombies' : camOf'[t] \in Cameras
  BY <1>1 DEF LifetimeInv
<1>5. told' \subseteq Waiting' /\ zombies' \cap Waiting' \subseteq told'
  BY DEF LifetimeInv
<1>6. ui' \in {"wait", "drain"} => targets' \cap Waiting' \subseteq told'
  BY DEF LifetimeInv
<1>7. /\ settled' => ui' \notin {"toDisconnecting", "cancel", "wait"}
      /\ settled' /\ ui' = "drain" => \A t \in targets' : Stopped(t)'
  BY DEF LifetimeInv
<1> QED BY <1>2, <1>3, <1>4, <1>5, <1>6, <1>7 DEF LifetimeInv

LEMMA LifetimeStep ==
  ASSUME IInv, [Next]_vars
  PROVE  LifetimeInv'
<1> USE DEF IInv, TypeOK
<1>1. CASE Reap
  <2> USE <1>1 DEF Reap, Reapable, FreeTargets, Stopped, Waiting, TargetTypeOK, ownVars, uiVars
  <2>1. \A t \in Targets : tgtTask'[t] = "none" <=> t \notin targets' \cup zombies'
    BY DEF LifetimeInv
  <2>2. \A t \in targets' \cup zombies' : camOf'[t] \in Cameras
    BY DEF LifetimeInv
  <2>3. Waiting' = Waiting
    OBVIOUS
  <2>4. \A t \in targets' : Stopped(t) => Stopped(t)'
    BY DEF LifetimeInv
  <2> QED BY <2>1, <2>2, <2>3, <2>4 DEF LifetimeInv
<1>2. CASE Retire
  BY <1>2, RetireLifetime DEF Retire, uiVars
<1>3. CASE BeginPass
  BY <1>3, RetireLifetime DEF BeginPass, uiVars
<1>4. CASE FinishPass
  <2>1. CASE Aborted
    BY <1>4, <2>1, LifetimeStutter DEF FinishPass, lifetimeVars, ownVars, targetVars, uiVars
  <2>2. CASE ~Aborted
    BY <1>4, <2>2, RetireLifetime DEF FinishPass, uiVars
  <2> QED BY <2>1, <2>2
<1>5. CASE \/ PublishRetired \/ Receive \/ PublishConnect \/ CheckActive \/ Gate
           \/ PublishConnecting \/ NextCamera \/ PublishCamera \/ EnterConnect
           \/ ConnectEnds \/ UnpublishCamera \/ RetryOrFail \/ PublishPass
  <2>1. UNCHANGED lifetimeVars
    BY <1>5 DEF lifetimeVars, PublishRetired, Receive, PublishConnect, CheckActive, Gate,
       PublishConnecting, NextCamera, PublishCamera, EnterConnect, ConnectEnds,
       ConnectSucceeds, ConnectFails, UnpublishCamera, RetryOrFail, PublishPass,
       ownVars, targetVars, uiVars
  <2> QED BY <2>1, LifetimeStutter
<1>6. CASE Settle("control") \/ Settle("caller") \/ DeadlinePasses \/ \E c \in Cameras : Radio(c)
  <2>1. UNCHANGED lifetimeVars
    BY <1>6 DEF lifetimeVars, Settle, DeadlinePasses, Radio, LinkUp, LinkLost, StrayLost,
       DeclinePairing, ownVars, targetVars, uiVars
  <2> QED BY <2>1, LifetimeStutter
<1>7. ASSUME NEW t \in Targets, TargetDisconnect(t)
      PROVE  LifetimeInv'
  <2> USE <1>7 DEF TargetDisconnect, Waiting, Stopped, TargetTypeOK, ownVars, uiVars
  <2>1. Waiting' = Waiting \ {t} /\ told' = told \ {t}
    OBVIOUS
  <2>2. \A u \in Targets : tgtTask'[u] = "none" <=> tgtTask[u] = "none"
    OBVIOUS
  <2>3. \A u \in Targets : Stopped(u) => Stopped(u)'
    OBVIOUS
  <2> QED BY <2>1, <2>2, <2>3 DEF LifetimeInv
<1>8. ASSUME NEW t \in Targets, TargetStops(t)
      PROVE  LifetimeInv'
  <2> USE <1>8 DEF TargetStops, Waiting, Stopped, TargetTypeOK, ownVars, uiVars
  <2>1. Waiting' = Waiting
    OBVIOUS
  <2>2. \A u \in Targets : tgtTask'[u] = "none" <=> tgtTask[u] = "none"
    OBVIOUS
  <2>3. \A u \in Targets : Stopped(u) => Stopped(u)'
    OBVIOUS
  <2> QED BY <2>1, <2>2, <2>3 DEF LifetimeInv
<1>9. ASSUME NEW c \in Cameras, AddActive(c)
      PROVE  LifetimeInv'
  <2>1. CASE UNCHANGED <<targets, camOf, tgtTask>>
    BY <1>9, <2>1, LifetimeStutter DEF AddActive, lifetimeVars
  <2>2. ASSUME NEW t \in Targets, tgtTask[t] = "none", targets' = targets \cup {t},
               camOf' = [camOf EXCEPT ![t] = c], tgtTask' = [tgtTask EXCEPT ![t] = "wait"]
        PROVE  LifetimeInv'
    <3> USE <1>9, <2>2 DEF AddActive, UiAt, TargetTypeOK, Waiting
    <3>1. \A u \in Targets : tgtTask'[u] = "none" <=> u \notin targets' \cup zombies'
      BY DEF LifetimeInv
    <3>2. \A u \in targets' \cup zombies' : camOf'[u] \in Cameras
      BY DEF LifetimeInv
    <3>3. targets' \cap zombies' = {} /\ Waiting' = Waiting \cup {t} /\ t \notin zombies
      BY DEF LifetimeInv
    <3>4. ui' \notin {"wait", "drain", "toDisconnecting", "cancel"}
      OBVIOUS
    <3> QED BY <3>1, <3>2, <3>3, <3>4 DEF LifetimeInv
  <2> QED BY <1>9, <2>1, <2>2 DEF AddActive
<1>10. CASE \/ RequestConnect \/ ArmConnect \/ DisarmAbort \/ SendConnect \/ RequestDisconnect
            \/ PublishDisconnecting \/ TeardownTimesOut \/ PublishIdle \/ WakeControl
  <2>1. /\ UNCHANGED <<targets, zombies, camOf, tgtTask, told>>
        /\ ui' \in {"wait", "drain"} => ui = "wait" /\ ui' = "drain" /\ settled' = settled
        /\ settled' => /\ settled /\ ui' \notin {"toDisconnecting", "wait"}
                       /\ ui' = "cancel" => ui = "toDisconnecting"
    BY <1>10 DEF RequestConnect, ArmConnect, DisarmAbort, SendConnect, RequestDisconnect,
       PublishDisconnecting, TeardownTimesOut, PublishIdle, WakeControl, UiAt, ownVars, targetVars
  <2> QED BY <2>1 DEF LifetimeInv, Waiting, Stopped
<1>11. CASE CancelAll
  BY <1>11 DEF CancelAll, UiAt, Dismissed, LifetimeInv, Waiting, Stopped, ownVars, TargetTypeOK
<1>12. CASE TeardownSettles
  BY <1>12 DEF TeardownSettles, TeardownSettled, UiAt, LifetimeInv, Waiting, Stopped, ownVars,
     targetVars
<1>13. CASE DrainTargets
  <2> USE <1>13 DEF DrainTargets, UiAt, FreeTargets, Stopped, Waiting, TargetTypeOK
  <2>1. Drained \subseteq targets /\ \A t \in targets \ Drained : Stopped(t)
    BY DEF Drained, LifetimeInv
  <2>2. \A t \in Targets : tgtTask'[t] = "none" <=> t \notin targets' \cup zombies'
    BY <2>1 DEF LifetimeInv
  <2>3. \A t \in targets' \cup zombies' : camOf'[t] \in Cameras
    BY <2>1 DEF LifetimeInv
  <2>4. Waiting' = Waiting /\ told' = told
    BY <2>1 DEF LifetimeInv
  <2>5. zombies' \cap Waiting' \subseteq told'
    BY <2>1, <2>4 DEF LifetimeInv
  <2> QED BY <2>2, <2>3, <2>4, <2>5 DEF LifetimeInv
<1>14. CASE UNCHANGED vars
  BY <1>14, LifetimeStutter DEF vars, lifetimeVars
<1> QED
  BY <1>1, <1>2, <1>3, <1>4, <1>5, <1>6, <1>7, <1>8, <1>9, <1>10, <1>11, <1>12, <1>13, <1>14
  DEF Next, Task, TargetTask, ConnectCaller, Teardown

-----------------------------------------------------------------------------
(***************************************************************************)
(* The state and its sleep lock.                                           *)
(***************************************************************************)
LEMMA StateStep ==
  ASSUME IInv, [Next]_vars
  PROVE  StateTypeOK' /\ SleepLockInv'
<1> USE DEF IInv, TypeOK
<1>1. ASSUME NEW who \in {"control", "caller"}, NEW s \in States, SetState(who, s)
      PROVE  StateTypeOK' /\ SleepLockInv'
  BY <1>1, SetStateTypes, SetStateLocks
<1>2. ASSUME UNCHANGED stateVars
      PROVE  StateTypeOK' /\ SleepLockInv'
  BY <1>2 DEF stateVars, StateTypeOK, SleepLockInv, Holds
<1>3. CASE PublishRetired \/ PublishConnect \/ PublishConnecting \/ PublishPass
  <2>1. \E s \in States : SetState("control", s)
    BY <1>3 DEF PublishRetired, PublishConnect, PublishConnecting, PublishPass, States, TaskTypeOK
  <2> QED BY <2>1, <1>1
<1>4. CASE PublishDisconnecting \/ PublishIdle
  <2>1. \E s \in States : SetState("caller", s)
    BY <1>4 DEF PublishDisconnecting, PublishIdle, States
  <2> QED BY <2>1, <1>1
<1>5. CASE Settle("control") \/ Settle("caller")
  BY <1>5, SettleLocks
<1>6. CASE \/ Reap \/ Retire \/ Receive \/ CheckActive \/ Gate \/ BeginPass \/ NextCamera
           \/ PublishCamera \/ EnterConnect \/ ConnectEnds \/ UnpublishCamera
           \/ FinishPass \/ RetryOrFail
  BY <1>6, <1>2 DEF Reap, Retire, Receive, CheckActive, Gate, BeginPass, NextCamera,
     PublishCamera, EnterConnect, ConnectEnds, ConnectSucceeds, ConnectFails,
     UnpublishCamera, FinishPass, RetryOrFail
<1>7. ASSUME NEW t \in Targets, TargetTask(t)
      PROVE  StateTypeOK' /\ SleepLockInv'
  BY <1>7, <1>2 DEF TargetTask, TargetDisconnect, TargetStops
<1>8. ASSUME NEW c \in Cameras, Radio(c) \/ AddActive(c)
      PROVE  StateTypeOK' /\ SleepLockInv'
  BY <1>8, <1>2 DEF Radio, LinkUp, LinkLost, StrayLost, DeclinePairing, AddActive
<1>9. CASE \/ RequestConnect \/ ArmConnect \/ DisarmAbort \/ SendConnect \/ RequestDisconnect
           \/ CancelAll \/ TeardownSettles \/ TeardownTimesOut \/ DrainTargets
           \/ WakeControl \/ DeadlinePasses \/ UNCHANGED vars
  BY <1>9, <1>2 DEF RequestConnect, ArmConnect, DisarmAbort, SendConnect, RequestDisconnect,
     CancelAll, TeardownSettles, TeardownTimesOut, DrainTargets, WakeControl,
     DeadlinePasses, vars, stateVars
<1> QED
  BY <1>3, <1>4, <1>5, <1>6, <1>7, <1>8, <1>9
  DEF Next, Task, ConnectCaller, Teardown

-----------------------------------------------------------------------------
(***************************************************************************)
(* The other types, one group of variables at a time.                      *)
(***************************************************************************)
LEMMA QueueStep ==
  ASSUME IInv, [Next]_vars
  PROVE  QueueTypeOK'
<1> USE ConstantsAssumption DEF IInv, TypeOK, QueueTypeOK
<1>1. CASE UNCHANGED queue
  BY <1>1
<1>2. CASE Receive
  BY <1>2 DEF Receive
<1>3. ASSUME NEW c \in Commands, queue' = Sent(c)
      PROVE  QueueTypeOK'
  BY <1>3 DEF Sent
<1>4. CASE SendConnect \/ WakeControl
  BY <1>4, <1>3 DEF SendConnect, WakeControl, Commands
<1>5. CASE Task /\ ~Receive
  BY <1>5, <1>1 DEF Task, Reap, Retire, PublishRetired, PublishConnect, CheckActive, Gate,
     PublishConnecting, BeginPass, NextCamera, PublishCamera, EnterConnect, ConnectEnds,
     ConnectSucceeds, ConnectFails, UnpublishCamera, FinishPass, RetryOrFail, PublishPass, Settle
<1>6. ASSUME NEW t \in Targets, TargetTask(t)
      PROVE  QueueTypeOK'
  BY <1>6, <1>1 DEF TargetTask, TargetDisconnect, TargetStops
<1>7. ASSUME NEW c \in Cameras, Radio(c) \/ AddActive(c)
      PROVE  QueueTypeOK'
  BY <1>7, <1>1 DEF Radio, LinkUp, LinkLost, StrayLost, DeclinePairing, AddActive
<1>8. CASE \/ RequestConnect \/ ArmConnect \/ DisarmAbort \/ RequestDisconnect
           \/ PublishDisconnecting \/ CancelAll \/ TeardownSettles \/ TeardownTimesOut
           \/ DrainTargets \/ PublishIdle \/ DeadlinePasses \/ Settle("caller")
           \/ UNCHANGED vars
  BY <1>8, <1>1 DEF RequestConnect, ArmConnect, DisarmAbort, RequestDisconnect,
     PublishDisconnecting, CancelAll, TeardownSettles, TeardownTimesOut, DrainTargets,
     PublishIdle, DeadlinePasses, Settle, vars
<1> QED
  BY <1>2, <1>4, <1>5, <1>6, <1>7, <1>8 DEF Next, ConnectCaller, Teardown

LEMMA TargetTypeStep ==
  ASSUME IInv, [Next]_vars
  PROVE  TargetTypeOK'
<1> USE DEF IInv, TypeOK
<1>1. ASSUME UNCHANGED <<ownVars, targetVars>>
      PROVE  TargetTypeOK'
  BY <1>1 DEF TargetTypeOK, ownVars, targetVars
<1>2. CASE Reap
  <2>1. zombies' \subseteq Targets /\ UNCHANGED <<targets, told, pastDeadline, generation>>
    BY <1>2 DEF Reap, TargetTypeOK
  <2> QED BY <1>2, <2>1, FreeTypes DEF Reap, TargetTypeOK
<1>3. CASE Retire \/ BeginPass \/ FinishPass
  BY <1>3, <1>1, RetireTypes DEF Retire, BeginPass, FinishPass
<1>4. CASE DrainTargets
  <2>1. /\ zombies' \subseteq Targets /\ targets' \subseteq Targets /\ told' \subseteq Targets
        /\ generation' \in Nat
    BY <1>4 DEF DrainTargets, Drained, NextGeneration, TargetTypeOK
  <2>2. pastDeadline' \in BOOLEAN
    BY <1>4, Zenon DEF DrainTargets
  <2> QED BY <1>4, <2>1, <2>2, FreeTypes DEF DrainTargets, TargetTypeOK
<1>5. CASE DeadlinePasses
  <2>1. pastDeadline' \in BOOLEAN
    BY <1>5, Zenon DEF DeadlinePasses
  <2> QED BY <1>5, <2>1 DEF DeadlinePasses, TargetTypeOK, targetVars
<1>6. ASSUME NEW t \in Targets, TargetTask(t)
      PROVE  TargetTypeOK'
  BY <1>6 DEF TargetTask, TargetDisconnect, TargetStops, TargetTypeOK, ownVars
<1>7. ASSUME NEW c \in Cameras, AddActive(c)
      PROVE  TargetTypeOK'
  BY <1>7 DEF AddActive, TargetTypeOK
<1>8. CASE CancelAll
  BY <1>8 DEF CancelAll, Dismissed, TargetTypeOK, ownVars
<1>9. CASE \/ PublishRetired \/ Receive \/ PublishConnect \/ CheckActive \/ Gate
           \/ PublishConnecting \/ NextCamera \/ PublishCamera \/ EnterConnect
           \/ ConnectEnds \/ UnpublishCamera \/ RetryOrFail \/ PublishPass
           \/ Settle("control") \/ Settle("caller")
  BY <1>9, <1>1 DEF PublishRetired, Receive, PublishConnect, CheckActive, Gate,
     PublishConnecting, NextCamera, PublishCamera, EnterConnect, ConnectEnds,
     ConnectSucceeds, ConnectFails, UnpublishCamera, RetryOrFail, PublishPass, Settle
<1>10. ASSUME NEW c \in Cameras, Radio(c)
       PROVE  TargetTypeOK'
  BY <1>10, <1>1 DEF Radio, LinkUp, LinkLost, StrayLost, DeclinePairing
<1>11. CASE \/ RequestConnect \/ ArmConnect \/ DisarmAbort \/ SendConnect \/ RequestDisconnect
            \/ PublishDisconnecting \/ TeardownSettles \/ TeardownTimesOut \/ PublishIdle
            \/ WakeControl \/ UNCHANGED vars
  BY <1>11, <1>1 DEF RequestConnect, ArmConnect, DisarmAbort, SendConnect, RequestDisconnect,
     PublishDisconnecting, TeardownSettles, TeardownTimesOut, PublishIdle, WakeControl,
     vars, ownVars, targetVars
<1> QED
  BY <1>2, <1>3, <1>4, <1>5, <1>6, <1>7, <1>8, <1>9, <1>10, <1>11
  DEF Next, Task, ConnectCaller, Teardown

LEMMA CameraStep ==
  ASSUME IInv, [Next]_vars
  PROVE  CameraTypeOK'
<1> USE DEF IInv, TypeOK, CameraTypeOK
<1>1. ASSUME UNCHANGED cameraVars
      PROVE  CameraTypeOK'
  BY <1>1 DEF cameraVars
<1>2. CASE Reap
  BY <1>2 DEF Reap
<1>3. CASE BeginPass
  BY <1>3 DEF BeginPass
<1>4. CASE EnterConnect \/ ConnectEnds
  <2>1. cur \in Cameras
    BY <1>4 DEF EnterConnect, ConnectEnds, ConnectSucceeds, ConnectFails, TaskAt,
       AttemptPCs, TaskTypeOK
  <2>2. CASE EnterConnect
    BY <2>1, <2>2 DEF EnterConnect
  <2>3. CASE ConnectSucceeds
    BY <2>1, <2>3 DEF ConnectSucceeds
  <2>4. CASE ConnectFails
    <3>1. stray' \subseteq Cameras
      BY <2>1, <2>4, Zenon DEF ConnectFails
    <3> QED BY <2>1, <2>4, <3>1 DEF ConnectFails
  <2> QED BY <1>4, <2>2, <2>3, <2>4 DEF ConnectEnds
<1>5. ASSUME NEW t \in Targets, TargetTask(t)
      PROVE  CameraTypeOK'
  <2>1. CASE TargetDisconnect(t)
    BY <2>1 DEF TargetDisconnect
  <2>2. CASE TargetStops(t)
    BY <2>2, <1>1 DEF TargetStops
  <2> QED BY <1>5, <2>1, <2>2 DEF TargetTask
<1>6. ASSUME NEW c \in Cameras, Radio(c)
      PROVE  CameraTypeOK'
  <2>1. ASSUME Abandoned(c) PROVE declined' \in [Cameras -> BOOLEAN]
    BY <2>1 DEF Abandoned
  <2> QED BY <1>6, <2>1 DEF Radio, LinkUp, LinkLost, StrayLost, DeclinePairing
<1>7. ASSUME NEW c \in Cameras, AddActive(c)
      PROVE  CameraTypeOK'
  BY <1>7 DEF AddActive
<1>8. CASE CancelAll
  BY <1>8 DEF CancelAll
<1>9. CASE \/ Retire \/ PublishRetired \/ Receive \/ PublishConnect \/ CheckActive \/ Gate
           \/ PublishConnecting \/ NextCamera \/ PublishCamera \/ UnpublishCamera
           \/ FinishPass \/ RetryOrFail \/ PublishPass \/ Settle("control") \/ Settle("caller")
  BY <1>9, <1>1 DEF Retire, PublishRetired, Receive, PublishConnect, CheckActive, Gate,
     PublishConnecting, NextCamera, PublishCamera, UnpublishCamera, FinishPass, RetryOrFail,
     PublishPass, Settle
<1>10. CASE \/ RequestConnect \/ ArmConnect \/ DisarmAbort \/ SendConnect \/ RequestDisconnect
            \/ PublishDisconnecting \/ TeardownSettles \/ TeardownTimesOut \/ DrainTargets
            \/ PublishIdle \/ WakeControl \/ DeadlinePasses \/ UNCHANGED vars
  BY <1>10, <1>1 DEF RequestConnect, ArmConnect, DisarmAbort, SendConnect, RequestDisconnect,
     PublishDisconnecting, TeardownSettles, TeardownTimesOut, DrainTargets, PublishIdle,
     WakeControl, DeadlinePasses, vars, cameraVars
<1> QED
  BY <1>2, <1>3, <1>4, <1>5, <1>6, <1>7, <1>8, <1>9, <1>10
  DEF Next, Task, ConnectCaller, Teardown

LEMMA FlagStep ==
  ASSUME IInv, [Next]_vars
  PROVE  FlagTypeOK'
<1> USE DEF IInv, TypeOK
<1>1. ASSUME UNCHANGED <<flagVars, connVars>>
      PROVE  FlagTypeOK'
  <2>1. /\ abort' \in BOOLEAN /\ inProgress' \in BOOLEAN /\ infinite' \in BOOLEAN
        /\ clearCancel' \in BOOLEAN
    BY <1>1, Zenon DEF flagVars, connVars, FlagTypeOK
  <2> QED BY <1>1, <2>1 DEF flagVars, connVars, FlagTypeOK
\* The steps of the control task write m_ConnectInProgress, the failure count,
\* the published camera and, in BeginPass, m_ClearConnectCancel.
<1>2. ASSUME \/ Retire \/ BeginPass \/ PublishCamera \/ UnpublishCamera \/ FinishPass
      PROVE  FlagTypeOK'
  <2>1. /\ abort' \in BOOLEAN /\ inProgress' \in BOOLEAN /\ infinite' \in BOOLEAN
        /\ clearCancel' \in BOOLEAN
    BY <1>2, Zenon DEF Retire, BeginPass, PublishCamera, UnpublishCamera, FinishPass,
       flagVars, FlagTypeOK
  <2>2. failCount' \in 0..2
    BY <1>2 DEF Retire, BeginPass, PublishCamera, UnpublishCamera, FinishPass, Capped, FlagTypeOK
  <2>3. connectCam' \in Cameras \cup {NoCamera}
    BY <1>2 DEF Retire, BeginPass, PublishCamera, UnpublishCamera, FinishPass, FlagTypeOK,
       TaskTypeOK
  <2> QED BY <2>1, <2>2, <2>3, Zenon DEF FlagTypeOK
<1>3. CASE ArmConnect \/ DisarmAbort \/ RequestDisconnect \/ CancelAll \/ DrainTargets
  <2>1. /\ abort' \in BOOLEAN /\ inProgress' \in BOOLEAN /\ infinite' \in BOOLEAN
        /\ clearCancel' \in BOOLEAN
    BY <1>3, ConstantsAssumption, Zenon DEF ArmConnect, DisarmAbort, RequestDisconnect,
       CancelAll, DrainTargets, flagVars, connVars, FlagTypeOK
  <2>2. failCount' \in 0..2 /\ connectCam' \in Cameras \cup {NoCamera}
    BY <1>3 DEF ArmConnect, DisarmAbort, RequestDisconnect, CancelAll, DrainTargets,
       connVars, FlagTypeOK
  <2> QED BY <2>1, <2>2, Zenon DEF FlagTypeOK
<1>4. CASE \/ Reap \/ PublishRetired \/ Receive \/ PublishConnect \/ CheckActive \/ Gate
           \/ PublishConnecting \/ NextCamera \/ EnterConnect \/ ConnectEnds
           \/ RetryOrFail \/ PublishPass \/ Settle("control") \/ Settle("caller")
  BY <1>4, <1>1 DEF Reap, PublishRetired, Receive, PublishConnect, CheckActive, Gate,
     PublishConnecting, NextCamera, EnterConnect, ConnectEnds, ConnectSucceeds,
     ConnectFails, RetryOrFail, PublishPass, Settle
<1>5. ASSUME NEW t \in Targets, TargetTask(t)
      PROVE  FlagTypeOK'
  BY <1>5, <1>1 DEF TargetTask, TargetDisconnect, TargetStops
<1>6. ASSUME NEW c \in Cameras, Radio(c) \/ AddActive(c)
      PROVE  FlagTypeOK'
  BY <1>6, <1>1 DEF Radio, LinkUp, LinkLost, StrayLost, DeclinePairing, AddActive
<1>7. CASE \/ RequestConnect \/ SendConnect \/ PublishDisconnecting \/ TeardownSettles
           \/ TeardownTimesOut \/ PublishIdle \/ WakeControl \/ DeadlinePasses
           \/ UNCHANGED vars
  BY <1>7, <1>1 DEF RequestConnect, SendConnect, PublishDisconnecting, TeardownSettles,
     TeardownTimesOut, PublishIdle, WakeControl, DeadlinePasses, vars, flagVars, connVars
<1> QED
  BY <1>2, <1>3, <1>4, <1>5, <1>6, <1>7 DEF Next, Task, ConnectCaller, Teardown

LEMMA TaskStep ==
  ASSUME IInv, [Next]_vars
  PROVE  TaskTypeOK'
<1> USE DEF IInv, TypeOK
<1>1. ASSUME UNCHANGED taskVars
      PROVE  TaskTypeOK'
  BY <1>1 DEF taskVars, TaskTypeOK
\* A step that stays out of an attempt and leaves the pass alone.
<1>2. ASSUME UNCHANGED <<todo, cur, outcome, next>>, pc' \in TaskPCs \ AttemptPCs
      PROVE  TaskTypeOK'
  BY <1>2 DEF TaskTypeOK
<1>3. CASE \/ Reap \/ Retire \/ PublishRetired \/ Receive \/ PublishConnect \/ CheckActive
           \/ Gate \/ PublishConnecting
  BY <1>3, <1>2 DEF Reap, Retire, PublishRetired, Receive, PublishConnect, CheckActive,
     Gate, PublishConnecting, TaskPCs, PassPCs, AttemptPCs
<1>4. ASSUME NEW s \in States, Returns(s), UNCHANGED cur, todo' \subseteq Cameras
      PROVE  TaskTypeOK'
  BY <1>4, ReturnsTypes DEF TaskTypeOK, TaskPCs, PassPCs, AttemptPCs
<1>5. CASE BeginPass
  <2>1. {camOf[t] : t \in targets \ DeclinedTargets} \subseteq Cameras
    BY DEF LifetimeInv
  <2>2. CASE \E s \in States : Returns(s) /\ UNCHANGED <<todo, cur>>
    BY <2>2, <1>4 DEF TaskTypeOK
  <2>3. CASE todo' \subseteq Cameras /\ pc' = "each" /\ UNCHANGED <<cur, outcome, next>>
    BY <2>3 DEF TaskTypeOK, TaskPCs, PassPCs, AttemptPCs
  <2> QED BY <1>5, <2>1, <2>2, <2>3 DEF BeginPass, States
<1>6. CASE NextCamera \/ PublishCamera \/ EnterConnect \/ ConnectEnds \/ UnpublishCamera
  BY <1>6 DEF NextCamera, PublishCamera, EnterConnect, ConnectEnds, ConnectSucceeds,
     ConnectFails, UnpublishCamera, TaskAt, TaskTypeOK, TaskPCs, PassPCs, AttemptPCs
<1>7. CASE FinishPass
  <2>1. CASE \E s \in States : Returns(s) /\ UNCHANGED <<todo, cur>>
    BY <2>1, <1>4 DEF TaskTypeOK
  <2>2. CASE pc' = "retry" /\ UNCHANGED <<todo, cur, outcome, next>>
    BY <2>2, <1>2 DEF TaskPCs, PassPCs, AttemptPCs
  <2> QED BY <1>7, <2>1, <2>2 DEF FinishPass, States
<1>8. CASE RetryOrFail
  <2>1. \E s \in States : Returns(s) /\ UNCHANGED <<todo, cur>>
    BY <1>8 DEF RetryOrFail, States
  <2> QED BY <2>1, <1>4 DEF TaskTypeOK
<1>9. CASE PublishPass
  BY <1>9 DEF PublishPass, TaskTypeOK, TaskPCs, PassPCs, AttemptPCs, States
<1>10. ASSUME NEW t \in Targets, TargetTask(t)
       PROVE  TaskTypeOK'
  BY <1>10, <1>1 DEF TargetTask, TargetDisconnect, TargetStops
<1>11. ASSUME NEW c \in Cameras, Radio(c) \/ AddActive(c)
       PROVE  TaskTypeOK'
  BY <1>11, <1>1 DEF Radio, LinkUp, LinkLost, StrayLost, DeclinePairing, AddActive
<1>12. CASE \/ RequestConnect \/ ArmConnect \/ DisarmAbort \/ SendConnect \/ RequestDisconnect
            \/ Teardown \/ TeardownTimesOut \/ DeadlinePasses \/ Settle("control")
            \/ UNCHANGED vars
  BY <1>12, <1>1 DEF RequestConnect, ArmConnect, DisarmAbort, SendConnect, RequestDisconnect,
     Teardown, PublishDisconnecting, CancelAll, TeardownSettles, TeardownTimesOut,
     DrainTargets, PublishIdle, WakeControl, DeadlinePasses, Settle, vars, taskVars
<1> QED
  BY <1>3, <1>5, <1>6, <1>7, <1>8, <1>9, <1>10, <1>11, <1>12 DEF Next, Task, ConnectCaller

LEMMA CallerStep ==
  ASSUME IInv, [Next]_vars
  PROVE  CallerTypeOK'
<1> USE ConstantsAssumption DEF IInv, TypeOK
<1>1. ASSUME UNCHANGED uiVars
      PROVE  CallerTypeOK'
  <2>1. forRestart' \in BOOLEAN /\ settled' \in BOOLEAN
    BY <1>1, Zenon DEF uiVars, CallerTypeOK
  <2> QED BY <1>1, <2>1 DEF uiVars, CallerTypeOK
<1>2. CASE \/ RequestConnect \/ ArmConnect \/ DisarmAbort \/ SendConnect \/ RequestDisconnect
           \/ PublishDisconnecting \/ CancelAll \/ TeardownSettles \/ DrainTargets
           \/ PublishIdle \/ WakeControl \/ TeardownTimesOut
  <2> USE <1>2 DEF RequestConnect, ArmConnect, DisarmAbort, SendConnect, RequestDisconnect,
      PublishDisconnecting, CancelAll, TeardownSettles, DrainTargets, PublishIdle,
      WakeControl, TeardownTimesOut, CallerTypeOK
  <2>1. /\ forRestart' = forRestart \/ forRestart' \in Restarts
        /\ settled' = settled \/ settled' = FALSE \/ settled' = TRUE
    OBVIOUS
  <2>2. forRestart' \in BOOLEAN /\ settled' \in BOOLEAN
    BY <2>1, Zenon
  <2>3. /\ ui' \in UiPCs /\ toAdd' \subseteq Cameras
        /\ requests' \in 0..MaxRequests
    BY DEF UiPCs, TeardownPCs
  <2> QED BY <2>2, <2>3, Zenon
<1>3. CASE Task \/ Settle("caller") \/ DeadlinePasses \/ UNCHANGED vars
  BY <1>3, <1>1 DEF Task, Reap, Retire, PublishRetired, Receive, PublishConnect, CheckActive,
     Gate, PublishConnecting, BeginPass, NextCamera, PublishCamera, EnterConnect,
     ConnectEnds, ConnectSucceeds, ConnectFails, UnpublishCamera, FinishPass,
     RetryOrFail, PublishPass, Settle, DeadlinePasses, vars, uiVars
<1>4. ASSUME NEW t \in Targets, TargetTask(t)
      PROVE  CallerTypeOK'
  BY <1>4, <1>1 DEF TargetTask, TargetDisconnect, TargetStops
<1>5. ASSUME NEW c \in Cameras, Radio(c)
      PROVE  CallerTypeOK'
  BY <1>5, <1>1 DEF Radio, LinkUp, LinkLost, StrayLost, DeclinePairing
<1>6. ASSUME NEW c \in Cameras, AddActive(c)
      PROVE  CallerTypeOK'
  <2>1. forRestart' \in BOOLEAN /\ settled' \in BOOLEAN
    BY <1>6, Zenon DEF AddActive, CallerTypeOK
  <2> QED BY <1>6, <2>1 DEF AddActive, CallerTypeOK
<1> QED
  BY <1>2, <1>3, <1>4, <1>5, <1>6 DEF Next, ConnectCaller, Teardown

-----------------------------------------------------------------------------
(***************************************************************************)
(* The invariants of the specification.                                    *)
(***************************************************************************)
LEMMA Invariance == Spec => []IInv
<1>1. IInv /\ [Next]_vars => IInv'
  BY StateStep, QueueStep, TargetTypeStep, CameraStep, FlagStep, TaskStep, CallerStep,
     LifetimeStep DEF IInv, TypeOK
<1> QED BY InitHolds, <1>1, PTL DEF Spec

\* Every field of Control keeps its type under every interleaving, and the
\* command queue never outgrows m_QueueLength.
THEOREM TypeCorrect == Spec => []TypeOK
<1>1. IInv => TypeOK
  BY DEF IInv
<1> QED BY <1>1, Invariance, PTL

\* No Target is freed while its task runs: by the reaper, by an interactive
\* teardown, or by the teardown ahead of a restart, time cap hit or not.
THEOREM TargetsAlive == Spec => []TargetAlive
<1>1. IInv => TargetAlive
  BY DEF IInv, LifetimeInv, TargetAlive, Running
<1> QED BY <1>1, Invariance, PTL

\* CMD_DISCONNECT reaches every target that drains or is waited for.
THEOREM AllTold == Spec => []ToldToStop
<1>1. IInv => ToldToStop
  BY DEF IInv, LifetimeInv, ToldToStop, Waiting
<1> QED BY <1>1, Invariance, PTL

\* setState() neither leaks nor double-releases the light-sleep lock, whichever
\* threads call it and whatever states they publish.
THEOREM SleepLockCorrect == Spec => []AwakeWhileActive
<1>1. IInv => AwakeWhileActive
  BY DEF IInv, SleepLockInv, AwakeWhileActive, Holds
<1> QED BY <1>1, Invariance, PTL

-----------------------------------------------------------------------------
(***************************************************************************)
(* Control implements Session.                                             *)
(***************************************************************************)
sessionVars == <<targets, zombies, tgtTask, told, generation>>

LEMMA RetireDismisses ==
  ASSUME IInv, RetireDeclined
  PROVE  [Lifetime!Next]_(Lifetime!vars)
<1> USE DEF IInv, TypeOK, TargetTypeOK
<1>1. CASE DeclinedTargets = {}
  <2>1. UNCHANGED sessionVars
    BY <1>1 DEF RetireDeclined, RetireEnds, sessionVars
  <2> QED BY <2>1 DEF sessionVars, Lifetime!vars, Running
<1>2. CASE DeclinedTargets # {}
  <2>1. PICK S \in SUBSET Targets : S = DeclinedTargets
    BY DEF DeclinedTargets
  <2>2. Lifetime!Dismiss(S)
    BY <1>2, <2>1 DEF Lifetime!Dismiss, RetireDeclined, RetireEnds, DeclinedTargets, Running
  <2> QED BY <2>1, <2>2 DEF Lifetime!Next
<1> QED BY <1>1, <1>2

LEMMA StepRefines ==
  ASSUME IInv, [Next]_vars
  PROVE  [Lifetime!Next]_(Lifetime!vars)
<1> USE DEF IInv, TypeOK, TargetTypeOK
<1>1. ASSUME UNCHANGED sessionVars
      PROVE  [Lifetime!Next]_(Lifetime!vars)
  BY <1>1 DEF sessionVars, Lifetime!vars, Running
<1>2. CASE Reap
  <2>1. PICK S \in SUBSET Targets : S = Reapable
    BY DEF Reapable
  <2>2. Lifetime!Free(S)
    BY <1>2, <2>1 DEF Reap, Lifetime!Free, Reapable, FreeTargets, Running, Stopped
  <2> QED BY <2>1, <2>2 DEF Lifetime!Next
<1>3. CASE Retire \/ BeginPass \/ FinishPass
  BY <1>3, <1>1, RetireDismisses DEF Retire, BeginPass, FinishPass, sessionVars, ownVars, targetVars
<1>4. ASSUME NEW t \in Targets, TargetTask(t)
      PROVE  [Lifetime!Next]_(Lifetime!vars)
  <2>1. CASE TargetDisconnect(t)
    \* The command moves from the queue to the task that runs it.
    <3>1. /\ {u \in Targets : Running(u)}' = {u \in Targets : Running(u)}
          /\ told' \cup {u \in Targets : tgtTask[u] = "exiting"}'
               = told \cup {u \in Targets : tgtTask[u] = "exiting"}
      BY <2>1 DEF TargetDisconnect, Running
    <3> QED BY <2>1, <3>1 DEF TargetDisconnect, ownVars, Lifetime!vars
  <2>2. CASE TargetStops(t)
    <3>1. told' = told /\ t \notin told
      BY <2>2 DEF TargetStops, LifetimeInv, Waiting
    <3>2. Lifetime!Stop(t)
      BY <2>2, <3>1 DEF TargetStops, Lifetime!Stop, Running, ownVars
    <3> QED BY <3>2 DEF Lifetime!Next
  <2> QED BY <1>4, <2>1, <2>2 DEF TargetTask
<1>5. ASSUME NEW c \in Cameras, AddActive(c)
      PROVE  [Lifetime!Next]_(Lifetime!vars)
  <2>1. CASE UNCHANGED <<targets, camOf, tgtTask>>
    BY <1>5, <2>1, <1>1 DEF AddActive, sessionVars
  <2>2. ASSUME NEW t \in Targets, tgtTask[t] = "none", targets' = targets \cup {t},
               tgtTask' = [tgtTask EXCEPT ![t] = "wait"]
        PROVE  [Lifetime!Next]_(Lifetime!vars)
    <3>1. Lifetime!Join(t)
      BY <1>5, <2>2 DEF AddActive, Lifetime!Join, LifetimeInv, Running
    <3> QED BY <3>1 DEF Lifetime!Next
  <2> QED BY <1>5, <2>1, <2>2 DEF AddActive
<1>6. CASE CancelAll
  <2>1. PICK S \in SUBSET Targets : S = Dismissed
    BY DEF Dismissed
  <2>2. Lifetime!Tell(S)
    BY <1>6, <2>1 DEF CancelAll, Lifetime!Tell, Dismissed, Running, ownVars
  <2> QED BY <2>1, <2>2 DEF Lifetime!Next
<1>7. CASE DrainTargets
  <2>1. /\ Drained \subseteq targets /\ told \subseteq Waiting
        /\ \A t \in targets \ Drained : Stopped(t)
        /\ \A t \in targets : tgtTask[t] = "wait" => t \in told
    BY <1>7 DEF Drained, LifetimeInv, Waiting, DrainTargets, UiAt
  <2>2. told' = told
    BY <1>7, <2>1 DEF DrainTargets, Waiting, Stopped
  <2>3. \A t \in Targets : Running(t)' = Running(t) /\ (tgtTask'[t] = "exiting" <=> tgtTask[t] = "exiting")
    BY <1>7, <2>1 DEF DrainTargets, FreeTargets, Running, Stopped
  <2>4. CASE targets = {}
    <3>1. UNCHANGED <<targets, zombies, told, generation>>
      BY <1>7, <2>1, <2>2, <2>4 DEF DrainTargets, NextGeneration
    <3> QED BY <2>3, <3>1 DEF Lifetime!vars
  <2>5. CASE targets # {}
    <3>1. targets \cap {t \in Targets : Running(t)}
             \subseteq Drained \cap (told \cup {t \in Targets : tgtTask[t] = "exiting"})
      BY <2>1 DEF Running, Stopped
    <3>2. Lifetime!End(Drained)
      BY <1>7, <2>1, <2>2, <2>3, <2>5, <3>1 DEF DrainTargets, NextGeneration, Lifetime!End
    <3> QED BY <2>1, <3>2 DEF Lifetime!Next
  <2> QED BY <2>4, <2>5
<1>8. CASE \/ PublishRetired \/ Receive \/ PublishConnect \/ CheckActive \/ Gate
           \/ PublishConnecting \/ NextCamera \/ PublishCamera \/ EnterConnect
           \/ ConnectEnds \/ UnpublishCamera \/ RetryOrFail \/ PublishPass
           \/ Settle("control") \/ Settle("caller")
  BY <1>8, <1>1 DEF PublishRetired, Receive, PublishConnect, CheckActive, Gate,
     PublishConnecting, NextCamera, PublishCamera, EnterConnect, ConnectEnds,
     ConnectSucceeds, ConnectFails, UnpublishCamera, RetryOrFail, PublishPass, Settle,
     sessionVars, ownVars, targetVars
<1>9. ASSUME NEW c \in Cameras, Radio(c)
      PROVE  [Lifetime!Next]_(Lifetime!vars)
  BY <1>9, <1>1 DEF Radio, LinkUp, LinkLost, StrayLost, DeclinePairing,
     sessionVars, ownVars, targetVars
<1>10. CASE \/ RequestConnect \/ ArmConnect \/ DisarmAbort \/ SendConnect \/ RequestDisconnect
            \/ PublishDisconnecting \/ TeardownSettles \/ TeardownTimesOut \/ PublishIdle
            \/ WakeControl \/ DeadlinePasses \/ UNCHANGED vars
  BY <1>10, <1>1 DEF RequestConnect, ArmConnect, DisarmAbort, SendConnect, RequestDisconnect,
     PublishDisconnecting, TeardownSettles, TeardownTimesOut, PublishIdle, WakeControl,
     DeadlinePasses, vars, sessionVars, ownVars, targetVars
<1> QED
  BY <1>2, <1>3, <1>4, <1>5, <1>6, <1>7, <1>8, <1>9, <1>10
  DEF Next, Task, ConnectCaller, Teardown

\* Control implements Session: whoever ends a session, and however, targets
\* drain before they are freed, stop only when told to, and the generation
\* counts the sessions that ended.
THEOREM Refinement == Spec => SessionSpec
<1>1. Init => Lifetime!Init
  BY DEF Init, Lifetime!Init, Running
<1> QED BY <1>1, Invariance, StepRefines, PTL DEF Spec, SessionSpec, Lifetime!Spec

\* The generation moves on exactly when the last target leaves, whether it was
\* retired, drained or freed ahead of a restart; and a target that drains does
\* not come back.  A caller that finds the generation it pinned, and targets,
\* finds the session it pinned.
SessionIsNumbered ==
  /\ generation' = IF targets # {} /\ targets' = {} THEN generation + 1 ELSE generation
  /\ zombies \cap targets' = {}

\* m_SessionGeneration numbers the sessions, whichever thread ends one.
THEOREM SessionsAreNumbered == Spec => [][SessionIsNumbered]_vars
<1>1. ASSUME IInv, [Next]_vars PROVE SessionIsNumbered
  <2> USE DEF SessionIsNumbered
  <2>1. [Lifetime!Next]_(Lifetime!vars) /\ targets \cap zombies = {}
    BY <1>1, StepRefines DEF IInv, LifetimeInv
  <2>2. CASE UNCHANGED Lifetime!vars
    BY <2>1, <2>2 DEF Lifetime!vars
  <2>3. ASSUME NEW t, Lifetime!Join(t) \/ Lifetime!Stop(t) PROVE SessionIsNumbered
    BY <2>1, <2>3 DEF Lifetime!Join, Lifetime!Stop
  <2>4. ASSUME NEW S, Lifetime!Tell(S) \/ Lifetime!Free(S) PROVE SessionIsNumbered
    BY <2>1, <2>4 DEF Lifetime!Tell, Lifetime!Free
  <2>5. ASSUME NEW S, Lifetime!Dismiss(S) PROVE SessionIsNumbered
    BY <2>1, <2>5 DEF Lifetime!Dismiss
  <2>6. ASSUME NEW S, Lifetime!End(S) PROVE SessionIsNumbered
    BY <2>1, <2>6 DEF Lifetime!End
  <2> QED BY <2>1, <2>2, <2>3, <2>4, <2>5, <2>6 DEF Lifetime!Next
<1> QED BY <1>1, Invariance, PTL DEF Spec

-----------------------------------------------------------------------------
(***************************************************************************)
(* What holds of the connection attempts: a teardown cancels the attempt   *)
(* it finds, or finds none, a cancelled one stays cancelled, and a link    *)
(* that is up is taken down by someone.                                    *)
(***************************************************************************)

\* The cameras the pass under way is committed to or will come to.
InPass  == pc \in {"each"} \cup AttemptPCs
Pending == IF ~InPass THEN {}
           ELSE IF pc \in AttemptPCs THEN todo \cup {cur} ELSE todo

Owners == targets \cup zombies
Owned  == {camOf[t] : t \in Owners}

\* A restart that gave up has freed targets and leaves the rest to the reset.
GivenUp == forRestart /\ ui \in {"toIdle", "halted"}

\* The control task reaps and retires between two passes only.
PassInv ==
  /\ InPass => inProgress
  /\ GivenUp \/ Pending \subseteq Owned

\* What disconnect() cancelled it finds cancelled until it stops waiting.
CancelInv ==
  ui \in {"wait", "drain"} =>
    /\ ~clearCancel
    /\ \A t \in targets : token[camOf[t]]
    /\ \A c \in Pending : token[c]

\* The abort flag is set from the request until another connect cycle.
AbortInv ==
  /\ ui \in TeardownPCs => abort
  /\ settled => abort /\ pc \notin AttemptPCs

\* A camera that reads connected belongs to someone who will take it down.
FlagHasOwner ==
  \A c \in Cameras :
    connected[c] => \/ Attempting(c)
                    \/ \E t \in targets \cup zombies : camOf[t] = c
                    \/ forRestart /\ ui \in {"toIdle", "halted"}

AttemptInv == PassInv /\ CancelInv /\ AbortInv /\ FlagHasOwner

-----------------------------------------------------------------------------
LEMMA AttemptInit == Init => AttemptInv
  BY DEF Init, AttemptInv, PassInv, CancelInv, AbortInv, FlagHasOwner, InPass, Pending,
     AttemptPCs, TeardownPCs

\* Targets move from the session to the drain, and no camera loses its owner.
LEMMA RetireKeeps ==
  ASSUME TargetTypeOK, RetireDeclined
  PROVE  Owned' = Owned /\ Owners' = Owners /\ targets' \subseteq targets /\ camOf' = camOf
<1>1. /\ targets' = targets \ DeclinedTargets /\ zombies' = zombies \cup DeclinedTargets
      /\ DeclinedTargets \subseteq targets /\ camOf' = camOf
  BY DEF RetireDeclined, DeclinedTargets
<1> QED BY <1>1 DEF Owned, Owners

\* The steps of the control task outside a pass, and those that end one.
LEMMA TaskOutside ==
  ASSUME IInv, AttemptInv,
         \/ Retire \/ PublishRetired \/ Receive \/ PublishConnect \/ CheckActive \/ Gate
         \/ PublishConnecting \/ FinishPass \/ RetryOrFail \/ PublishPass \/ Settle("control")
  PROVE  AttemptInv'
<1> USE DEF IInv, TypeOK
<1>1. /\ UNCHANGED <<abort, clearCancel, cur, todo, token, connected, uiVars, camOf>>
      /\ Owned' = Owned /\ Owners' = Owners /\ targets' \subseteq targets
  <2>1. CASE Retire \/ FinishPass
    <3>1. RetireDeclined \/ UNCHANGED <<ownVars, targetVars>>
      BY <2>1 DEF Retire, FinishPass
    <3>2. CASE RetireDeclined
      BY <2>1, <3>2, RetireKeeps DEF Retire, FinishPass, flagVars, cameraVars
    <3>3. CASE UNCHANGED <<ownVars, targetVars>>
      BY <2>1, <3>3 DEF Retire, FinishPass, flagVars, cameraVars, ownVars, targetVars, Owned, Owners
    <3> QED BY <3>1, <3>2, <3>3
  <2>2. CASE ~(Retire \/ FinishPass)
    BY <2>2 DEF PublishRetired, Receive, PublishConnect, CheckActive, Gate, PublishConnecting,
       RetryOrFail, PublishPass, Settle, flagVars, connVars, ownVars, targetVars, cameraVars,
       taskVars, Owned, Owners
  <2> QED BY <2>1, <2>2
<1>2. \/ pc' \notin {"each"} \cup AttemptPCs
      \/ UNCHANGED <<pc, inProgress>>
  BY DEF Retire, PublishRetired, Receive, PublishConnect, CheckActive, Gate, PublishConnecting,
     RetryOrFail, PublishPass, Settle, FinishPass, Returns, AttemptPCs, connVars, taskVars
<1>3. Pending' \subseteq Pending /\ (InPass' => InPass /\ inProgress' = inProgress)
  BY <1>1, <1>2 DEF Pending, InPass, AttemptPCs
<1>4. PassInv'
  BY <1>1, <1>3 DEF AttemptInv, PassInv, GivenUp, uiVars
<1>5. CancelInv'
  BY <1>1, <1>3 DEF AttemptInv, CancelInv, uiVars
<1>6. AbortInv'
  BY <1>1, <1>2 DEF AttemptInv, AbortInv, uiVars, AttemptPCs
<1>7. ~(pc = "attempt") \/ pc' = pc
  BY DEF Retire, PublishRetired, Receive, PublishConnect, CheckActive, Gate, PublishConnecting,
     RetryOrFail, PublishPass, Settle, FinishPass, TaskAt, taskVars
<1>8. FlagHasOwner'
  BY <1>1, <1>7 DEF AttemptInv, FlagHasOwner, Attempting, Owners, Owned, uiVars
<1> QED BY <1>4, <1>5, <1>6, <1>8 DEF AttemptInv

LEMMA ReapKeeps ==
  ASSUME IInv, AttemptInv, Reap
  PROVE  AttemptInv'
<1> USE DEF IInv, TypeOK, TargetTypeOK, CameraTypeOK
<1>1. /\ UNCHANGED <<abort, clearCancel, inProgress, token, targets, uiVars>>
      /\ pc = "reap" /\ pc' = "retire"
      /\ zombies' = zombies \ Reapable
      /\ connected' = [c \in Cameras |-> connected[c] /\ c \notin Reclaimed]
      /\ camOf' = [t \in Targets |-> IF t \in Reapable THEN NoCamera ELSE camOf[t]]
  BY DEF Reap, flagVars, connVars, FreeTargets, TaskAt
<1>2. Reapable \subseteq zombies
  BY DEF Reapable
<1>3. targets \cap Reapable = {}
  BY <1>2 DEF LifetimeInv
<1>4. PassInv' /\ AbortInv'
  BY <1>1 DEF AttemptInv, PassInv, AbortInv, InPass, Pending, AttemptPCs, uiVars
<1>5. CancelInv'
  BY <1>1, <1>3 DEF AttemptInv, CancelInv, InPass, Pending, AttemptPCs, uiVars
<1>6. FlagHasOwner'
  <2> SUFFICES ASSUME NEW c \in Cameras, connected'[c], ~GivenUp'
               PROVE  \E t \in targets' \cup zombies' : camOf'[t] = c
    BY DEF FlagHasOwner, GivenUp
  <2>1. connected[c] /\ c \notin Reclaimed
    BY <1>1
  <2>2. ~Attempting(c) /\ ~GivenUp
    BY <1>1 DEF Attempting, GivenUp, uiVars
  <2>3. PICK t \in targets \cup zombies : camOf[t] = c
    BY <2>1, <2>2 DEF AttemptInv, FlagHasOwner, GivenUp
  <2>4. t \notin Reapable
    BY <2>1, <2>3 DEF Reclaimed
  <2> QED BY <1>1, <2>3, <2>4
<1> QED BY <1>4, <1>5, <1>6 DEF AttemptInv

\* The control task begins a pass and goes from camera to camera.
LEMMA PassKeeps ==
  ASSUME IInv, AttemptInv,
         BeginPass \/ NextCamera \/ PublishCamera \/ EnterConnect \/ UnpublishCamera
  PROVE  AttemptInv'
<1> USE DEF IInv, TypeOK, TargetTypeOK, CameraTypeOK, TaskTypeOK
<1>1. CASE BeginPass
  <2> DEFINE Held == {camOf[t] : t \in targets \ DeclinedTargets}
  <2>1. /\ pc = "begin" /\ UNCHANGED <<abort, connected, uiVars>> /\ clearCancel' = FALSE
        /\ RetireDeclined
        /\ token' = [c \in Cameras |-> token[c] /\ ~(clearCancel /\ c \in Held)]
        /\ \/ pc' \in {"reap", "publish"}
           \/ pc' = "each" /\ inProgress' = TRUE /\ todo' = {c \in Held : ~connected[c]}
    BY <1>1 DEF BeginPass, TaskAt, Returns
  <2>2. Owned' = Owned /\ Owners' = Owners /\ targets' \subseteq targets /\ camOf' = camOf
    BY <2>1, RetireKeeps
  <2>3. Pending' \subseteq Held
    BY <2>1 DEF Pending, InPass, AttemptPCs
  <2>4. Held \subseteq Owned
    BY DEF Owned, Owners
  <2>5. PassInv'
    BY <2>1, <2>2, <2>3, <2>4 DEF PassInv, InPass, AttemptPCs
  <2>6. AbortInv'
    BY <2>1 DEF AttemptInv, AbortInv, AttemptPCs, uiVars
  <2>7. CancelInv'
    <3> SUFFICES ASSUME ui \in {"wait", "drain"}
                 PROVE  (\A t \in targets : token'[camOf[t]]) /\ (\A c \in Held : token'[c])
      BY <2>1, <2>2, <2>3 DEF CancelInv, uiVars
    <3>1. ~clearCancel /\ \A t \in targets : token[camOf[t]]
      BY DEF AttemptInv, CancelInv
    <3>2. \A t \in targets : camOf[t] \in Cameras
      BY DEF LifetimeInv
    <3> QED BY <2>1, <3>1, <3>2
  <2>8. FlagHasOwner'
    BY <2>1, <2>2 DEF AttemptInv, FlagHasOwner, Attempting, Owners, uiVars
  <2> QED BY <2>5, <2>6, <2>7, <2>8 DEF AttemptInv
<1>2. ASSUME UNCHANGED <<abort, clearCancel, inProgress, targets, zombies, camOf, connected,
                         token, uiVars>>,
             InPass, Pending' \subseteq Pending, pc # "attempt",
             pc' \in AttemptPCs => ~abort \/ pc \in AttemptPCs
      PROVE  AttemptInv'
  <2>1. PassInv' /\ CancelInv'
    BY <1>2 DEF AttemptInv, PassInv, CancelInv, GivenUp, Owned, Owners, uiVars
  <2>2. AbortInv'
    BY <1>2 DEF AttemptInv, AbortInv, uiVars
  <2>3. FlagHasOwner'
    BY <1>2 DEF AttemptInv, FlagHasOwner, Attempting, uiVars
  <2> QED BY <2>1, <2>2, <2>3 DEF AttemptInv
<1>3. CASE NextCamera
  <2>1. Pending' \subseteq Pending /\ InPass /\ pc = "each"
    BY <1>3 DEF NextCamera, TaskAt, Pending, InPass, AttemptPCs
  <2> QED BY <1>2, <1>3, <2>1 DEF NextCamera, flagVars, connVars, ownVars, targetVars, cameraVars,
             AttemptPCs
<1>4. CASE PublishCamera
  <2>1. Pending' = Pending /\ InPass /\ pc = "publishCam"
    BY <1>4 DEF PublishCamera, TaskAt, Pending, InPass, AttemptPCs
  <2> QED BY <1>2, <1>4, <2>1 DEF PublishCamera, flagVars, ownVars, targetVars, cameraVars,
             AttemptPCs
<1>5. CASE EnterConnect
  <2>1. Pending' = Pending /\ InPass /\ pc = "enter"
    BY <1>5 DEF EnterConnect, TaskAt, Pending, InPass, AttemptPCs
  <2> QED BY <1>2, <1>5, <2>1 DEF EnterConnect, flagVars, connVars, ownVars, targetVars, AttemptPCs
<1>6. CASE UnpublishCamera
  <2>1. Pending' \subseteq Pending /\ InPass /\ pc = "unpublishCam"
    BY <1>6 DEF UnpublishCamera, TaskAt, Pending, InPass, AttemptPCs
  <2> QED BY <1>2, <1>6, <2>1 DEF UnpublishCamera, flagVars, ownVars, targetVars, cameraVars,
             AttemptPCs
<1> QED BY <1>1, <1>3, <1>4, <1>5, <1>6

LEMMA ConnectKeeps ==
  ASSUME IInv, AttemptInv, ConnectSucceeds \/ ConnectFails
  PROVE  AttemptInv'
<1> USE DEF IInv, TypeOK, CameraTypeOK, TaskTypeOK
<1>1. /\ pc = "attempt" /\ pc' = "unpublishCam" /\ cur \in Cameras
      /\ UNCHANGED <<abort, clearCancel, inProgress, targets, zombies, camOf, token, todo,
                     cur, uiVars>>
  BY DEF ConnectSucceeds, ConnectFails, TaskAt, AttemptPCs, flagVars, connVars, ownVars, targetVars
<1>2. Pending' = Pending /\ InPass /\ InPass' /\ cur \in Pending
  BY <1>1 DEF Pending, InPass, AttemptPCs
<1>3. PassInv' /\ CancelInv'
  BY <1>1, <1>2 DEF AttemptInv, PassInv, CancelInv, GivenUp, Owned, Owners, uiVars
<1>4. AbortInv'
  BY <1>1 DEF AttemptInv, AbortInv, AttemptPCs, uiVars
<1>5. \A c \in Cameras : connected'[c] => connected[c]
  BY <1>1 DEF ConnectSucceeds, ConnectFails
<1>6. GivenUp \/ \E t \in targets \cup zombies : camOf[t] = cur
  BY <1>2 DEF AttemptInv, PassInv, Owned, Owners
<1>7. FlagHasOwner'
  BY <1>1, <1>5, <1>6 DEF AttemptInv, FlagHasOwner, Attempting, GivenUp, uiVars
<1> QED BY <1>3, <1>4, <1>7 DEF AttemptInv

-----------------------------------------------------------------------------
\* Target tasks, the radio and the timer: a link may come up or fall, and
\* nothing else of the attempts moves.
LEMMA EnvironmentKeeps ==
  ASSUME IInv, AttemptInv,
         \/ \E t \in Targets : TargetTask(t)
         \/ \E c \in Cameras : Radio(c)
         \/ DeadlinePasses \/ UNCHANGED vars
  PROVE  AttemptInv'
<1> USE DEF IInv, TypeOK, CameraTypeOK
<1>1. UNCHANGED <<abort, clearCancel, inProgress, targets, zombies, camOf, token,
                  pc, todo, cur, uiVars>>
  <2>1. ASSUME NEW t \in Targets, TargetTask(t)
        PROVE  UNCHANGED <<abort, clearCancel, inProgress, targets, zombies, camOf, token,
                           pc, todo, cur, uiVars>>
    BY <2>1 DEF TargetTask, TargetDisconnect, TargetStops, flagVars, connVars, ownVars, cameraVars,
       taskVars
  <2>2. ASSUME NEW c \in Cameras, Radio(c)
        PROVE  UNCHANGED <<abort, clearCancel, inProgress, targets, zombies, camOf, token,
                           pc, todo, cur, uiVars>>
    BY <2>2 DEF Radio, LinkUp, LinkLost, StrayLost, DeclinePairing, flagVars, connVars, ownVars,
       targetVars, taskVars
  <2>3. CASE DeadlinePasses \/ UNCHANGED vars
    BY <2>3 DEF DeadlinePasses, vars, flagVars, connVars, targetVars, cameraVars, taskVars, uiVars
  <2> QED BY <2>1, <2>2, <2>3
<1>2. \A c \in Cameras : connected'[c] => connected[c] \/ Attempting(c)
  <2>1. ASSUME NEW t \in Targets, TargetTask(t)
        PROVE  connected' = connected
    BY <2>1 DEF TargetTask, TargetDisconnect, TargetStops, cameraVars
  <2>2. ASSUME NEW c \in Cameras, Radio(c)
        PROVE  \A d \in Cameras : connected'[d] => connected[d] \/ Attempting(d)
    BY <2>2 DEF Radio, LinkUp, LinkLost, StrayLost, DeclinePairing
  <2>3. CASE DeadlinePasses \/ UNCHANGED vars
    BY <2>3 DEF DeadlinePasses, vars, cameraVars
  <2> QED BY <2>1, <2>2, <2>3
<1>3. PassInv' /\ CancelInv' /\ AbortInv'
  BY <1>1 DEF AttemptInv, PassInv, CancelInv, AbortInv, InPass, Pending, GivenUp, Owned, Owners,
     uiVars
<1>4. FlagHasOwner'
  BY <1>1, <1>2 DEF AttemptInv, FlagHasOwner, Attempting, uiVars
<1> QED BY <1>3, <1>4 DEF AttemptInv

-----------------------------------------------------------------------------
(***************************************************************************)
(* The caller.                                                             *)
(***************************************************************************)
\* A step of the caller that moves no target and no token.
LEMMA CallerMoves ==
  ASSUME IInv, AttemptInv,
         UNCHANGED <<inProgress, targets, zombies, camOf, token, connected, pc, todo, cur>>,
         GivenUp => GivenUp',
         ui' \in {"wait", "drain"} => ui \in {"wait", "drain"} /\ clearCancel' = clearCancel,
         ui' \in TeardownPCs => abort',
         settled' => abort' /\ pc \notin AttemptPCs
  PROVE  AttemptInv'
<1>1. Pending' = Pending /\ (InPass' <=> InPass) /\ Owned' = Owned
  BY DEF Pending, InPass, Owned, Owners
<1>2. PassInv'
  BY <1>1 DEF AttemptInv, PassInv
<1>3. CancelInv'
  BY <1>1 DEF AttemptInv, CancelInv
<1>4. AbortInv'
  BY DEF AbortInv
<1>5. FlagHasOwner'
  BY DEF AttemptInv, FlagHasOwner, Attempting, GivenUp
<1> QED BY <1>2, <1>3, <1>4, <1>5 DEF AttemptInv

LEMMA CallerKeeps ==
  ASSUME IInv, AttemptInv,
         \/ RequestConnect \/ ArmConnect \/ DisarmAbort \/ SendConnect \/ RequestDisconnect
         \/ PublishDisconnecting \/ TeardownSettles \/ TeardownTimesOut \/ PublishIdle
         \/ WakeControl \/ Settle("caller")
  PROVE  AttemptInv'
<1> USE DEF IInv, TypeOK, CallerTypeOK, flagVars, connVars, ownVars, targetVars, cameraVars,
        taskVars
<1>1. CASE RequestConnect \/ ArmConnect \/ SendConnect \/ WakeControl
  BY <1>1, CallerMoves DEF RequestConnect, ArmConnect, SendConnect, WakeControl, UiAt, GivenUp,
     AttemptInv, AbortInv, TeardownPCs
<1>2. CASE DisarmAbort \/ RequestDisconnect
  BY <1>2, CallerMoves DEF DisarmAbort, RequestDisconnect, UiAt, GivenUp, TeardownPCs
<1>3. CASE PublishDisconnecting \/ TeardownTimesOut \/ PublishIdle
  BY <1>3, CallerMoves DEF PublishDisconnecting, TeardownTimesOut, PublishIdle, UiAt, GivenUp,
     AttemptInv, AbortInv, TeardownPCs
<1>4. CASE TeardownSettles
  <2>1. pc \notin AttemptPCs
    BY <1>4 DEF TeardownSettles, TeardownSettled, AttemptInv, PassInv, InPass
  <2> QED BY <1>4, <2>1, CallerMoves DEF TeardownSettles, UiAt, GivenUp, AttemptInv, AbortInv,
             TeardownPCs
<1>5. CASE Settle("caller")
  BY <1>5, CallerMoves DEF Settle, uiVars, GivenUp, AttemptInv, AbortInv, CancelInv
<1> QED BY <1>1, <1>2, <1>3, <1>4, <1>5
\* disconnect() walks its targets: whatever the pass under way still holds is theirs.
LEMMA CancelKeeps ==
  ASSUME IInv, AttemptInv, CancelAll
  PROVE  AttemptInv'
<1> USE DEF IInv, TypeOK, TargetTypeOK, CameraTypeOK, TaskTypeOK
<1>1. /\ ui = "cancel" /\ ui' = "wait" /\ ~clearCancel'
      /\ token' = [c \in Cameras |-> token[c] \/ c \in Cancelled]
      /\ UNCHANGED <<abort, inProgress, targets, zombies, camOf, connected, pc, todo, cur,
                     forRestart, settled>>
  BY DEF CancelAll, UiAt, connVars, ownVars, taskVars
<1>2. Owned \subseteq Cancelled /\ ~GivenUp
  BY <1>1 DEF Owned, Owners, Cancelled, GivenUp
<1>3. Pending' = Pending /\ Pending \subseteq Owned /\ Owned' = Owned /\ Owned \subseteq Cameras
  BY <1>1, <1>2 DEF Pending, InPass, AttemptInv, PassInv, Owned, Owners, LifetimeInv
<1>4. PassInv'
  BY <1>1, <1>3 DEF AttemptInv, PassInv, InPass
<1>5. CancelInv'
  BY <1>1, <1>2, <1>3 DEF CancelInv, Owned, Owners
<1>6. AbortInv'
  BY <1>1 DEF AttemptInv, AbortInv, TeardownPCs
<1>7. FlagHasOwner'
  BY <1>1 DEF AttemptInv, FlagHasOwner, Attempting
<1> QED BY <1>4, <1>5, <1>6, <1>7 DEF AttemptInv

\* An interactive teardown drains every target; one ahead of a restart gives up.
LEMMA DrainKeeps ==
  ASSUME IInv, AttemptInv, DrainTargets
  PROVE  AttemptInv'
<1> USE DEF IInv, TypeOK, TargetTypeOK
<1>1. /\ ui = "drain" /\ ui' = "toIdle" /\ forRestart' = forRestart
      /\ zombies' = zombies \cup Drained /\ targets' = {}
      /\ UNCHANGED <<abort, inProgress, connected, pc, todo, cur, settled>>
      /\ FreeTargets(targets \ Drained)
  BY DEF DrainTargets, UiAt, cameraVars, taskVars, flagVars
<1>2. ~forRestart => targets' \cup zombies' = targets \cup zombies /\ camOf' = camOf
  BY <1>1 DEF Drained, FreeTargets
<1>3. forRestart => GivenUp'
  BY <1>1 DEF GivenUp
<1>4. PassInv'
  BY <1>1, <1>2, <1>3 DEF AttemptInv, PassInv, InPass, Pending, GivenUp, Owned, Owners
<1>5. CancelInv'
  BY <1>1 DEF CancelInv
<1>6. AbortInv'
  BY <1>1 DEF AttemptInv, AbortInv, TeardownPCs
<1>7. FlagHasOwner'
  BY <1>1, <1>2, <1>3 DEF AttemptInv, FlagHasOwner, Attempting, GivenUp
<1> QED BY <1>4, <1>5, <1>6, <1>7 DEF AttemptInv

\* addActive(): the new target's slot was free, and its camera reads down.
LEMMA AddKeeps ==
  ASSUME IInv, AttemptInv, NEW c \in Cameras, AddActive(c)
  PROVE  AttemptInv'
<1> USE DEF IInv, TypeOK, TargetTypeOK, CameraTypeOK
<1>1. /\ ui = "adding" /\ ui' = ui
      /\ UNCHANGED <<abort, clearCancel, inProgress, zombies, token, pc, todo, cur,
                     forRestart, settled>>
      /\ targets \subseteq targets'
      /\ \A d \in Cameras : connected'[d] => connected[d]
  BY DEF AddActive, UiAt, flagVars, connVars, taskVars
<1>2. \A t \in targets \cup zombies : camOf'[t] = camOf[t]
  BY DEF AddActive, LifetimeInv
<1>3. Owned \subseteq Owned' /\ Pending' = Pending
  BY <1>1, <1>2 DEF Owned, Owners, Pending, InPass
<1>4. PassInv'
  BY <1>1, <1>3 DEF AttemptInv, PassInv, InPass, GivenUp
<1>5. CancelInv'
  BY <1>1 DEF CancelInv
<1>6. AbortInv'
  BY <1>1 DEF AttemptInv, AbortInv
<1>7. FlagHasOwner'
  BY <1>1, <1>2 DEF AttemptInv, FlagHasOwner, Attempting
<1> QED BY <1>4, <1>5, <1>6, <1>7 DEF AttemptInv

-----------------------------------------------------------------------------
LEMMA AttemptInvariance == Spec => [](IInv /\ AttemptInv)
<1>1. IInv /\ AttemptInv /\ [Next]_vars => AttemptInv'
  BY TaskOutside, ReapKeeps, PassKeeps, ConnectKeeps, EnvironmentKeeps, CallerKeeps,
     CancelKeeps, DrainKeeps, AddKeeps
  DEF Next, Task, ConnectEnds, ConnectCaller, Teardown
<1> QED BY AttemptInit, Invariance, <1>1, PTL DEF Spec

-----------------------------------------------------------------------------
\* What m_Connected says of the client: a link that is up reads up, unless
\* addActive() reset the flag, and the late event of an earlier link finds no
\* link in its place.
ClientInv ==
  \A c \in Cameras :
    /\ client[c] \in {"dialing", "up"} => Attempting(c)
    /\ client[c] \in {"up", "live", "closing"} => connected[c] \/ c \in disowned
    /\ c \in stray => client[c] \in {"none", "dialing"}

LEMMA ClientStep == IInv /\ ClientInv /\ [Next]_vars => ClientInv'
<1> SUFFICES ASSUME IInv, ClientInv, [Next]_vars PROVE ClientInv'
  OBVIOUS
<1> USE DEF IInv, TypeOK, CameraTypeOK, ClientInv, Attempting
<1>1. CASE Reap
  BY <1>1 DEF Reap, TaskAt
<1>2. CASE EnterConnect
  <2>1. cur \in Cameras
    BY <1>2 DEF EnterConnect, TaskAt, TaskTypeOK, AttemptPCs
  <2> QED BY <1>2, <2>1 DEF EnterConnect, TaskAt
<1>3. CASE ConnectEnds
  BY <1>3 DEF ConnectEnds, ConnectSucceeds, ConnectFails, TaskAt
<1>4. CASE BeginPass
  BY <1>4 DEF BeginPass, TaskAt
<1>5. CASE \/ Retire \/ PublishRetired \/ Receive \/ PublishConnect \/ CheckActive \/ Gate
           \/ PublishConnecting \/ NextCamera \/ PublishCamera \/ UnpublishCamera \/ FinishPass
           \/ RetryOrFail \/ PublishPass
  <2>1. pc # "attempt" /\ UNCHANGED cameraVars
    BY <1>5 DEF Retire, PublishRetired, Receive, PublishConnect, CheckActive, Gate,
       PublishConnecting, NextCamera, PublishCamera, UnpublishCamera, FinishPass, RetryOrFail,
       PublishPass, TaskAt
  <2> QED BY <2>1 DEF cameraVars
<1>6. ASSUME NEW t \in Targets, TargetTask(t) PROVE ClientInv'
  BY <1>6 DEF TargetTask, TargetDisconnect, TargetStops, cameraVars, taskVars
<1>7. ASSUME NEW c \in Cameras, Radio(c) PROVE ClientInv'
  <2>1. UNCHANGED <<pc, cur>>
    BY <1>7 DEF Radio, LinkUp, LinkLost, StrayLost, DeclinePairing, taskVars
  <2>2. CASE LinkUp(c)
    BY <2>1, <2>2 DEF LinkUp
  <2>3. CASE LinkLost(c)
    BY <2>1, <2>3 DEF LinkLost
  <2>4. CASE StrayLost(c)
    BY <2>1, <2>4 DEF StrayLost
  <2>5. CASE DeclinePairing(c)
    BY <2>1, <2>5 DEF DeclinePairing
  <2> QED BY <1>7, <2>2, <2>3, <2>4, <2>5 DEF Radio
<1>8. ASSUME NEW c \in Cameras, AddActive(c) PROVE ClientInv'
  BY <1>8 DEF AddActive, taskVars
<1>9. CASE CancelAll
  BY <1>9 DEF CancelAll, taskVars
<1>10. CASE \/ RequestConnect \/ ArmConnect \/ DisarmAbort \/ SendConnect \/ RequestDisconnect
            \/ PublishDisconnecting \/ TeardownSettles \/ TeardownTimesOut \/ DrainTargets
            \/ PublishIdle \/ WakeControl \/ Settle("control") \/ Settle("caller")
            \/ DeadlinePasses \/ UNCHANGED vars
  BY <1>10 DEF RequestConnect, ArmConnect, DisarmAbort, SendConnect, RequestDisconnect,
     PublishDisconnecting, TeardownSettles, TeardownTimesOut, DrainTargets, PublishIdle,
     WakeControl, Settle, DeadlinePasses, vars, cameraVars, taskVars
<1> QED
  BY <1>1, <1>2, <1>3, <1>4, <1>5, <1>6, <1>7, <1>8, <1>9, <1>10
  DEF Next, Task, ConnectCaller, Teardown

\* A camera's client, connected by the flag or not, has an attempt or a target
\* that will take its link down: addActive(), retirement, the reaper and both
\* teardowns hand every link on.  The exceptions are a restart that ran out of
\* time and a link that addActive() made the camera forget.
THEOREM LinksHaveOwners == Spec => []LinkHasOwner
<1>1. Init => ClientInv
  BY DEF Init, ClientInv
<1>2. IInv /\ AttemptInv /\ ClientInv => LinkHasOwner
  BY DEF IInv, TypeOK, CameraTypeOK, AttemptInv, FlagHasOwner, ClientInv, LinkHasOwner
<1> QED BY <1>1, <1>2, ClientStep, Invariance, AttemptInvariance, PTL DEF Spec

\* While disconnect() waits, the attempt connect() is executing is cancelled,
\* also one begun between the abort request and the walk over the targets.
THEOREM AttemptsCancelled == Spec => []AttemptsAreCancelled
<1>1. AttemptInv => AttemptsAreCancelled
  BY DEF AttemptInv, CancelInv, AttemptsAreCancelled, Pending, InPass, AttemptPCs
<1> QED BY <1>1, AttemptInvariance, PTL

\* A disconnect() that returned within its cap leaves no attempt behind until
\* the next connect cycle is requested.
THEOREM SettledQuiet == Spec => []SettledIsQuiet
<1>1. AttemptInv => SettledIsQuiet
  BY DEF AttemptInv, AbortInv, SettledIsQuiet
<1> QED BY <1>1, AttemptInvariance, PTL

\* Only the pass that consumes a re-arm request clears a cancel token, and it
\* runs on the task that executes connect(): a cancelled attempt stays cancelled.
THEOREM CancelIsSticky == Spec => CancelSticks
<1>1. ASSUME IInv, [Next]_vars, pc = "attempt", token[cur]
      PROVE  token'[cur] \/ pc' # "attempt"
  <2>1. cur \in Cameras
    BY <1>1 DEF IInv, TypeOK, TaskTypeOK, AttemptPCs
  <2>2. ASSUME NEW d \in Cameras, AddActive(d) \/ Radio(d)
        PROVE  token' = token
    BY <2>2 DEF AddActive, Radio, LinkUp, LinkLost, StrayLost, DeclinePairing
  <2>3. ASSUME NEW t \in Targets, TargetTask(t)
        PROVE  token' = token
    BY <2>3 DEF TargetTask, TargetDisconnect, TargetStops, cameraVars
  <2>4. CASE \/ RequestConnect \/ ArmConnect \/ DisarmAbort \/ SendConnect \/ RequestDisconnect
             \/ PublishDisconnecting \/ TeardownSettles \/ TeardownTimesOut \/ DrainTargets
             \/ PublishIdle \/ WakeControl \/ Settle("control") \/ Settle("caller")
             \/ DeadlinePasses \/ UNCHANGED vars
    <3>1. token' = token
      BY <2>4 DEF RequestConnect, ArmConnect, DisarmAbort, SendConnect, RequestDisconnect,
         PublishDisconnecting, TeardownSettles, TeardownTimesOut, DrainTargets, PublishIdle,
         WakeControl, Settle, DeadlinePasses, vars, cameraVars
    <3> QED BY <1>1, <3>1
  <2>5. CASE CancelAll
    BY <1>1, <2>1, <2>5 DEF CancelAll
  <2>6. CASE Task /\ ~Settle("control")
    BY <1>1, <2>6 DEF Task, Reap, Retire, PublishRetired, Receive, PublishConnect, CheckActive,
       Gate, PublishConnecting, BeginPass, NextCamera, PublishCamera, EnterConnect, ConnectEnds,
       ConnectSucceeds, ConnectFails, UnpublishCamera, FinishPass, RetryOrFail, PublishPass, TaskAt
  <2> QED BY <1>1, <2>2, <2>3, <2>4, <2>5, <2>6 DEF Next, ConnectCaller, Teardown
<1>2. IInv /\ [Next]_vars => [pc = "attempt" /\ token[cur] => token'[cur] \/ pc' # "attempt"]_vars
  BY <1>1
<1> QED BY <1>2, Invariance, PTL DEF Spec, CancelSticks

-----------------------------------------------------------------------------
(***************************************************************************)
(* No circle of waiting: disconnect() waits for the target tasks and the   *)
(* pass, a target task for the attempt on its camera, and the pass for     *)
(* m_StateMutex.  The step named for each disjunct is possible.            *)
(***************************************************************************)
WaitIsServed ==
  ui = "wait" /\ ~forRestart =>
    \/ TeardownSettled                               \* TeardownSettles
    \/ stateOwner = "control"                        \* Settle("control")
    \/ stateOwner = "nobody" /\ pc \in PassPCs       \* the step at pc, or ConnectFails
    \/ \E t \in targets :
         \/ tgtTask[t] = "exiting"                   \* TargetStops(t)
         \/ /\ tgtTask[t] = "wait" /\ t \in told     \* TargetDisconnect(t)
            /\ ~Attempting(camOf[t])

\* The caller is out of setState() when it waits, and the pass that it waits for
\* is one the control task is in.
WaitInv ==
  /\ stateOwner = "caller" => ui \in {"cancel", "wake", "halted"}
  /\ inProgress => pc \in {"each", "finish"} \cup AttemptPCs

LEMMA WaitStep == WaitInv /\ [Next]_vars => WaitInv'
<1> SUFFICES ASSUME WaitInv, [Next]_vars PROVE WaitInv'
  OBVIOUS
<1> USE DEF WaitInv, AttemptPCs
<1>1. CASE \/ Reap \/ Retire \/ Receive \/ CheckActive \/ Gate \/ BeginPass \/ NextCamera
           \/ PublishCamera \/ EnterConnect \/ ConnectEnds \/ UnpublishCamera \/ FinishPass
           \/ RetryOrFail
  <2>1. UNCHANGED <<stateOwner, ui>>
    BY <1>1 DEF Reap, Retire, Receive, CheckActive, Gate, BeginPass, NextCamera, PublishCamera,
       EnterConnect, ConnectEnds, ConnectSucceeds, ConnectFails, UnpublishCamera, FinishPass,
       RetryOrFail, stateVars, uiVars
  <2>2. inProgress' => pc' \in {"each", "finish"} \cup AttemptPCs
    BY <1>1 DEF Reap, Retire, Receive, CheckActive, Gate, BeginPass, NextCamera, PublishCamera,
       EnterConnect, ConnectEnds, ConnectSucceeds, ConnectFails, UnpublishCamera, FinishPass,
       RetryOrFail, TaskAt, Returns, connVars
  <2> QED BY <2>1, <2>2
<1>2. CASE PublishRetired \/ PublishConnect \/ PublishConnecting \/ PublishPass
  <2>1. UNCHANGED <<ui, inProgress>> /\ ~inProgress /\ stateOwner' # "caller"
    BY <1>2 DEF PublishRetired, PublishConnect, PublishConnecting, PublishPass, SetState, TaskAt,
       connVars, uiVars
  <2> QED BY <2>1
<1>3. CASE PublishDisconnecting \/ PublishIdle
  BY <1>3 DEF PublishDisconnecting, PublishIdle, SetState, connVars, taskVars
<1>4. CASE Settle("control") \/ Settle("caller")
  BY <1>4 DEF Settle, connVars, taskVars
<1>5. CASE \/ RequestConnect \/ ArmConnect \/ DisarmAbort \/ SendConnect \/ RequestDisconnect
           \/ CancelAll \/ TeardownSettles \/ TeardownTimesOut \/ DrainTargets \/ WakeControl
           \/ \E c \in Cameras : AddActive(c)
  <2>1. UNCHANGED <<stateOwner, inProgress, pc>> /\ stateOwner # "caller"
    BY <1>5 DEF RequestConnect, ArmConnect, DisarmAbort, SendConnect, RequestDisconnect, CancelAll,
       TeardownSettles, TeardownTimesOut, DrainTargets, WakeControl, AddActive, UiAt, stateVars,
       connVars, taskVars
  <2> QED BY <2>1
<1>6. CASE DeadlinePasses \/ (\E c \in Cameras : Radio(c)) \/ (\E t \in Targets : TargetTask(t))
           \/ UNCHANGED vars
  BY <1>6 DEF DeadlinePasses, Radio, LinkUp, LinkLost, StrayLost, DeclinePairing, TargetTask,
     TargetDisconnect, TargetStops, vars, stateVars, connVars, taskVars, uiVars
<1> QED BY <1>1, <1>2, <1>3, <1>4, <1>5, <1>6 DEF Next, Task, ConnectCaller, Teardown

\* Whenever an interactive disconnect() waits, a thread it waits for has a step to
\* take: its time cap is never what ends a circle.
THEOREM WaitsAreServed == Spec => []WaitIsServed
<1>1. Init => WaitInv
  BY DEF Init, WaitInv
<1>2. IInv /\ WaitInv => WaitIsServed
  <2> SUFFICES ASSUME IInv, WaitInv, ui = "wait", ~forRestart, ~TeardownSettled,
                      stateOwner # "control"
               PROVE  \/ stateOwner = "nobody" /\ pc \in PassPCs
                      \/ \E t \in targets :
                           \/ tgtTask[t] = "exiting"
                           \/ tgtTask[t] = "wait" /\ t \in told /\ ~Attempting(camOf[t])
    BY DEF WaitIsServed
  <2>1. stateOwner = "nobody"
    BY DEF IInv, TypeOK, StateTypeOK, WaitInv
  <2>2. CASE inProgress \/ pc = "attempt"
    BY <2>1, <2>2 DEF WaitInv, PassPCs, AttemptPCs
  <2>3. CASE ~inProgress /\ pc # "attempt"
    <3>1. PICK t \in targets : ~Stopped(t)
      BY <2>3 DEF TeardownSettled
    <3>2. tgtTask[t] \in {"wait", "exiting"} /\ (tgtTask[t] = "wait" => t \in told)
      BY <3>1 DEF IInv, TypeOK, TargetTypeOK, LifetimeInv, Waiting, Stopped
    <3> QED BY <2>3, <3>1, <3>2 DEF Attempting
  <2> QED BY <2>2, <2>3
<1> QED BY <1>1, <1>2, Invariance, WaitStep, PTL DEF Spec
=============================================================================
