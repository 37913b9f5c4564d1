------------------------------ MODULE CameraLink ------------------------------
(***************************************************************************)
(* The link of one camera and its pairing prompt: Camera.cpp, with the     *)
(* NimBLE client it owns and the dialog of FurbleUI.cpp that answers.      *)
(*                                                                         *)
(* Four threads meet here.  The control task runs connect(), reaps the     *)
(* drain and reclaims clients; the target task disconnects; the NimBLE     *)
(* host task delivers the callbacks and frees the client that deletes      *)
(* itself; the UI task shows the code and answers.  m_Mutex keeps          *)
(* connect(), disconnect() and reclaimClient() apart; m_PairingMutex       *)
(* guards the request, and an answer holds it while it uses the client.    *)
(*                                                                         *)
(* Abstracted: what a vendor's _connect() does between the link coming up  *)
(* and its return; the code, which is the token of its request; the        *)
(* connection handle, which is the pool slot and so is used again by a     *)
(* later link.  A terminate answered inline is one whose event is next.    *)
(* Left out: builds with no prompt, vendors that accept by themselves,     *)
(* malformed and duplicate requests (refused without a change of state),   *)
(* the companion's prompt and the connection parameters.                   *)
(***************************************************************************)
EXTENDS Naturals, FiniteSets

CONSTANTS
  PoolSize,      \* slots of NimBLE's client pool
  MaxLinks,      \* links that come up
  MaxRequests,   \* pairing requests, far below the wrap of the 32-bit token
  MaxDraining    \* targets of the camera in the drain at once

ASSUME BoundAssumption == {PoolSize, MaxLinks, MaxRequests, MaxDraining} \subseteq Nat

Clients  == 1..PoolSize
NoClient == 0   \* nullptr

VARIABLES
  at,         \* where the control task is in connect()
  session,    \* the camera has a target in m_Targets
  told,       \* its targets in the drain whose task is still to disconnect
  stopped,    \* and those whose task has ended
  connected,  \* m_Connected
  mClient,    \* m_Client
  armed,      \* m_ClientDeleteOnDisconnect
  cancel,     \* m_CancelClient
  cancelled,  \* m_PairingCancelled
  request,    \* m_PairingType, code, deadline and handle
  token,      \* m_PairingToken
  pool,       \* the NimBLE clients
  host,       \* the client whose disconnect event the host task is handling
  hostStep,   \* "rest", "ended" after onDisconnect(), "refuse" a request
  links,      \* links so far; a link's number names it
  ui,         \* where the UI task is in the prompt's code
  dialog,     \* what the dialog shows and answers for
  answer,     \* the answer being given
  asked,      \* a CAMERA_PAIRING is in the UI's request queue
  polling     \* the pairing timer runs

controlVars == <<at, session, told, stopped>>
cameraVars  == <<connected, mClient, armed, cancel>>
promptVars  == <<cancelled, request, token>>
nimbleVars  == <<pool, host, hostStep, links>>
timerVars   == <<asked, polling>>
uiVars      == <<ui, dialog, answer, timerVars>>
vars == <<controlVars, cameraVars, promptVars, nimbleVars, uiVars>>

NoRequest == [type |-> "none", token |-> 0, handle |-> NoClient, due |-> FALSE, link |-> 0]
NoDialog  == [type |-> "none", token |-> 0, shown |-> 0]
NoAnswer  == [token |-> 0, accept |-> FALSE, client |-> NoClient, link |-> 0, of |-> NoRequest]
Free      == [status |-> "free", selfDelete |-> FALSE, attached |-> FALSE, link |-> 0]

Types    == {"display", "compare"}   \* PASSKEY_DISPLAY, NUMERIC_COMPARISON
Inside   == {"attempt", "handOver", "failed", "check", "arm", "clear", "detach"}
Pending  == request # NoRequest
Linked(c) == pool[c].status \in {"up", "closing"}

\* getConnectingCamera() or getTargetCameras() names the camera.
Visible == session \/ at \in Inside

Requests == {NoRequest} \cup
            [type : Types, token : 1..MaxRequests, handle : Clients, due : BOOLEAN,
             link : 0..MaxLinks]

Pools == [Clients -> [status : {"free", "new", "up", "closing", "down"},
                      selfDelete : BOOLEAN, attached : BOOLEAN, link : 0..MaxLinks]]

TypeOK ==
  /\ at \in Inside \cup {"rest", "create", "reclaim"}
  /\ session \in BOOLEAN
  /\ told \in Nat /\ stopped \in Nat /\ told + stopped <= MaxDraining
  /\ at = "reclaim" => stopped > 0
  /\ connected \in BOOLEAN /\ armed \in BOOLEAN /\ cancelled \in BOOLEAN
  /\ mClient \in Clients \cup {NoClient} /\ cancel \in Clients \cup {NoClient}
  /\ request \in Requests /\ token \in 0..MaxRequests
  /\ pool \in Pools
  /\ host \in Clients \cup {NoClient} /\ hostStep \in {"rest", "ended", "refuse"}
  /\ links \in 0..MaxLinks
  /\ ui \in {"rest", "latest", "cancel", "token", "code", "using"}
  /\ dialog \in [type : Types \cup {"none"}, token : 0..MaxRequests, shown : 0..MaxRequests]
  /\ answer \in [token : 0..MaxRequests, accept : BOOLEAN, client : Clients \cup {NoClient},
                 link : 0..MaxLinks, of : Requests]
  /\ asked \in BOOLEAN /\ polling \in BOOLEAN

Init ==
  /\ at = "rest" /\ session = FALSE /\ told = 0 /\ stopped = 0
  /\ connected = FALSE /\ mClient = NoClient /\ armed = FALSE /\ cancel = NoClient
  /\ cancelled = FALSE /\ request = NoRequest /\ token = 0
  /\ pool = [c \in Clients |-> Free] /\ host = NoClient /\ hostStep = "rest" /\ links = 0
  /\ ui = "rest" /\ dialog = NoDialog /\ answer = NoAnswer
  /\ asked = FALSE /\ polling = FALSE

-----------------------------------------------------------------------------
(***************************************************************************)
(* NimBLE: NimBLEClient.cpp and NimBLEDevice.cpp.                          *)
(***************************************************************************)
\* NimBLEClient::disconnect(): the event follows; a link already down is left alone.
Terminated(c) ==
  [pool EXCEPT ![c].status = IF @ = "up" THEN "closing" ELSE @]

\* NimBLEDevice::deleteClient(): now, or when the disconnect event arrives.
Deleted(p, c) ==
  [p EXCEPT ![c] = IF @.status \in {"up", "closing"}
                   THEN [@ EXCEPT !.status = "closing", !.selfDelete = TRUE] ELSE Free]

\* Detach the camera first, so that a late event finds the default callbacks.
Detached(c) == [pool EXCEPT ![c].attached = FALSE]

\* clearPairingRequest(): abandoned requests leave a verdict.
ClearRequest(abandoned) ==
  /\ cancelled' = (cancelled \/ (abandoned /\ Pending))
  /\ request' = NoRequest
  /\ UNCHANGED token

\* The UI task holds m_PairingMutex while it uses the client it took.
Locked == ui = "using"

HostRests == hostStep = "rest"

\* The link comes up during _connect(): onConnect().
LinkUp(c) ==
  /\ HostRests /\ links < MaxLinks
  /\ at = "attempt" /\ c = mClient /\ pool[c].status = "new"
  /\ links' = links + 1
  /\ pool' = [pool EXCEPT ![c].status = "up", ![c].link = links + 1]
  /\ connected' = TRUE
  /\ UNCHANGED <<controlVars, mClient, armed, cancel, promptVars, host, hostStep, uiVars>>

\* Faulty: the callback does not take m_PairingMutex.
OnDisconnectUnlocked(c) ==
  /\ HostRests /\ Linked(c)
  /\ IF pool[c].attached
     THEN ClearRequest(TRUE) /\ connected' = FALSE
     ELSE UNCHANGED <<promptVars, connected>>
  /\ host' = c /\ hostStep' = "ended"
  /\ UNCHANGED <<controlVars, mClient, armed, cancel, pool, links, uiVars>>

\* BLE_GAP_EVENT_DISCONNECT: onDisconnect() waits for m_PairingMutex.
OnDisconnect(c) ==
  /\ HostRests /\ Linked(c)
  /\ IF pool[c].attached
     THEN ~Locked /\ ClearRequest(TRUE) /\ connected' = FALSE
     ELSE UNCHANGED <<promptVars, connected>>
  /\ host' = c /\ hostStep' = "ended"
  /\ UNCHANGED <<controlVars, mClient, armed, cancel, pool, links, uiVars>>

\* The end of the event: a client set to delete itself is freed.
EndDisconnect ==
  /\ hostStep = "ended"
  /\ pool' = [pool EXCEPT ![host] = IF @.selfDelete THEN Free ELSE [@ EXCEPT !.status = "down"]]
  /\ host' = NoClient /\ hostStep' = "rest"
  /\ UNCHANGED <<controlVars, cameraVars, promptVars, links, uiVars>>

\* onPassKeyDisplay(), onConfirmPasskey(): publishPairingRequest(), with room in
\* the UI's request queue or not.
Publish(c, type) ==
  /\ HostRests /\ ~Locked /\ ~Pending /\ token < MaxRequests
  /\ pool[c].status = "up" /\ pool[c].attached
  /\ token' = token + 1
  /\ request' = [type |-> type, token |-> token + 1, handle |-> c, due |-> FALSE,
                 link |-> pool[c].link]
  /\ \/ asked' = TRUE /\ UNCHANGED <<host, hostStep>>
     \/ host' = c /\ hostStep' = "refuse" /\ UNCHANGED asked
  /\ UNCHANGED <<controlVars, cameraVars, cancelled, pool, links, ui, dialog, answer, polling>>

\* No room: cancelPairing(), which the UI task may have overtaken.
RefuseUnshown ==
  /\ hostStep = "refuse" /\ ~Locked
  /\ IF Pending
     THEN /\ ClearRequest(TRUE)
          /\ pool' = IF connected THEN Terminated(mClient) ELSE pool
     ELSE UNCHANGED <<promptVars, pool>>
  /\ host' = NoClient /\ hostStep' = "rest"
  /\ UNCHANGED <<controlVars, cameraVars, links, uiVars>>

\* The code was typed on the camera: onAuthenticationComplete().
OnAuthenticationComplete ==
  /\ HostRests /\ ~Locked /\ request.type = "display"
  /\ pool[request.handle].status = "up"
  /\ ClearRequest(FALSE)
  /\ UNCHANGED <<controlVars, cameraVars, nimbleVars, uiVars>>

\* The pairing window ends.
Expire ==
  /\ Pending /\ ~request.due
  /\ request' = [request EXCEPT !.due = TRUE]
  /\ UNCHANGED <<controlVars, cameraVars, cancelled, token, nimbleVars, uiVars>>

-----------------------------------------------------------------------------
(***************************************************************************)
(* The control task: connectAll() and Camera::connect().                   *)
(***************************************************************************)
\* The snapshot of connectAll() leaves a declined or connected camera out, and
\* the gate holds while a target drains.
Choose ==
  /\ at = "rest" /\ session /\ told + stopped = 0
  /\ ~cancelled /\ ~connected
  /\ at' = "create"
  /\ UNCHANGED <<session, told, stopped, cameraVars, promptVars, nimbleVars, uiVars>>

\* connect() up to _connect(): the client does not delete itself.
Create ==
  /\ at = "create" /\ ~Locked
  /\ ClearRequest(FALSE)
  /\ armed' = FALSE
  /\ \/ \E c \in Clients :
          /\ pool[c].status = "free" /\ \A d \in 1..(c - 1) : pool[d].status # "free"
          /\ pool' = [pool EXCEPT ![c] = [Free EXCEPT !.status = "new", !.attached = TRUE]]
          /\ mClient' = c /\ cancel' = c
          /\ at' = "attempt"
     \/ /\ \A c \in Clients : pool[c].status # "free"
        /\ mClient' = NoClient /\ at' = "rest"
        /\ UNCHANGED <<pool, cancel>>
  /\ UNCHANGED <<session, told, stopped, connected, host, hostStep, links, uiVars>>

\* _connect() returns, and the client is withdrawn from abortBlockingConnect().
ConnectReturns ==
  /\ at = "attempt"
  /\ \/ connected /\ at' = "handOver"
     \/ at' = "failed"
  /\ cancel' = NoClient
  /\ UNCHANGED <<session, told, stopped, connected, mClient, armed, promptVars,
                 nimbleVars, uiVars>>

\* The live client deletes itself from now on.
HandOver ==
  /\ at = "handOver"
  /\ pool' = [pool EXCEPT ![mClient].selfDelete = TRUE]
  /\ at' = "rest"
  /\ UNCHANGED <<session, told, stopped, cameraVars, promptVars, host, hostStep,
                 links, uiVars>>

\* The failure branch: _disconnect() with self-delete still off.
TakeDown ==
  /\ at = "failed"
  /\ pool' = IF connected THEN Terminated(mClient) ELSE pool
  /\ at' = IF connected /\ pool[mClient].status = "up" THEN "check" ELSE "clear"
  /\ UNCHANGED <<session, told, stopped, cameraVars, promptVars, host, hostStep,
                 links, uiVars>>

\* Is the disconnect event still to come?
CheckEvent ==
  /\ at = "check"
  /\ armed' = connected
  /\ at' = IF connected THEN "arm" ELSE "clear"
  /\ UNCHANGED <<session, told, stopped, connected, mClient, cancel, promptVars,
                 nimbleVars, uiVars>>

ArmDelete ==
  /\ at = "arm"
  /\ pool' = [pool EXCEPT ![mClient].selfDelete = TRUE]
  /\ at' = "clear"
  /\ UNCHANGED <<session, told, stopped, cameraVars, promptVars, host, hostStep,
                 links, uiVars>>

\* Faulty: m_Connected is left to the callback, which may never come.
KeepConnected ==
  /\ at = "clear"
  /\ at' = "detach"
  /\ UNCHANGED <<session, told, stopped, cameraVars, promptVars, nimbleVars, uiVars>>

ClearConnected ==
  /\ at = "clear"
  /\ connected' = FALSE
  /\ at' = "detach"
  /\ UNCHANGED <<session, told, stopped, mClient, armed, cancel, promptVars,
                 nimbleVars, uiVars>>

\* Under m_PairingMutex: the client frees itself, or is detached and deleted.
Detach ==
  /\ at = "detach" /\ ~Locked
  /\ pool' = IF armed THEN pool ELSE Deleted(Detached(mClient), mClient)
  /\ armed' = FALSE
  /\ mClient' = NoClient
  /\ at' = "rest"
  /\ UNCHANGED <<session, told, stopped, connected, cancel, promptVars, host,
                 hostStep, links, uiVars>>

\* Faulty: a declined camera that connected all the same stays.
RetireUnconnected ==
  /\ at = "rest" /\ session /\ cancelled /\ ~connected /\ told + stopped < MaxDraining
  /\ session' = FALSE /\ told' = told + 1
  /\ UNCHANGED <<at, stopped, cameraVars, promptVars, nimbleVars, uiVars>>

\* retireCancelledTargetsLocked(): a declined camera leaves the session.
RetireDeclined ==
  /\ at = "rest" /\ session /\ cancelled /\ told + stopped < MaxDraining
  /\ session' = FALSE /\ told' = told + 1
  /\ UNCHANGED <<at, stopped, cameraVars, promptVars, nimbleVars, uiVars>>

\* reapZombieTargets(), for one target: the link reads down, with no lock held,
\* or its deadline has passed.
Reap ==
  /\ at = "rest" /\ stopped > 0
  /\ IF connected THEN at' = "reclaim" /\ UNCHANGED stopped
     ELSE stopped' = stopped - 1 /\ UNCHANGED at
  /\ UNCHANGED <<session, told, cameraVars, promptVars, nimbleVars, uiVars>>

\* reclaimClient(), by when the client may have gone down and deleted itself.
Reclaim ==
  /\ at = "reclaim" /\ ~Locked
  /\ IF mClient = NoClient
     THEN UNCHANGED <<promptVars, pool>>
     ELSE ClearRequest(TRUE) /\ pool' = Deleted(Detached(mClient), mClient)
  /\ mClient' = NoClient /\ connected' = FALSE
  /\ stopped' = stopped - 1 /\ at' = "rest"
  /\ UNCHANGED <<session, told, armed, cancel, host, hostStep, links, uiVars>>

-----------------------------------------------------------------------------
(***************************************************************************)
(* The session around it: addActive(), disconnect() and the target's task. *)
(***************************************************************************)
\* The reaper holds Control's m_Mutex, which addActive() and disconnect() take.
Reaping == at = "reclaim"

AddActive ==
  /\ ~session /\ ~Reaping
  /\ session' = TRUE
  /\ cancelled' = FALSE /\ connected' = FALSE
  /\ UNCHANGED <<at, told, stopped, mClient, armed, cancel, request, token, nimbleVars, uiVars>>

Teardown ==
  /\ session /\ ~Reaping /\ told + stopped < MaxDraining
  /\ session' = FALSE /\ told' = told + 1
  /\ UNCHANGED <<at, stopped, cameraVars, promptVars, nimbleVars, uiVars>>

\* abortBlockingConnect(), called by the teardown.
AbortBlockingConnect ==
  /\ ~session /\ cancel # NoClient /\ pool[cancel].status = "up"
  /\ pool' = Terminated(cancel)
  /\ UNCHANGED <<controlVars, cameraVars, promptVars, host, hostStep, links, uiVars>>

\* Camera::disconnect() waits for connect() to release m_Mutex.
Disconnect ==
  /\ told > 0 /\ at \notin Inside
  /\ pool' = IF connected THEN Terminated(mClient) ELSE pool
  /\ told' = told - 1 /\ stopped' = stopped + 1
  /\ UNCHANGED <<at, session, cameraVars, promptVars, host, hostStep, links, uiVars>>

-----------------------------------------------------------------------------
(***************************************************************************)
(* The UI task: pairingTimer(), showCameraPairing() and the two buttons.   *)
(* Every read of the request takes m_PairingMutex for itself; reads that   *)
(* a change in between only makes come out as they would later are one.    *)
(***************************************************************************)
NoPrompt  == ui = "rest" /\ dialog = NoDialog
HasPrompt == ui = "rest" /\ dialog # NoDialog

\* showCameraPairing(), with no dialog open: cancelled when its window is over.
ShowPrompt ==
  IF request.due
  THEN ui' = "latest" /\ UNCHANGED dialog
  ELSE ui' = "token" /\ dialog' = [NoDialog EXCEPT !.type = request.type]

\* The request queue: CAMERA_PAIRING.
Serve ==
  /\ ui = "rest" /\ asked
  /\ asked' = FALSE /\ polling' = TRUE
  /\ IF NoPrompt /\ Visible /\ Pending THEN ShowPrompt ELSE UNCHANGED <<ui, dialog>>
  /\ UNCHANGED <<controlVars, cameraVars, promptVars, nimbleVars, answer>>

\* The timer with no dialog: a request is shown, and with none it stops.
Poll ==
  /\ NoPrompt /\ polling
  /\ IF Visible /\ Pending
     THEN ShowPrompt /\ UNCHANGED polling
     ELSE polling' = FALSE /\ UNCHANGED <<ui, dialog>>
  /\ UNCHANGED <<controlVars, cameraVars, promptVars, nimbleVars, answer, asked>>

ReadToken ==
  /\ ui = "token"
  /\ dialog' = [dialog EXCEPT !.token = token]
  /\ ui' = "code"
  /\ UNCHANGED <<controlVars, cameraVars, promptVars, nimbleVars, answer, timerVars>>

ReadCode ==
  /\ ui = "code"
  /\ dialog' = [dialog EXCEPT !.shown = request.token]
  /\ ui' = "rest"
  /\ UNCHANGED <<controlVars, cameraVars, promptVars, nimbleVars, answer, timerVars>>

\* cancelPairing() without a token reads the latest.
ReadLatest ==
  /\ ui = "latest"
  /\ answer' = [NoAnswer EXCEPT !.token = token]
  /\ ui' = "cancel"
  /\ UNCHANGED <<controlVars, cameraVars, promptVars, nimbleVars, dialog, timerVars>>

\* closePairingDialog(): the timer goes on for a request that is pending.
CloseDialog ==
  /\ dialog' = NoDialog
  /\ polling' = (polling /\ (dialog = NoDialog \/ (Visible /\ Pending)))
  /\ UNCHANGED asked

\* The timer closes a dialog whose request is gone or was replaced.
CloseStale ==
  /\ HasPrompt /\ polling
  /\ ~Pending \/ token # dialog.token
  /\ CloseDialog
  /\ UNCHANGED <<controlVars, cameraVars, promptVars, nimbleVars, ui, answer>>

\* Faulty: whatever request is pending is answered.
AnswersAny(t) == Pending

\* answerPairing() up to the use of the client, which it takes with the request.
Answers(t) == Pending /\ t = token

Answer(t, accept) ==
  /\ IF Answers(t)
     THEN LET accepted == accept /\ ~request.due
          IN /\ answer' = [token |-> t, accept |-> accepted, of |-> request,
                           client |-> IF connected THEN mClient ELSE NoClient,
                           link |-> IF connected THEN pool[mClient].link ELSE 0]
             /\ cancelled' = (cancelled \/ ~accepted)
             /\ request' = NoRequest
             /\ ui' = "using"
             /\ UNCHANGED <<dialog, timerVars>>
     ELSE /\ answer' = NoAnswer /\ ui' = "rest"
          /\ CloseDialog
          /\ UNCHANGED <<cancelled, request>>
  /\ UNCHANGED <<controlVars, cameraVars, token, nimbleVars>>

CancelLatest == ui = "cancel" /\ Answer(answer.token, FALSE)

\* Confirm, which only a comparison offers, and Cancel.
Press(accept) ==
  /\ HasPrompt
  /\ accept => dialog.type = "compare"
  /\ Answer(dialog.token, accept)

\* Faulty: the deadline is not looked at.
LapseReplaced ==
  /\ HasPrompt /\ polling /\ Pending /\ token # dialog.token /\ request.due
  /\ Answer(dialog.token, FALSE)

\* The timer again, when the window is over.
Lapse ==
  /\ HasPrompt /\ polling /\ Pending /\ token = dialog.token /\ request.due
  /\ Answer(dialog.token, FALSE)

\* The rest of answerPairing(), still under the mutex.
OwnLink == answer.client = answer.of.handle /\ Linked(answer.client)

\* injectConfirmPasskey(true).
Confirms == answer.accept /\ answer.of.type = "compare" /\ OwnLink

\* Nothing is taken down: no client, a confirmation, a link without a descriptor
\* any more, or a displayed code, which is not answered.
Spares == \/ answer.client = NoClient
          \/ IF answer.of.type = "compare" THEN OwnLink ELSE answer.accept

\* A refusal, or an answer for a link that was replaced.
Drops == /\ answer.client # NoClient
         /\ ~answer.accept \/ (answer.of.type = "compare" /\ ~OwnLink)

UseClient ==
  /\ ui = "using"
  /\ \/ Spares /\ UNCHANGED pool
     \/ Drops /\ pool' = Terminated(answer.client)
  /\ CloseDialog
  /\ ui' = "rest" /\ answer' = NoAnswer
  /\ UNCHANGED <<controlVars, cameraVars, promptVars, host, hostStep, links>>

-----------------------------------------------------------------------------
Connecting == Choose \/ Create \/ ConnectReturns \/ HandOver \/ TakeDown \/ CheckEvent
              \/ ArmDelete \/ ClearConnected \/ Detach
Session == AddActive \/ Teardown \/ AbortBlockingConnect
Host == \/ \E c \in Clients : LinkUp(c) \/ OnDisconnect(c) \/ \E type \in Types : Publish(c, type)
        \/ EndDisconnect \/ RefuseUnshown \/ OnAuthenticationComplete \/ Expire
Prompt == Serve \/ Poll \/ ReadToken \/ ReadCode \/ ReadLatest \/ CancelLatest \/ CloseStale \/ Lapse
          \/ UseClient

Next == Connecting \/ RetireDeclined \/ Reap \/ Reclaim \/ Session \/ Disconnect \/ Host \/ Prompt
        \/ \E accept \in BOOLEAN : Press(accept)

Spec == Init /\ [][Next]_vars

(***************************************************************************)
(* Fairness.  The tasks keep running, an attempt ends by its timeout, a    *)
(* window ends, and a link that is being closed goes down by its           *)
(* supervision timeout.  Nobody need add, tear down, press or pair.        *)
(***************************************************************************)
LinkEnds == \E c \in Clients : pool[c].status = "closing" /\ OnDisconnect(c)

FairSpec ==
  /\ Spec
  /\ WF_vars(Connecting \/ RetireDeclined \/ Reap \/ Reclaim) /\ WF_vars(Disconnect)
  /\ WF_vars(LinkEnds \/ EndDisconnect \/ RefuseUnshown)
  /\ WF_vars(Expire) /\ WF_vars(Prompt)

-----------------------------------------------------------------------------
(***************************************************************************)
(* What it promises.                                                       *)
(***************************************************************************)
\* A comparison is confirmed to the stack only for the code that was on the
\* screen and on the link that raised it, though request, token and code are
\* read under the mutex one at a time and the link may be replaced between.
AcceptedAsShown ==
  ui = "using" /\ Confirms =>
    dialog.shown = answer.of.token /\ pool[answer.client].link = answer.of.link

\* m_Connected read true means that m_Client is allocated and has a link or its
\* disconnect callback ahead of it: what every lock-free reader relies on.
ConnectedIsAlive == connected => mClient # NoClient /\ Linked(mClient)

\* The client an answer took is neither freed nor given to another link while
\* the answer uses it, though host task and control task both free clients.
AnswerHasClient ==
  ui = "using" /\ answer.client # NoClient =>
    pool[answer.client].status # "free" /\ pool[answer.client].link = answer.link

\* A prompt ends: answered, expired, or dropped with its link.
PromptEnds == (Pending /\ Visible) ~> (~Pending \/ ~Visible)

\* A camera that was declined leaves the session.
DeclineEnds == (cancelled /\ session) ~> ~session

\* Every client in the pool is one that connect() still holds or that is freed by
\* its disconnect event, as the clients that failed connects leave are said to be.
ClientsReturn ==
  \A c \in Clients :
    \/ pool[c].status = "free"
    \/ Linked(c) /\ pool[c].selfDelete
    \/ c = mClient /\ at \in Inside
==============================================================================
