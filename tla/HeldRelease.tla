----------------------------- MODULE HeldRelease -----------------------------
(***************************************************************************)
(* The shutter and focus presses of the WebUI and the releases they owe:   *)
(* queuePress() to retryReleases(), serviceTimerEvents() and stopServer()  *)
(* in src/FurbleWebUI.cpp, over Control::sendCameraCommand().              *)
(*                                                                         *)
(* The operations exclude each other by m_CommandMutex: "at" is the point  *)
(* the one under way has reached.  Between two calls it makes to Control,  *)
(* the session may end, a link may drop or come back, and a camera whose   *)
(* pairing was declined may be retired.                                    *)
(*                                                                         *)
(* Deadlines pass when they like, a timer fires after its deadline.  Time  *)
(* itself, the HTTP request and timers that fail to start are left out.    *)
(*                                                                         *)
(* A definition marked "Faulty" is the one after it with a bug put in; no  *)
(* specification uses it, and it shows that a property notices the bug.    *)
(***************************************************************************)
EXTENDS Integers, Sequences

CONSTANTS
  Cameras,      \* cameras, by address
  MaxSessions,  \* bound: target sessions
  MaxPresses,   \* bound: presses sent to Control, and holds prolonged
  MaxFaults     \* bound: links dropped and commands a full queue refused

ASSUME HeldAssumption ==
  MaxSessions \in Nat /\ MaxPresses \in Nat /\ MaxFaults \in Nat

Bits == {"SHUTTER", "FOCUS"}

VARIABLES
  session,     \* Control::m_SessionGeneration
  targets,     \* the cameras of Control::m_Targets
  connected,   \* those whose link is up
  pressed,     \* per button, the cameras that took a press and no release yet
  undue,       \* cameras that took a release the ledger said they owed, and did not
  held,        \* m_Held
  owed,        \* m_ReleasePending
  ledger,      \* m_HeldShutterTargets and m_HeldFocusTargets
  ownSession,  \* m_CommandSession
  deadline,    \* m_HoldDeadlineUs and m_FocusLeaseDeadlineUs
  holdTimer,   \* is m_HoldTimer armed?
  retryTimer,  \* is m_ReleaseTimer armed?
  events,      \* m_TimerEvents
  stopping,    \* m_Stopping
  at,          \* where the operation under m_CommandMutex is
  bit,         \* its heldBit,
  owned,       \* owned, queueRelease(),
  only,        \* the cameras it addresses, or that accepted the press,
  expect,      \* their session,
  rest,        \* and the buttons it has still to release
  presses, faults  \* how many of each there were

controlVars == <<session, targets, connected>>
cameraVars  == <<pressed, undue>>
ownVars     == <<held, owed, ledger, ownSession>>
timerVars   == <<deadline, holdTimer, retryTimer, events>>
opVars      == <<at, bit, owned, only, expect, rest>>

vars == <<session, targets, connected, pressed, undue, held, owed, ledger, ownSession,
          deadline, holdTimer, retryTimer, events, stopping,
          at, bit, owned, only, expect, rest, presses, faults>>

Points == {"idle", "press", "enter", "release", "send", "count"}

Nobody == [b \in Bits |-> {}]

Init ==
  /\ session = 0 /\ targets = {} /\ connected = {} /\ pressed = Nobody /\ undue = {}
  /\ held = {} /\ owed = {} /\ ledger = Nobody /\ ownSession = 0
  /\ deadline = [b \in Bits |-> "none"]
  /\ holdTimer = FALSE /\ retryTimer = FALSE /\ events = {}
  /\ stopping = TRUE
  /\ at = "idle" /\ bit = "SHUTTER" /\ owned = FALSE /\ only = {} /\ expect = 0 /\ rest = <<>>
  /\ presses = 0 /\ faults = 0

-----------------------------------------------------------------------------
(***************************************************************************)
(* The rest of the program: sessions, links, timers and the server.        *)
(***************************************************************************)
Connect ==
  /\ targets = {} /\ session < MaxSessions
  /\ targets' \in SUBSET Cameras \ {{}}
  /\ connected' = targets'
  /\ UNCHANGED <<session, cameraVars, ownVars, timerVars, stopping, opVars, presses, faults>>

EndSession ==
  /\ targets # {}
  /\ session' = session + 1
  /\ targets' = {} /\ connected' = {} /\ pressed' = Nobody
  /\ UNCHANGED <<undue, ownVars, timerVars, stopping, opVars, presses, faults>>

Drop ==
  /\ faults < MaxFaults
  /\ \E c \in connected : connected' = connected \ {c}
  /\ faults' = faults + 1
  /\ UNCHANGED <<session, targets, cameraVars, ownVars, timerVars, stopping, opVars, presses>>

Relink ==
  /\ \E c \in targets \ connected : connected' = connected \cup {c}
  /\ UNCHANGED <<session, targets, cameraVars, ownVars, timerVars, stopping, opVars, presses,
                 faults>>

\* A camera is retired; EndSession is the retirement of the last one.
Retire ==
  /\ \E c \in targets :
       /\ targets # {c}
       /\ targets' = targets \ {c} /\ connected' = connected \ {c}
       /\ pressed' = [b \in Bits |-> pressed[b] \ {c}]
  /\ UNCHANGED <<undue, session, ownVars, timerVars, stopping, opVars, presses, faults>>

Pass(b) ==
  /\ deadline[b] = "ahead"
  /\ deadline' = [deadline EXCEPT ![b] = "passed"]
  /\ UNCHANGED <<controlVars, cameraVars, ownVars, holdTimer, retryTimer, events, stopping, opVars,
                 presses, faults>>

\* holdTimerCallback() and releaseTimerCallback()
FireHold ==
  /\ holdTimer /\ deadline["SHUTTER"] = "passed"
  /\ holdTimer' = FALSE /\ events' = events \cup {"HOLD"}
  /\ UNCHANGED <<controlVars, cameraVars, ownVars, deadline, retryTimer, stopping, opVars, presses,
                 faults>>

FireRetry ==
  /\ retryTimer
  /\ retryTimer' = FALSE /\ events' = events \cup {"RETRY"}
  /\ UNCHANGED <<controlVars, cameraVars, ownVars, deadline, holdTimer, stopping, opVars, presses,
                 faults>>

StartServer ==
  /\ at = "idle" /\ stopping
  /\ stopping' = FALSE
  /\ UNCHANGED <<controlVars, cameraVars, ownVars, timerVars, opVars, presses, faults>>

-----------------------------------------------------------------------------
(***************************************************************************)
(* sendCameraCommand(): one section under Control::m_Mutex.  Of the        *)
(* connected cameras it addresses, those with a full queue refuse.         *)
(***************************************************************************)
Deliver(cs, accepted) ==
  /\ accepted \subseteq cs \cap connected
  /\ faults' = IF accepted = cs \cap connected THEN faults ELSE faults + 1
  /\ faults' <= MaxFaults

(***************************************************************************)
(* syncCommandSession(): ownership ends with the session it belongs to.    *)
(***************************************************************************)
Stale(s) == held \cup owed # {} /\ ownSession # s

Disown(s) ==
  /\ held' = {} /\ owed' = {} /\ ledger' = Nobody /\ ownSession' = s
  /\ deadline' = [b \in Bits |-> "none"]
  /\ holdTimer' = FALSE /\ retryTimer' = FALSE

\* The operation is over, or goes on with the next button.
Finish ==
  /\ IF rest = <<>> THEN at' = "idle" /\ bit' = "SHUTTER" /\ UNCHANGED rest
     ELSE IF Head(rest) \in Bits
     THEN at' = "release" /\ bit' = Head(rest) /\ rest' = Tail(rest)
     ELSE at' = "count" /\ bit' = "SHUTTER" /\ rest' = Tail(rest)
  /\ owned' = FALSE /\ only' = {} /\ expect' = 0

\* The first step of an operation on the buttons in bs.
Begin(bs) ==
  /\ at = "idle"
  /\ at' = "release" /\ bit' = Head(bs) /\ rest' = Tail(bs)
  /\ UNCHANGED <<owned, only, expect>>

\* The lease of a press: the focus deadline, or the deadline and the timer.
Lease(b) ==
  /\ deadline' = [deadline EXCEPT ![b] = "ahead"]
  /\ holdTimer' = (holdTimer \/ b = "SHUTTER")

(***************************************************************************)
(* queuePress() and queueHold() up to sendCameraCommand().  A press of a   *)
(* button that is held, or whose release is owed, sends nothing; a timed   *)
(* hold of a held one gets a new lease.  The state check is that there are *)
(* targets: a link that dropped just now still counts as active.           *)
(***************************************************************************)
Lapsed(b) == b = "SHUTTER" /\ deadline[b] = "passed" /\ ~holdTimer

PressStale ==
  /\ at = "idle" /\ ~stopping /\ targets # {} /\ Stale(session)
  /\ Disown(session)
  /\ UNCHANGED <<controlVars, cameraVars, events, stopping, opVars, presses, faults>>

\* Faulty: stops the timer and does not start it again.
HoldUnarmed ==
  /\ at = "idle" /\ ~stopping /\ targets # {} /\ ~Stale(session)
  /\ "SHUTTER" \in held \ owed /\ ~Lapsed("SHUTTER") /\ presses < MaxPresses
  /\ presses' = presses + 1
  /\ deadline' = [deadline EXCEPT !["SHUTTER"] = "ahead"] /\ holdTimer' = FALSE
  /\ UNCHANGED <<controlVars, cameraVars, ownVars, retryTimer, events, stopping, opVars,
                 faults>>

HoldAgain ==
  /\ at = "idle" /\ ~stopping /\ targets # {} /\ ~Stale(session)
  /\ "SHUTTER" \in held \ owed /\ ~Lapsed("SHUTTER") /\ presses < MaxPresses
  /\ presses' = presses + 1
  /\ Lease("SHUTTER")
  /\ UNCHANGED <<controlVars, cameraVars, ownVars, retryTimer, events, stopping, opVars,
                 faults>>

Press(b) ==
  /\ at = "idle" /\ ~stopping /\ targets # {} /\ ~Stale(session)
  /\ b \notin held \cup owed /\ presses < MaxPresses
  /\ presses' = presses + 1
  /\ at' = "press" /\ bit' = b
  /\ IF b = "SHUTTER"
     THEN deadline' = [deadline EXCEPT ![b] = "none"] /\ holdTimer' = FALSE
     ELSE UNCHANGED <<deadline, holdTimer>>
  /\ UNCHANGED <<controlVars, cameraVars, ownVars, retryTimer, events, stopping, owned, only,
                 expect, rest, faults>>

SendPress ==
  /\ at = "press"
  /\ \E accepted \in SUBSET connected :
       /\ Deliver(connected, accepted)
       /\ pressed' = [pressed EXCEPT ![bit] = @ \cup accepted]
       /\ only' = accepted
       /\ IF accepted = {}
          THEN at' = "idle" /\ bit' = "SHUTTER" /\ UNCHANGED expect
          ELSE at' = "enter" /\ expect' = session /\ UNCHANGED bit
  /\ UNCHANGED <<undue, controlVars, ownVars, timerVars, stopping, owned, rest, presses>>

\* What was accepted is entered under the session it was accepted in.
EnterStale ==
  /\ at = "enter" /\ Stale(expect)
  /\ Disown(expect)
  /\ UNCHANGED <<controlVars, cameraVars, events, stopping, opVars, presses, faults>>

\* Faulty: enters it under the session that is current by now.
EnterLate ==
  /\ at = "enter" /\ ~Stale(expect)
  /\ held' = held \cup {bit} /\ owed' = owed \ {bit}
  /\ ledger' = [ledger EXCEPT ![bit] = only] /\ ownSession' = session
  /\ Lease(bit)
  /\ Finish
  /\ UNCHANGED <<controlVars, cameraVars, retryTimer, events, stopping, presses, faults>>

Enter ==
  /\ at = "enter" /\ ~Stale(expect)
  /\ held' = held \cup {bit} /\ owed' = owed \ {bit}
  /\ ledger' = [ledger EXCEPT ![bit] = only] /\ ownSession' = expect
  /\ Lease(bit)
  /\ Finish
  /\ UNCHANGED <<controlVars, cameraVars, retryTimer, events, stopping, presses, faults>>

-----------------------------------------------------------------------------
(***************************************************************************)
(* queueRelease() up to sendCameraCommand().  The cameras of a press that  *)
(* is owned are those in the ledger; a release nobody here owes goes to    *)
(* every connected camera.                                                 *)
(***************************************************************************)
Disarm(b) ==
  /\ deadline' = [deadline EXCEPT ![b] = "none"]
  /\ holdTimer' = (holdTimer /\ b # "SHUTTER")

Owns(b) == b \in held \cup owed

ReleaseStale ==
  /\ at = "release" /\ Stale(session)
  /\ Disown(session)
  /\ Finish
  /\ UNCHANGED <<controlVars, cameraVars, events, stopping, presses, faults>>

ReleaseNothing ==
  /\ at = "release" /\ ~Stale(session)
  /\ IF Owns(bit) THEN ledger[bit] = {} ELSE connected = {}
  /\ held' = held \ {bit} /\ owed' = owed \ {bit}
  /\ Disarm(bit)
  /\ Finish
  /\ UNCHANGED <<controlVars, cameraVars, ledger, ownSession, retryTimer, events, stopping,
                 presses, faults>>

ReleaseOwned ==
  /\ at = "release" /\ ~Stale(session) /\ Owns(bit) /\ ledger[bit] # {}
  /\ owed' = owed \cup {bit}
  /\ Disarm(bit)
  /\ at' = "send" /\ owned' = TRUE /\ only' = ledger[bit] /\ expect' = ownSession
  /\ UNCHANGED <<controlVars, cameraVars, held, ledger, ownSession, retryTimer, events, stopping,
                 bit, rest, presses, faults>>

ReleaseForeign ==
  /\ at = "release" /\ ~Stale(session) /\ ~Owns(bit) /\ connected # {}
  /\ Disarm(bit)
  /\ at' = "send" /\ owned' = FALSE /\ only' = connected /\ expect' = session
  /\ UNCHANGED <<controlVars, cameraVars, ownVars, retryTimer, events, stopping, bit, rest,
                 presses, faults>>

(***************************************************************************)
(* The release is sent to the cameras it addresses, in the session it is   *)
(* meant for or not at all.  A camera that took it is struck off; while    *)
(* one is left the retry timer runs.                                       *)
(***************************************************************************)
SendRefused ==
  /\ at = "send" /\ session # expect
  /\ IF Stale(session) THEN Disown(session)
     ELSE UNCHANGED <<ownVars, deadline, holdTimer, retryTimer>>
  /\ Finish
  /\ UNCHANGED <<controlVars, cameraVars, events, stopping, presses, faults>>

\* Faulty: done when every connected camera took it.
StruckConnected(accepted) ==
  IF accepted = only \cap connected THEN {} ELSE ledger[bit] \ accepted

Struck(accepted) == ledger[bit] \ accepted

Addressed == only \cap connected

SendRelease ==
  /\ at = "send" /\ session = expect
  /\ \E accepted \in SUBSET Addressed :
       /\ Deliver(Addressed, accepted)
       /\ pressed' = [pressed EXCEPT ![bit] = @ \ accepted]
       /\ undue' = IF owned THEN undue \cup (accepted \ pressed[bit]) ELSE undue
       /\ ledger' = [ledger EXCEPT ![bit] = Struck(accepted)]
  /\ IF ledger'[bit] = {} /\ owned
     THEN held' = held \ {bit} /\ owed' = owed \ {bit} /\ UNCHANGED retryTimer
     ELSE retryTimer' = (retryTimer \/ owned) /\ UNCHANGED <<held, owed>>
  /\ Finish
  /\ UNCHANGED <<controlVars, ownSession, deadline, holdTimer, events, stopping, presses>>

-----------------------------------------------------------------------------
(***************************************************************************)
(* Who releases: the user, the supervisor task in serviceTimerEvents(),    *)
(* and stopServer() through releaseAll().                                  *)
(***************************************************************************)
Release(b) ==
  /\ Begin(<<b>>)
  /\ UNCHANGED <<controlVars, cameraVars, ownVars, timerVars, stopping, presses, faults>>

Sync ==
  /\ at = "idle" /\ Stale(session)
  /\ Disown(session)
  /\ UNCHANGED <<controlVars, cameraVars, events, stopping, opVars, presses, faults>>

ExpireFocus ==
  /\ deadline["FOCUS"] = "passed"
  /\ Begin(<<"FOCUS">>)
  /\ deadline' = [deadline EXCEPT !["FOCUS"] = "none"]
  /\ UNCHANGED <<controlVars, cameraVars, ownVars, holdTimer, retryTimer, events, stopping,
                 presses, faults>>

\* A wake whose hold was released, or replaced by a longer one, is ignored.
ExpireHold ==
  /\ "HOLD" \in events /\ at = "idle"
  /\ events' = events \ {"HOLD"}
  /\ IF Lapsed("SHUTTER")
     THEN Begin(<<"SHUTTER">>) /\ deadline' = [deadline EXCEPT !["SHUTTER"] = "none"]
     ELSE UNCHANGED <<deadline, opVars>>
  /\ UNCHANGED <<controlVars, cameraVars, ownVars, holdTimer, retryTimer, stopping, presses,
                 faults>>

\* The buttons in bs, in the order the code asks for them.
InOrder(bs) ==
  (IF "SHUTTER" \in bs THEN <<"SHUTTER">> ELSE <<>>)
    \o (IF "FOCUS" \in bs THEN <<"FOCUS">> ELSE <<>>)

RetryReleases ==
  /\ "RETRY" \in events
  /\ events' = events \ {"RETRY"}
  /\ IF owed = {} THEN at = "idle" /\ at' = "count" /\ UNCHANGED <<bit, owned, only, expect, rest>>
     ELSE Begin(InOrder(owed) \o <<"count">>)
  /\ UNCHANGED <<controlVars, cameraVars, ownVars, deadline, holdTimer, retryTimer, stopping,
                 presses, faults>>

Count ==
  /\ at = "count"
  /\ IF targets = {} THEN held' = {} /\ owed' = {} ELSE UNCHANGED <<held, owed>>
  /\ Finish
  /\ UNCHANGED <<controlVars, cameraVars, ledger, ownSession, timerVars, stopping, presses, faults>>

ReleaseAll ==
  /\ at = "idle" /\ ~stopping
  /\ stopping' = TRUE
  /\ deadline' = [b \in Bits |-> "none"] /\ holdTimer' = FALSE
  /\ IF held = {} THEN UNCHANGED opVars ELSE Begin(InOrder(held))
  /\ UNCHANGED <<controlVars, cameraVars, ownVars, retryTimer, events, presses, faults>>

-----------------------------------------------------------------------------
\* An operation under m_CommandMutex, once it has begun.
GoOn ==
  \/ SendPress \/ EnterStale \/ Enter
  \/ ReleaseStale \/ ReleaseNothing \/ ReleaseOwned \/ ReleaseForeign
  \/ SendRefused \/ SendRelease \/ Count

Supervisor == Sync \/ ExpireFocus \/ ExpireHold \/ RetryReleases

Handler ==
  \/ PressStale \/ HoldAgain
  \/ \E b \in Bits : Press(b) \/ Release(b)

Timers == FireHold \/ FireRetry \/ \E b \in Bits : Pass(b)

Next ==
  \/ GoOn \/ Supervisor \/ Handler \/ Timers
  \/ Connect \/ EndSession \/ Drop \/ Relink \/ Retire
  \/ StartServer \/ ReleaseAll

Spec == Init /\ [][Next]_vars

\* An operation under way and the timers go on, m_CommandMutex is handed to the
\* supervisor when it waits, and a link that dropped comes back.
FairSpec ==
  /\ Spec
  /\ WF_vars(GoOn) /\ WF_vars(FireHold) /\ WF_vars(FireRetry)
  /\ \A b \in Bits : WF_vars(Pass(b))
  /\ SF_vars(Sync) /\ SF_vars(ExpireFocus) /\ SF_vars(ExpireHold) /\ SF_vars(RetryReleases)
  /\ WF_vars(Relink)

-----------------------------------------------------------------------------
\* Every field keeps its type.
TypeOK ==
  /\ session \in 0..MaxSessions /\ targets \subseteq Cameras /\ connected \subseteq targets
  /\ pressed \in [Bits -> SUBSET Cameras] /\ undue \subseteq Cameras
  /\ held \subseteq Bits /\ owed \subseteq held
  /\ ledger \in [Bits -> SUBSET Cameras] /\ ownSession \in 0..MaxSessions
  /\ deadline \in [Bits -> {"none", "ahead", "passed"}]
  /\ holdTimer \in BOOLEAN /\ retryTimer \in BOOLEAN /\ events \subseteq {"HOLD", "RETRY"}
  /\ stopping \in BOOLEAN
  /\ at \in Points /\ bit \in Bits /\ owned \in BOOLEAN /\ only \subseteq Cameras
  /\ expect \in 0..MaxSessions /\ rest \in Seq(Bits \cup {"count"})
  /\ presses \in 0..MaxPresses /\ faults \in 0..MaxFaults

\* A camera that took a press and no release is owed one: it is in the ledger of
\* the current session, or about to be entered, and the button counts as held,
\* over lost links, refused releases and sessions that end at any point.
NoneForgotten ==
  \A b \in Bits : pressed[b] # {} =>
    \/ b \in held /\ ownSession = session /\ pressed[b] \subseteq ledger[b]
    \/ at = "enter" /\ bit = b /\ expect = session /\ pressed[b] \subseteq only

\* A release that is owed reaches no camera but those that took the press in
\* this session and have had no release yet (FurbleWebUI.cpp:1371-1373).
OwedOnly == undue = {}

\* A press does not outlast its lease for ever: the button is released, or the
\* session ends, unless a camera in the ledger was retired before its release.
HoldEnds ==
  \A b \in Bits :
    b \in held ~> b \notin held \/ ~(ledger[b] \subseteq targets)
==============================================================================
