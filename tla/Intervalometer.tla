--------------------------- MODULE Intervalometer ---------------------------
(***************************************************************************)
(* The intervalometer (UI::intervalometer() and FurbleUIIntervalometer.cpp)*)
(* with the part of the UI it lives in: the connect timer, the page shown  *)
(* and the way a session begins and ends.  A run may power the device off  *)
(* between two shots, with a record in NVS and a wake timer set, and go on *)
(* after the boot.  Time is abstracted: a timer fires at any moment it     *)
(* runs.  Control is reduced to the state it publishes, the links and the  *)
(* command queue of each target; Control and TargetQueue model it.         *)
(***************************************************************************)
EXTENDS Integers, Sequences, FiniteSets

CONSTANTS
  Cameras,      \* saved cameras
  NoCamera,
  MaxCount,     \* 999 in the code
  QueueLength   \* bound on the shutter commands queued for a target, 8 in the code

ASSUME IntervalometerAssumption ==
  /\ NoCamera \notin Cameras
  /\ MaxCount \in Nat
  /\ QueueLength \in Nat \ {0}

VARIABLES
  power,        \* "on", "asleep" with the wake timer set, or "off"
  record,       \* NVS: "ivl_resume"
  sleepOn,      \* NVS: IVL_SLEEP
  count,        \* m_Count
  st, shots,    \* m_State, m_CountShots
  timerOn,      \* m_IntervalTimer is not paused
  resume,       \* m_Resume while m_ResumePending
  ui, chosen,   \* where the UI task blocks in STATE_DELAY, the camera it took
  page,         \* "run", the page that holds Stop, or any other
  box,          \* the progress box with Cancel is shown
  watch,        \* m_ConnectTimer is not paused
  established,  \* sessionEstablished
  ctl,          \* the state Control publishes
  targets, up,  \* the cameras of the session, those of them that are linked
  inbox, open,  \* commands queued for a target, cameras whose shutter is held
  missed,       \* history: cameras the last release did not reach
  wanted, fired \* history: the user wants the run, the shots it has taken

nvs == <<record, sleepOn>>
run == <<st, shots, timerOn, resume>>
block == <<ui, chosen>>
screen == <<page, box, watch, established>>
link == <<ctl, targets, up>>
shutter == <<inbox, open, missed>>
history == <<wanted, fired>>
vars == <<power, nvs, count, run, block, screen, link, shutter, history>>

NoRecord == [camera |-> NoCamera, shots |-> 0, goal |-> 0]
Counts == 0..MaxCount

Free == power = "on" /\ ui = "free"
UnderWay == timerOn /\ st # "FINISHED"

-----------------------------------------------------------------------------
(* What several handlers do.                                               *)

\* prefs.remove() may fail, and its result is not looked at.
Erase == record' \in {record, NoRecord}

ClearResume == Erase /\ resume' = NoRecord

\* sendCommand(): only linked targets get it, and a full queue refuses it.
\* Other commands share the queue, so it may be full at any moment.
Send(cmd) ==
  \E T \in SUBSET {c \in targets \cap up : Len(inbox[c]) < QueueLength} :
    /\ inbox' = [c \in Cameras |-> IF c \in T THEN Append(inbox[c], cmd) ELSE inbox[c]]
    /\ missed' = IF cmd = "release" THEN (missed \ T) \cup (targets \ T) ELSE missed
    /\ UNCHANGED open

EndSession ==
  /\ ctl' = "idle" /\ targets' = {} /\ up' = {}
  /\ inbox' = [c \in Cameras |-> <<>>] /\ open' = {} /\ missed' = {}

\* doDisconnect(), which leaves the interval timer as it is.
DoDisconnect == EndSession /\ watch' = FALSE /\ established' = FALSE /\ box' = FALSE

\* doConnect(): Control is taken to accept the request at once.
DoConnect(S) ==
  /\ targets' = targets \cup S /\ UNCHANGED up /\ ctl' = "connecting"
  /\ watch' = TRUE /\ established' = FALSE

\* What power leaves of the run and the screen.
Forget ==
  /\ st' = "IDLE" /\ shots' = 0 /\ timerOn' = FALSE
  /\ ui' = "free" /\ chosen' = NoCamera
  /\ page' = "other"

Init ==
  /\ power = "off" /\ record = NoRecord /\ sleepOn \in BOOLEAN /\ count \in Counts
  /\ st = "IDLE" /\ shots = 0 /\ timerOn = FALSE /\ resume = NoRecord
  /\ ui = "free" /\ chosen = NoCamera
  /\ page = "other" /\ box = FALSE /\ watch = FALSE /\ established = FALSE
  /\ ctl = "idle" /\ targets = {} /\ up = {}
  /\ inbox = [c \in Cameras |-> <<>>] /\ open = {} /\ missed = {}
  /\ wanted = FALSE /\ fired = 0

-----------------------------------------------------------------------------
(* The interval timer.                                                     *)

TimerIdle ==
  /\ Free /\ timerOn /\ st = "IDLE"
  /\ shots' = 0 /\ st' = "WAIT"
  /\ UNCHANGED <<power, nvs, count, timerOn, resume, block, screen, link, shutter, history>>

TimerWait ==
  /\ Free /\ timerOn /\ st = "WAIT"
  /\ st' = "SHUTTER_OPEN"
  /\ UNCHANGED <<power, nvs, count, shots, timerOn, resume, block, screen, link, shutter, history>>

TimerShutterOpen ==
  /\ Free /\ timerOn /\ st = "SHUTTER_OPEN"
  /\ shots' = shots + 1 /\ fired' = fired + 1
  /\ Send("press")
  /\ st' = "DELAY"
  /\ UNCHANGED <<power, nvs, count, timerOn, resume, block, screen, link, wanted>>

\* The last shot ends the run.  Otherwise the device may be powered off until
\* the next one: when the user chose so, one camera is connected and the delay,
\* which is abstracted, is long enough.
TimerDelay ==
  /\ Free /\ timerOn /\ st = "DELAY"
  /\ Send("release")
  /\ \/ /\ shots >= count
        /\ st' = "FINISHED"
        /\ UNCHANGED block
     \/ /\ shots < count
        /\ st' = "SHUTTER_OPEN"
        /\ \/ UNCHANGED block
           \/ /\ sleepOn /\ Cardinality(targets) = 1
              /\ ui' = "wait" /\ chosen' \in targets
  /\ UNCHANGED <<power, nvs, count, shots, timerOn, resume, screen, link, history>>

TimerFinished ==
  /\ Free /\ timerOn /\ st = "FINISHED"
  /\ ClearResume /\ timerOn' = FALSE /\ wanted' = FALSE
  /\ UNCHANGED <<power, sleepOn, count, st, shots, block, screen, link, shutter, fired>>

\* Faulty: the release that was just sent is taken to be done.
CommandsAssumedIdle == TRUE

\* idle() of every target.
CommandsIdle == \A c \in targets : inbox[c] = <<>>

\* waitForCameraCommands(), which gives up after RESUME_RELEASE_WAIT_MS.
WaitForCommands ==
  /\ power = "on" /\ ui = "wait"
  /\ \/ CommandsIdle /\ ui' = "save" /\ UNCHANGED chosen
     \/ ~CommandsIdle /\ ui' = "free" /\ chosen' = NoCamera
  /\ UNCHANGED <<power, nvs, count, run, screen, link, shutter, history>>

\* A write may fail, and may have taken effect when it does.
SaveResume ==
  LET new == [camera |-> chosen, shots |-> shots, goal |-> count] IN
  /\ power = "on" /\ ui = "save"
  /\ \/ record' = new /\ resume' = new /\ ui' = "sleep" /\ UNCHANGED chosen
     \/ record' \in {record, new} /\ resume' = NoRecord /\ ui' = "free" /\ chosen' = NoCamera
  /\ UNCHANGED <<power, sleepOn, count, st, shots, timerOn, screen, link, shutter, history>>

\* powerOffUntil() sets the wake timer and cuts power, or reports failure.
PowerOffUntil ==
  /\ power = "on" /\ ui = "sleep"
  /\ \/ /\ power' = "asleep" /\ Forget /\ resume' = NoRecord
        /\ DoDisconnect
        /\ UNCHANGED <<record, history>>
     \/ /\ ClearResume /\ ui' = "free" /\ chosen' = NoCamera
        /\ UNCHANGED <<power, st, shots, timerOn, screen, link, shutter, history>>
  /\ UNCHANGED <<sleepOn, count>>

-----------------------------------------------------------------------------
(* Start-up and power.                                                     *)

\* Faulty: any boot accepts the record.
AcceptsAnyWake(timed, fits) == record # NoRecord /\ sleepOn /\ fits

\* loadResume(): the wake timer caused this boot, and the wall clock, when it
\* can be trusted, is close enough to the saved wake time.
Accepts(timed, fits) == record # NoRecord /\ sleepOn /\ timed /\ fits

\* The first main page connects the camera of the record, or the first saved
\* camera when the user chose that.
FirstPage ==
  \/ resume' # NoRecord /\ DoConnect({resume'.camera})
  \/ resume' = NoRecord /\ (\E c \in Cameras : DoConnect({c}))
  \/ resume' = NoRecord /\ UNCHANGED <<targets, up, ctl, watch, established>>

\* A boot that the wake timer did not cause is the user's and begins afresh.
Boot(timed, fits) ==
  /\ power # "on" /\ (timed => power = "asleep")
  /\ power' = "on"
  /\ \/ Accepts(timed, fits) /\ resume' = record /\ UNCHANGED record
     \/ ~Accepts(timed, fits) /\ ClearResume
  /\ FirstPage
  /\ wanted' = (wanted /\ timed /\ fits)
  /\ UNCHANGED <<sleepOn, count, st, shots, timerOn, block, page, box, shutter, fired>>

PowerLoss ==
  /\ power # "off" /\ power' = "off"
  /\ Forget /\ resume' = NoRecord /\ DoDisconnect
  /\ wanted' = FALSE
  /\ UNCHANGED <<nvs, count, fired>>

-----------------------------------------------------------------------------
(* The user.                                                               *)

\* A running run leaves its page, and so this button, out of reach.
Start ==
  /\ Free /\ ~(UnderWay /\ page = "run")
  /\ ClearResume /\ shots' = 0 /\ st' = "IDLE" /\ timerOn' = TRUE
  /\ page' = "run"
  /\ wanted' = TRUE /\ fired' = 0
  /\ UNCHANGED <<power, sleepOn, count, block, box, watch, established, link, shutter>>

\* The button of the run page, or the console, which asks for a state but IDLE.
Stop ==
  /\ Free
  /\ st # "IDLE" \/ timerOn \/ (page = "run" /\ ~box)
  /\ ClearResume /\ shots' = 0 /\ st' = "IDLE" /\ timerOn' = FALSE
  /\ Send("release")
  /\ page' = "other"
  /\ wanted' = FALSE
  /\ UNCHANGED <<power, sleepOn, count, block, box, watch, established, link, fired>>

\* Cancel on the progress box.  It ends a run that waits to be resumed.
Cancel ==
  /\ Free /\ box
  /\ ClearResume /\ DoDisconnect /\ page' = "other"
  /\ wanted' = (wanted /\ resume = NoRecord)
  /\ UNCHANGED <<power, sleepOn, count, st, shots, timerOn, block, fired>>

\* The menu, the console or the companion.
Disconnect ==
  /\ Free /\ ctl # "idle"
  /\ DoDisconnect /\ page' = "other"
  /\ UNCHANGED <<power, nvs, count, run, block, history>>

Connect(S) ==
  /\ Free /\ ctl = "idle" /\ S # {}
  /\ DoConnect(S) /\ page' = "other"
  /\ UNCHANGED <<power, nvs, count, run, block, box, shutter, history>>

\* doPowerOff(): the release it sends for STATE_DELAY is emptied from the queue
\* by the disconnect behind it, unless the target has taken it.
PowerOff ==
  /\ Free
  /\ timerOn' = FALSE /\ st' = "IDLE"
  /\ DoDisconnect /\ page' = "other"
  /\ \/ power' = "off" /\ shots' = 0 /\ resume' = NoRecord /\ wanted' = FALSE
     \/ UNCHANGED <<power, shots, resume, wanted>>
  /\ UNCHANGED <<nvs, count, block, fired>>

SetCount(n) ==
  /\ Free /\ page # "run"
  /\ count' = n
  /\ UNCHANGED <<power, nvs, run, block, screen, link, shutter, history>>

ToggleSleep ==
  /\ Free /\ page # "run"
  /\ sleepOn' = ~sleepOn
  /\ UNCHANGED <<power, record, count, run, block, screen, link, shutter, history>>

-----------------------------------------------------------------------------
(* connectTimerHandler(), by the state it finds.                           *)

ShowProgress ==
  /\ Free /\ watch /\ ctl = "connecting"
  /\ ~established /\ ~box /\ box' = TRUE
  /\ UNCHANGED <<power, nvs, count, run, block, page, watch, established, link, shutter, history>>

ConnectFailed ==
  /\ Free /\ watch /\ ctl = "failed"
  /\ DoDisconnect
  /\ IF resume # NoRecord
     THEN ClearResume /\ st' = "FINISHED" /\ page' = "run" /\ wanted' = FALSE
     ELSE page' = "other" /\ UNCHANGED <<record, resume, st, wanted>>
  /\ UNCHANGED <<power, sleepOn, count, shots, timerOn, block, fired>>

\* Faulty: the shots of the record are left behind.
RestoredNone(r) == 0

Restored(r) == r.shots

\* startResume(): whether time is left before the shot depends on the clock.
StartResume ==
  /\ resume # NoRecord /\ resume.camera \in targets
  /\ count' = resume.goal /\ shots' = Restored(resume)
  /\ st' \in {"WAIT", "SHUTTER_OPEN"} /\ timerOn' = TRUE
  /\ page' = "run"
  /\ ClearResume /\ UNCHANGED wanted

LoseResume ==
  /\ resume # NoRecord /\ resume.camera \notin targets
  /\ ClearResume /\ wanted' = FALSE
  /\ UNCHANGED <<count, shots, st, timerOn, page>>

Connected ==
  /\ Free /\ watch /\ ctl = "active"
  /\ box' = FALSE /\ established' = TRUE
  /\ \/ box /\ (StartResume \/ LoseResume)
     \/ /\ ~box \/ resume = NoRecord
        /\ UNCHANGED <<record, count, run, page, wanted>>
  /\ UNCHANGED <<power, sleepOn, block, watch, link, shutter, fired>>

SessionOver ==
  /\ Free /\ watch /\ ctl = "idle"
  /\ watch' = FALSE /\ established' = FALSE /\ box' = FALSE
  /\ page' = IF established \/ box THEN "other" ELSE page
  /\ UNCHANGED <<power, nvs, count, run, block, link, shutter, history>>

-----------------------------------------------------------------------------
(* Control, reduced.                                                       *)

LinkUp(c) ==
  /\ power = "on" /\ ctl = "connecting" /\ c \in targets \ up
  /\ up' = up \cup {c}
  /\ UNCHANGED <<power, nvs, count, run, block, screen, ctl, targets, shutter, history>>

LinkDown(c) ==
  /\ power = "on" /\ c \in up
  /\ up' = up \ {c}
  /\ UNCHANGED <<power, nvs, count, run, block, screen, ctl, targets, shutter, history>>

Activate ==
  /\ power = "on" /\ ctl = "connecting" /\ up = targets
  /\ ctl' = "active"
  /\ UNCHANGED <<power, nvs, count, run, block, screen, targets, up, shutter, history>>

Reconnect ==
  /\ power = "on" /\ ctl = "active" /\ up # targets
  /\ ctl' = "connecting"
  /\ UNCHANGED <<power, nvs, count, run, block, screen, targets, up, shutter, history>>

Fail ==
  /\ power = "on" /\ ctl = "connecting" /\ up # targets
  /\ ctl' = "failed"
  /\ UNCHANGED <<power, nvs, count, run, block, screen, targets, up, shutter, history>>

\* A camera whose pairing was declined leaves the session; the last one ends it.
Decline(c) ==
  /\ power = "on" /\ ctl = "connecting" /\ c \in targets \ up
  /\ targets' = targets \ {c}
  /\ ctl' = IF targets' = {} THEN "idle" ELSE ctl
  /\ inbox' = [inbox EXCEPT ![c] = <<>>]
  /\ open' = open \ {c} /\ missed' = missed \ {c}
  /\ UNCHANGED <<power, nvs, count, run, block, screen, up, history>>

\* The task of a target takes a command.  Without a link it has no effect.
Handle(c) ==
  /\ power = "on" /\ c \in targets /\ inbox[c] # <<>>
  /\ inbox' = [inbox EXCEPT ![c] = Tail(@)]
  /\ \/ /\ c \in up /\ Head(inbox[c]) = "press"
        /\ open' = open \cup {c} /\ UNCHANGED missed
     \/ /\ c \in up /\ Head(inbox[c]) = "release"
        /\ open' = open \ {c} /\ UNCHANGED missed
     \/ /\ c \notin up
        /\ missed' = IF Head(inbox[c]) = "release" THEN missed \cup {c} ELSE missed
        /\ UNCHANGED open
  /\ UNCHANGED <<power, nvs, count, run, block, screen, link, history>>

-----------------------------------------------------------------------------
Timer ==
  TimerIdle \/ TimerWait \/ TimerShutterOpen \/ TimerDelay \/ TimerFinished
    \/ WaitForCommands \/ SaveResume \/ PowerOffUntil

User ==
  \/ Start \/ Stop \/ Cancel \/ Disconnect \/ PowerOff \/ ToggleSleep
  \/ \E S \in SUBSET Cameras : Connect(S)
  \/ \E n \in Counts : SetCount(n)

ConnectTimer == ShowProgress \/ ConnectFailed \/ Connected \/ SessionOver

Control ==
  \/ Activate \/ Reconnect \/ Fail
  \/ \E c \in Cameras : LinkUp(c) \/ LinkDown(c) \/ Decline(c) \/ Handle(c)

Next ==
  \/ Timer \/ User \/ ConnectTimer \/ Control \/ PowerLoss
  \/ \E timed, fits \in BOOLEAN : Boot(timed, fits)

Spec == Init /\ [][Next]_vars

-----------------------------------------------------------------------------
(* A shot is only taken for a run the user started and has not ended: not  *)
(* after Stop, after Cancel of a resume, or after a boot that the wake     *)
(* timer did not cause, whatever record is left in NVS (loadResume(),      *)
(* startNewRun() and every clearResume()).                                 *)
OnlyWanted == [][st' = "DELAY" /\ st # "DELAY" => wanted]_vars

(* The shots counted are the shots taken, across every power-off: in the   *)
(* run, in the record it will go on from and in the one a boot has loaded  *)
(* (saveResume(), loadResume(), startResume(), startNewRun()).             *)
CountIsFired ==
  wanted =>
    /\ power = "asleep" => record.shots = fired
    /\ resume # NoRecord => resume.shots = fired
    /\ UnderWay /\ st # "IDLE" => shots = fired

(* The device does not go to sleep holding a shutter: when the UI goes on  *)
(* to save and to power off, each release sent was executed, and a shutter *)
(* is still held only where one could not be sent or found no link         *)
(* (STATE_DELAY and waitForCameraCommands()).                              *)
ReleasedFirst == ui \in {"save", "sleep"} => open \cap targets \subseteq missed

(* Violated.  "disable 'Back' while the intervalometer is running so the   *)
(* run cannot be orphaned by navigating away; 'Stop' is the only way out"  *)
(* (FurbleUI.cpp:3591): a run on its page does not lose the page by the    *)
(* end of its established session and go on.  doDisconnect() shows the     *)
(* main page and leaves the interval timer running.                        *)
NotOrphaned ==
  [][UnderWay /\ st # "IDLE" /\ page = "run" /\ established /\ targets' = {}
       => page' = "run" \/ ~UnderWay']_vars
=============================================================================
