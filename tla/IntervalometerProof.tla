-------------------------- MODULE IntervalometerProof --------------------------
(***************************************************************************)
(* What holds of the intervalometer for any set of cameras, length of a    *)
(* run and depth of the command queues, with a power loss, a lost link or  *)
(* a failed write between any two steps.                                   *)
(***************************************************************************)
EXTENDS Intervalometer, SequenceTheorems, TLAPS

Saved    == [camera : Cameras, shots : Nat, goal : Counts]
Commands == {"press", "release"}

(***************************************************************************)
(* The types of the state, by the groups that change together.             *)
(***************************************************************************)
RecordTypes ==
  /\ record \in Saved \cup {NoRecord} /\ resume \in Saved \cup {NoRecord}
  /\ sleepOn \in BOOLEAN

RunTypes ==
  /\ count \in Counts /\ shots \in Nat /\ fired \in Nat
  /\ st \in {"IDLE", "WAIT", "SHUTTER_OPEN", "DELAY", "FINISHED"}
  /\ timerOn \in BOOLEAN /\ wanted \in BOOLEAN

ScreenTypes ==
  /\ power \in {"on", "asleep", "off"} /\ page \in {"run", "other"}
  /\ ui \in {"free", "wait", "save", "sleep"} /\ chosen \in Cameras \cup {NoCamera}
  /\ box \in BOOLEAN /\ watch \in BOOLEAN /\ established \in BOOLEAN

LinkTypes ==
  /\ ctl \in {"idle", "connecting", "failed", "active"}
  /\ targets \subseteq Cameras /\ up \subseteq targets

ShutterTypes ==
  /\ inbox \in [Cameras -> Seq(Commands)] /\ open \subseteq Cameras /\ missed \subseteq Cameras
  /\ \A c \in Cameras : Len(inbox[c]) <= QueueLength

TypeOK == RecordTypes /\ RunTypes /\ ScreenTypes /\ LinkTypes /\ ShutterTypes

(***************************************************************************)
(* While the UI task blocks between two shots the run goes on behind it.   *)
(* A device without power keeps nothing of it but the record.              *)
(***************************************************************************)
BlockedInRun ==
  ui # "free" => /\ power = "on" /\ timerOn /\ st = "SHUTTER_OPEN" /\ chosen \in Cameras

NothingWithoutPower == power # "on" => ui = "free" /\ ~timerOn /\ resume = NoRecord

Places == BlockedInRun /\ NothingWithoutPower

-----------------------------------------------------------------------------
LEMMA SendTypes ==
  ASSUME ShutterTypes, LinkTypes, NEW cmd \in Commands, Send(cmd)
  PROVE  ShutterTypes'
<1> USE IntervalometerAssumption DEF ShutterTypes, LinkTypes
<1>1. PICK T \in SUBSET {c \in targets \cap up : Len(inbox[c]) < QueueLength} :
        /\ inbox' = [c \in Cameras |-> IF c \in T THEN Append(inbox[c], cmd) ELSE inbox[c]]
        /\ missed' = IF cmd = "release" THEN (missed \ T) \cup (targets \ T) ELSE missed
        /\ UNCHANGED open
  BY DEF Send
<1>2. ASSUME NEW c \in Cameras
      PROVE  inbox'[c] \in Seq(Commands) /\ Len(inbox'[c]) <= QueueLength
  <2>1. CASE c \in T
    <3>1. inbox'[c] = Append(inbox[c], cmd) /\ Len(inbox[c]) < QueueLength
      BY <1>1, <2>1
    <3> QED BY <3>1
  <2>2. CASE c \notin T
    BY <1>1, <2>2
  <2> QED BY <2>1, <2>2
<1>3. inbox' \in [Cameras -> Seq(Commands)]
  BY <1>1, <1>2
<1> QED BY <1>1, <1>2, <1>3

LEMMA ClearResumeTypes ==
  ASSUME RecordTypes, ClearResume
  PROVE  /\ record' \in Saved \cup {NoRecord} /\ resume' = NoRecord
  BY DEF ClearResume, Erase, RecordTypes

LEMMA EndSessionTypes ==
  ASSUME EndSession
  PROVE  LinkTypes' /\ ShutterTypes'
  BY IntervalometerAssumption DEF EndSession, LinkTypes, ShutterTypes

LEMMA ConnectTypes ==
  ASSUME LinkTypes, NEW S \in SUBSET Cameras, DoConnect(S)
  PROVE  LinkTypes' /\ watch' \in BOOLEAN /\ established' \in BOOLEAN
  BY DEF DoConnect, LinkTypes

-----------------------------------------------------------------------------
Typed == TypeOK /\ Places

(***************************************************************************)
(* Only what blocks it, or power, ends a delay.                            *)
(***************************************************************************)
LEMMA TimerTypes ==
  ASSUME Typed, Timer
  PROVE  Typed'
<1> USE IntervalometerAssumption
<1> USE DEF Typed, TypeOK, RecordTypes, RunTypes, ScreenTypes, Places, BlockedInRun,
            NothingWithoutPower, Free, nvs, run, block, screen, link, shutter, history
<1>1. CASE TimerIdle
  BY <1>1 DEF TimerIdle, LinkTypes, ShutterTypes
<1>2. CASE TimerWait
  BY <1>2 DEF TimerWait, LinkTypes, ShutterTypes
<1>3. CASE TimerShutterOpen
  <2>1. ShutterTypes'
    BY <1>3, SendTypes DEF TimerShutterOpen, Commands
  <2> QED BY <1>3, <2>1 DEF TimerShutterOpen, LinkTypes
<1>4. CASE TimerDelay
  <2>1. ShutterTypes'
    BY <1>4, SendTypes DEF TimerDelay, Commands
  <2> QED BY <1>4, <2>1 DEF TimerDelay, LinkTypes
<1>5. CASE TimerFinished
  <2>1. record' \in Saved \cup {NoRecord} /\ resume' = NoRecord
    BY <1>5, ClearResumeTypes DEF TimerFinished
  <2> QED BY <1>5, <2>1 DEF TimerFinished, LinkTypes, ShutterTypes
<1>6. CASE WaitForCommands
  BY <1>6 DEF WaitForCommands, LinkTypes, ShutterTypes
<1>7. CASE SaveResume
  <2> DEFINE new == [camera |-> chosen, shots |-> shots, goal |-> count]
  <2>1. new \in Saved
    BY <1>7 DEF SaveResume, Saved
  <2>2. /\ record' \in {record, new} /\ resume' \in {new, NoRecord}
        /\ ui' \in {"sleep", "free"}
        /\ IF ui' = "free" THEN chosen' = NoCamera ELSE chosen' = chosen
    BY <1>7 DEF SaveResume
  <2>3. /\ power = "on" /\ ui = "save"
        /\ UNCHANGED <<power, sleepOn, count, st, shots, timerOn, screen, link, shutter, history>>
    BY <1>7 DEF SaveResume
  <2> HIDE DEF new
  <2> QED BY <2>1, <2>2, <2>3 DEF LinkTypes, ShutterTypes
<1>8. CASE PowerOffUntil
  <2>1. CASE Forget
    <3>1. DoDisconnect /\ resume' = NoRecord /\ power' = "asleep" /\ UNCHANGED <<record, history>>
      BY <1>8, <2>1 DEF PowerOffUntil, Forget
    <3>2. LinkTypes' /\ ShutterTypes'
      BY <3>1, EndSessionTypes DEF DoDisconnect
    <3> QED BY <1>8, <2>1, <3>1, <3>2 DEF PowerOffUntil, Forget, DoDisconnect
  <2>2. CASE ~Forget
    <3>1. record' \in Saved \cup {NoRecord} /\ resume' = NoRecord
      BY <1>8, <2>2, ClearResumeTypes DEF PowerOffUntil
    <3> QED BY <1>8, <2>2, <3>1 DEF PowerOffUntil, LinkTypes, ShutterTypes
  <2> QED BY <2>1, <2>2
<1> QED BY <1>1, <1>2, <1>3, <1>4, <1>5, <1>6, <1>7, <1>8 DEF Timer

\* The user acts on a UI task that does not block.
LEMMA UserTypes ==
  ASSUME Typed, User
  PROVE  Typed'
<1> USE IntervalometerAssumption
<1> USE DEF Typed, TypeOK, RecordTypes, RunTypes, ScreenTypes, Places, BlockedInRun,
            NothingWithoutPower, Free, nvs, run, block, screen, link, shutter, history
<1>1. CASE Start
  <2>1. record' \in Saved \cup {NoRecord} /\ resume' = NoRecord
    BY <1>1, ClearResumeTypes DEF Start
  <2> QED BY <1>1, <2>1 DEF Start, LinkTypes, ShutterTypes
<1>2. CASE Stop
  <2>1. record' \in Saved \cup {NoRecord} /\ resume' = NoRecord
    BY <1>2, ClearResumeTypes DEF Stop
  <2>2. ShutterTypes'
    BY <1>2, SendTypes DEF Stop, Commands
  <2> QED BY <1>2, <2>1, <2>2 DEF Stop, LinkTypes
<1>3. CASE Cancel
  <2>1. record' \in Saved \cup {NoRecord} /\ resume' = NoRecord
    BY <1>3, ClearResumeTypes DEF Cancel
  <2>2. LinkTypes' /\ ShutterTypes'
    BY <1>3, EndSessionTypes DEF Cancel, DoDisconnect
  <2> QED BY <1>3, <2>1, <2>2 DEF Cancel, DoDisconnect
<1>4. CASE Disconnect
  <2>1. LinkTypes' /\ ShutterTypes'
    BY <1>4, EndSessionTypes DEF Disconnect, DoDisconnect
  <2> QED BY <1>4, <2>1 DEF Disconnect, DoDisconnect
<1>5. CASE PowerOff
  <2>1. LinkTypes' /\ ShutterTypes'
    BY <1>5, EndSessionTypes DEF PowerOff, DoDisconnect
  <2>2. /\ shots' \in Nat /\ power' \in {"on", "off"} /\ resume' \in {resume, NoRecord}
        /\ wanted' \in BOOLEAN /\ (power' = "off" => resume' = NoRecord)
    <3>1. CASE UNCHANGED <<power, shots, resume, wanted>>
      BY <1>5, <3>1 DEF PowerOff
    <3>2. CASE power' = "off" /\ shots' = 0 /\ resume' = NoRecord /\ wanted' = FALSE
      BY <1>5, <3>2 DEF PowerOff
    <3> QED BY <1>5, <3>1, <3>2 DEF PowerOff
  <2>3. /\ ui = "free" /\ ui' = "free" /\ chosen' = chosen
        /\ st' = "IDLE" /\ timerOn' = FALSE /\ page' = "other"
        /\ box' = FALSE /\ watch' = FALSE /\ established' = FALSE
        /\ UNCHANGED <<record, sleepOn, count, fired>>
    BY <1>5 DEF PowerOff, DoDisconnect
  <2> QED BY <2>1, <2>2, <2>3
<1>6. CASE ToggleSleep
  BY <1>6 DEF ToggleSleep, LinkTypes, ShutterTypes
<1>7. ASSUME NEW S \in SUBSET Cameras, Connect(S) PROVE Typed'
  <2>1. LinkTypes' /\ watch' \in BOOLEAN /\ established' \in BOOLEAN
    BY <1>7, ConnectTypes DEF Connect
  <2> QED BY <1>7, <2>1 DEF Connect, ShutterTypes
<1>8. ASSUME NEW n \in Counts, SetCount(n) PROVE Typed'
  BY <1>8 DEF SetCount, LinkTypes, ShutterTypes
<1> QED BY <1>1, <1>2, <1>3, <1>4, <1>5, <1>6, <1>7, <1>8 DEF User

LEMMA ConnectTimerTypes ==
  ASSUME Typed, ConnectTimer
  PROVE  Typed'
<1> USE IntervalometerAssumption
<1> USE DEF Typed, TypeOK, RecordTypes, RunTypes, ScreenTypes, Places, BlockedInRun,
            NothingWithoutPower, Free, nvs, run, block, screen, link, shutter, history
<1>1. CASE ShowProgress
  BY <1>1 DEF ShowProgress, LinkTypes, ShutterTypes
<1>2. CASE ConnectFailed
  <2>1. LinkTypes' /\ ShutterTypes'
    BY <1>2, EndSessionTypes DEF ConnectFailed, DoDisconnect
  <2>2. record' \in Saved \cup {NoRecord} /\ resume' \in Saved \cup {NoRecord}
    BY <1>2, ClearResumeTypes DEF ConnectFailed
  <2> QED BY <1>2, <2>1, <2>2 DEF ConnectFailed, DoDisconnect
<1>3. CASE Connected
  <2>1. record' \in Saved \cup {NoRecord} /\ resume' \in Saved \cup {NoRecord}
    BY <1>3, ClearResumeTypes DEF Connected, StartResume, LoseResume
  <2>2. CASE StartResume
    <3>1. resume.goal \in Counts /\ Restored(resume) \in Nat
      BY <2>2 DEF StartResume, Restored, Saved
    <3> QED BY <1>3, <2>1, <2>2, <3>1 DEF Connected, StartResume, LinkTypes, ShutterTypes
  <2>3. CASE ~StartResume
    BY <1>3, <2>1, <2>3 DEF Connected, LoseResume, LinkTypes, ShutterTypes
  <2> QED BY <2>2, <2>3
<1>4. CASE SessionOver
  BY <1>4 DEF SessionOver, LinkTypes, ShutterTypes
<1> QED BY <1>1, <1>2, <1>3, <1>4 DEF ConnectTimer

LEMMA HandleTypes ==
  ASSUME ShutterTypes, LinkTypes, NEW c \in Cameras, Handle(c)
  PROVE  ShutterTypes'
<1> USE DEF ShutterTypes, LinkTypes
<1>1. inbox[c] \in Seq(Commands) /\ inbox[c] # <<>> /\ inbox' = [inbox EXCEPT ![c] = Tail(@)]
  BY DEF Handle
<1>2. Tail(inbox[c]) \in Seq(Commands) /\ Len(Tail(inbox[c])) = Len(inbox[c]) - 1
  BY <1>1
<1>3. \A d \in Cameras : inbox'[d] \in Seq(Commands) /\ Len(inbox'[d]) <= QueueLength
  BY <1>1, <1>2, IntervalometerAssumption
<1>4. inbox' \in [Cameras -> Seq(Commands)]
  BY <1>1, <1>2
<1>5. open' \subseteq Cameras /\ missed' \subseteq Cameras
  BY DEF Handle
<1> QED BY <1>3, <1>4, <1>5

LEMMA ControlTypes ==
  ASSUME Typed, Control
  PROVE  Typed'
<1> USE IntervalometerAssumption
<1> USE DEF Typed, TypeOK, RecordTypes, RunTypes, ScreenTypes, Places, BlockedInRun,
            NothingWithoutPower, nvs, run, block, screen, link, shutter, history
<1>1. CASE Activate
  BY <1>1 DEF Activate, LinkTypes, ShutterTypes
<1>2. CASE Reconnect
  BY <1>2 DEF Reconnect, LinkTypes, ShutterTypes
<1>3. CASE Fail
  BY <1>3 DEF Fail, LinkTypes, ShutterTypes
<1>4. ASSUME NEW c \in Cameras, LinkUp(c) PROVE Typed'
  BY <1>4 DEF LinkUp, LinkTypes, ShutterTypes
<1>5. ASSUME NEW c \in Cameras, LinkDown(c) PROVE Typed'
  BY <1>5 DEF LinkDown, LinkTypes, ShutterTypes
<1>6. ASSUME NEW c \in Cameras, Decline(c) PROVE Typed'
  <2>1. LinkTypes'
    BY <1>6 DEF Decline, LinkTypes
  <2>2. ShutterTypes'
    <3>1. inbox' = [inbox EXCEPT ![c] = <<>>]
      BY <1>6 DEF Decline
    <3>2. open' \subseteq Cameras /\ missed' \subseteq Cameras
      BY <1>6 DEF Decline, ShutterTypes
    <3> QED BY <3>1, <3>2 DEF ShutterTypes
  <2> QED BY <1>6, <2>1, <2>2 DEF Decline
<1>7. ASSUME NEW c \in Cameras, Handle(c) PROVE Typed'
  <2>1. ShutterTypes'
    BY <1>7, HandleTypes
  <2> QED BY <1>7, <2>1 DEF Handle, LinkTypes
<1> QED BY <1>1, <1>2, <1>3, <1>4, <1>5, <1>6, <1>7 DEF Control

LEMMA PowerTypes ==
  ASSUME Typed,
         PowerLoss \/ \E timed, fits \in BOOLEAN : Boot(timed, fits)
  PROVE  Typed'
<1> USE IntervalometerAssumption
<1> USE DEF Typed, TypeOK, RecordTypes, RunTypes, ScreenTypes, Places, BlockedInRun,
            NothingWithoutPower, nvs, run, block, screen, link, shutter, history
<1>1. CASE PowerLoss
  <2>1. LinkTypes' /\ ShutterTypes'
    BY <1>1, EndSessionTypes DEF PowerLoss, DoDisconnect
  <2> QED BY <1>1, <2>1 DEF PowerLoss, Forget, DoDisconnect
<1>2. ASSUME NEW timed \in BOOLEAN, NEW fits \in BOOLEAN, Boot(timed, fits) PROVE Typed'
  <2>1. record' \in Saved \cup {NoRecord} /\ resume' \in Saved \cup {NoRecord}
    BY <1>2, ClearResumeTypes DEF Boot
  <2>2. LinkTypes' /\ watch' \in BOOLEAN /\ established' \in BOOLEAN
    <3>1. FirstPage
      BY <1>2 DEF Boot
    <3>2. CASE resume' # NoRecord /\ DoConnect({resume'.camera})
      <4>1. {resume'.camera} \in SUBSET Cameras
        BY <2>1, <3>2 DEF Saved
      <4> QED BY <3>2, <4>1, ConnectTypes
    <3>3. ASSUME NEW c \in Cameras, DoConnect({c})
          PROVE  LinkTypes' /\ watch' \in BOOLEAN /\ established' \in BOOLEAN
      BY <3>3, ConnectTypes
    <3>4. CASE UNCHANGED <<targets, up, ctl, watch, established>>
      BY <3>4 DEF LinkTypes
    <3> QED BY <3>1, <3>2, <3>3, <3>4 DEF FirstPage
  <2> QED BY <1>2, <2>1, <2>2 DEF Boot, ShutterTypes
<1> QED BY <1>1, <1>2

LEMMA TypesInduct == Spec => []Typed
<1>1. Init => Typed
  <2>1. Init => RecordTypes /\ RunTypes /\ ScreenTypes
    <3>1. Init => RecordTypes
      BY DEF Init, RecordTypes
    <3>2. Init => RunTypes
      <4>1. 0 \in Nat
        OBVIOUS
      <4> QED BY <4>1, Zenon DEF Init, RunTypes
    <3>3. Init => ScreenTypes
      BY DEF Init, ScreenTypes
    <3> QED BY <3>1, <3>2, <3>3
  <2>2. Init => LinkTypes /\ ShutterTypes
    BY IntervalometerAssumption DEF Init, LinkTypes, ShutterTypes
  <2>3. Init => Places
    BY DEF Init, Places, BlockedInRun, NothingWithoutPower
  <2> QED BY <2>1, <2>2, <2>3 DEF Typed, TypeOK
<1>2. Typed /\ UNCHANGED vars => Typed'
  BY DEF vars, nvs, run, block, screen, link, shutter, history, Typed, TypeOK, RecordTypes,
         RunTypes, ScreenTypes, LinkTypes, ShutterTypes, Places, BlockedInRun, NothingWithoutPower
<1>3. Typed /\ Next => Typed'
  BY TimerTypes, UserTypes, ConnectTimerTypes, ControlTypes, PowerTypes DEF Next
<1> QED BY <1>1, <1>2, <1>3, PTL DEF Spec

-----------------------------------------------------------------------------
(***************************************************************************)
(* Where the count of the shots is, and that the user wants them: in a run *)
(* that is under way, in the record it will go on from and in the one a    *)
(* boot has loaded.  At most one of a run and a loaded record is alive,    *)
(* but for the moment in which power is being cut.                         *)
(***************************************************************************)
RunAlive ==
  UnderWay => wanted /\ (IF st = "IDLE" THEN fired = 0 ELSE shots = fired)

ResumeAlive ==
  resume # NoRecord => /\ wanted /\ resume.shots = fired
                       /\ ui = "sleep" \/ ~timerOn

SavedBeforeSleep == ui = "sleep" => record = resume /\ resume # NoRecord

AsleepAlive == power = "asleep" => wanted /\ record # NoRecord /\ record.shots = fired

Alive == RunAlive /\ ResumeAlive /\ SavedBeforeSleep /\ AsleepAlive

\* A step of anything else: neither the run nor the records take part in it.
RunUntouched == UNCHANGED <<power, record, resume, st, shots, timerOn, ui, wanted, fired>>

LEMMA AliveUntouched ==
  ASSUME Alive, RunUntouched
  PROVE  Alive'
  BY DEF Alive, RunAlive, ResumeAlive, SavedBeforeSleep, AsleepAlive, UnderWay, RunUntouched,
         NoRecord

LEMMA ElsewhereUntouched ==
  ASSUME Alive,
         \/ Disconnect \/ ToggleSleep \/ (\E S \in SUBSET Cameras : Connect(S))
         \/ (\E n \in Counts : SetCount(n)) \/ ShowProgress \/ SessionOver \/ Control
         \/ UNCHANGED vars
  PROVE  Alive'
<1> USE DEF RunUntouched, nvs, run, block, screen, link, shutter, history
<1>1. CASE Disconnect
  BY <1>1, AliveUntouched DEF Disconnect
<1>2. CASE ToggleSleep
  BY <1>2, AliveUntouched DEF ToggleSleep
<1>3. CASE \E S \in SUBSET Cameras : Connect(S)
  BY <1>3, AliveUntouched DEF Connect
<1>4. CASE \E n \in Counts : SetCount(n)
  BY <1>4, AliveUntouched DEF SetCount
<1>5. CASE ShowProgress
  BY <1>5, AliveUntouched DEF ShowProgress
<1>6. CASE SessionOver
  BY <1>6, AliveUntouched DEF SessionOver
<1>7. CASE Control
  BY <1>7, AliveUntouched
  DEF Control, Activate, Reconnect, Fail, LinkUp, LinkDown, Decline, Handle
<1>8. CASE UNCHANGED vars
  BY <1>8, AliveUntouched DEF vars
<1> QED BY <1>1, <1>2, <1>3, <1>4, <1>5, <1>6, <1>7, <1>8

LEMMA TimerAlive ==
  ASSUME Typed, Alive, Timer
  PROVE  Alive'
<1> USE DEF Alive, RunAlive, ResumeAlive, SavedBeforeSleep, AsleepAlive, UnderWay, Free,
            nvs, run, block, screen, link, shutter, history
<1>0. /\ shots \in Nat /\ fired \in Nat /\ (ui # "free" => timerOn /\ st = "SHUTTER_OPEN")
      /\ power # "on" => ui = "free" /\ ~timerOn
  BY DEF Typed, TypeOK, RunTypes, Places, BlockedInRun, NothingWithoutPower
<1>1. CASE TimerIdle
  BY <1>0, <1>1 DEF TimerIdle
<1>2. CASE TimerWait
  BY <1>0, <1>2 DEF TimerWait
<1>3. CASE TimerShutterOpen
  <2>1. resume = NoRecord
    BY <1>3 DEF TimerShutterOpen
  <2> QED BY <1>0, <1>3, <2>1 DEF TimerShutterOpen
<1>4. CASE TimerDelay
  <2>1. resume = NoRecord
    BY <1>4 DEF TimerDelay
  <2>2. /\ st' \in {"FINISHED", "SHUTTER_OPEN"} /\ ui' \in {"free", "wait"} /\ power = "on"
        /\ timerOn /\ st = "DELAY"
        /\ UNCHANGED <<power, record, resume, shots, timerOn, wanted, fired>>
    BY <1>4 DEF TimerDelay
  <2> QED BY <2>1, <2>2
<1>5. CASE TimerFinished
  BY <1>0, <1>5 DEF TimerFinished, ClearResume
<1>6. CASE WaitForCommands
  <2>1. resume = NoRecord
    BY <1>0, <1>6 DEF WaitForCommands
  <2> QED BY <1>6, <2>1 DEF WaitForCommands
<1>7. CASE SaveResume
  <2> DEFINE new == [camera |-> chosen, shots |-> shots, goal |-> count]
  <2>1. new # NoRecord /\ new.shots = shots
    BY <1>7, IntervalometerAssumption
    DEF SaveResume, NoRecord, Typed, Places, BlockedInRun
  <2>2. \/ record' = new /\ resume' = new /\ ui' = "sleep"
        \/ resume' = NoRecord /\ ui' = "free"
    BY <1>7 DEF SaveResume
  <2>3. power = "on" /\ ui = "save" /\ UNCHANGED <<power, st, shots, timerOn, wanted, fired>>
    BY <1>7 DEF SaveResume
  <2> HIDE DEF new
  <2> QED BY <1>0, <2>1, <2>2, <2>3
<1>8. CASE PowerOffUntil
  BY <1>0, <1>8 DEF PowerOffUntil, Forget, ClearResume
<1> QED BY <1>1, <1>2, <1>3, <1>4, <1>5, <1>6, <1>7, <1>8 DEF Timer

LEMMA UserAlive ==
  ASSUME Alive, Start \/ Stop \/ Cancel \/ PowerOff
  PROVE  Alive'
<1> USE DEF Alive, RunAlive, ResumeAlive, SavedBeforeSleep, AsleepAlive, UnderWay, Free,
            nvs, block, history
<1>1. CASE Start
  BY <1>1 DEF Start, ClearResume
<1>2. CASE Stop
  BY <1>2 DEF Stop, ClearResume
<1>3. CASE Cancel
  BY <1>3 DEF Cancel, ClearResume
<1>4. CASE PowerOff
  BY <1>4 DEF PowerOff
<1> QED BY <1>1, <1>2, <1>3, <1>4

LEMMA ConnectTimerAlive ==
  ASSUME Alive, ConnectFailed \/ Connected
  PROVE  Alive'
<1> USE DEF Alive, RunAlive, ResumeAlive, SavedBeforeSleep, AsleepAlive, UnderWay, Free,
            nvs, run, block, history
<1>1. CASE ConnectFailed
  BY <1>1 DEF ConnectFailed, ClearResume
<1>2. CASE Connected
  BY <1>2 DEF Connected, StartResume, LoseResume, ClearResume, Restored
<1> QED BY <1>1, <1>2

LEMMA PowerAlive ==
  ASSUME Typed, Alive,
         PowerLoss \/ \E timed, fits \in BOOLEAN : Boot(timed, fits)
  PROVE  Alive'
<1> USE DEF Alive, RunAlive, ResumeAlive, SavedBeforeSleep, AsleepAlive, UnderWay,
            nvs, block, history
<1>1. CASE PowerLoss
  BY <1>1 DEF PowerLoss, Forget
<1>2. ASSUME NEW timed \in BOOLEAN, NEW fits \in BOOLEAN, Boot(timed, fits) PROVE Alive'
  <2>1. ui = "free" /\ ~timerOn
    BY <1>2 DEF Boot, Typed, Places, NothingWithoutPower
  <2>2. CASE Accepts(timed, fits) /\ resume' = record
    BY <1>2, <2>1, <2>2 DEF Boot, Accepts
  <2>3. CASE ClearResume
    BY <1>2, <2>1, <2>3 DEF Boot, ClearResume
  <2> QED BY <1>2, <2>2, <2>3 DEF Boot
<1> QED BY <1>1, <1>2

LEMMA AliveInduct == Spec => []Alive
<1>1. Init => Alive
  BY DEF Init, Alive, RunAlive, ResumeAlive, SavedBeforeSleep, AsleepAlive, UnderWay
<1>2. Typed /\ Alive /\ [Next]_vars => Alive'
  BY TimerAlive, UserAlive, ConnectTimerAlive, PowerAlive, ElsewhereUntouched
  DEF Next, User, ConnectTimer
<1> QED BY <1>1, <1>2, TypesInduct, PTL DEF Spec

-----------------------------------------------------------------------------
(***************************************************************************)
(* What was sent last to a target that the release reached is that         *)
(* release, until it is taken, and then the shutter is not held.           *)
(***************************************************************************)
Releasing(c) ==
  IF inbox[c] = <<>> THEN c \notin open ELSE inbox[c][Len(inbox[c])] = "release"

ReleaseSent == ui # "free" => \A c \in targets \ missed : Releasing(c)

\* The UI goes on when no target has a command left, and none gets one.
Emptied == ui \in {"save", "sleep"} => CommandsIdle

Released == ReleaseSent /\ Emptied

\* The last command of a queue stays its last until it is the one taken.
LEMMA LastStays ==
  ASSUME NEW q \in Seq(Commands), q # <<>>
  PROVE  IF Tail(q) = <<>> THEN Head(q) = q[Len(q)] ELSE Tail(q)[Len(Tail(q))] = q[Len(q)]
<1>1. /\ Tail(q) \in Seq(Commands) /\ Len(Tail(q)) = Len(q) - 1
      /\ \A i \in 1..Len(Tail(q)) : Tail(q)[i] = q[i + 1]
  BY HeadTailProperties
<1>2. Len(q) \in Nat \ {0}
  BY EmptySeq
<1>3. CASE Tail(q) = <<>>
  <2>1. Len(q) = 1
    BY <1>1, <1>2, <1>3, EmptySeq
  <2>2. Head(q) = q[1]
    OBVIOUS
  <2> QED BY <1>3, <2>1, <2>2
<1>4. CASE Tail(q) # <<>>
  <2>1. Len(Tail(q)) \in 1..Len(Tail(q))
    BY <1>1, <1>4, EmptySeq
  <2>2. Tail(q)[Len(Tail(q))] = q[Len(Tail(q)) + 1]
    BY <1>1, <2>1
  <2> QED BY <1>1, <1>2, <1>4, <2>2
<1> QED BY <1>3, <1>4

LEMMA HandleReleases ==
  ASSUME Typed, Released, NEW c \in Cameras, Handle(c)
  PROVE  Released'
<1> USE DEF Typed, TypeOK, ShutterTypes, LinkTypes
<1>1. /\ c \in targets /\ inbox[c] # <<>> /\ inbox' = [inbox EXCEPT ![c] = Tail(@)]
      /\ UNCHANGED <<ui, targets, up>>
  BY DEF Handle, block, link
<1>2. ~CommandsIdle
  BY <1>1 DEF CommandsIdle
<1>3. Emptied'
  BY <1>1, <1>2 DEF Released, Emptied
<1>4. ASSUME ui # "free", NEW d \in targets, d \notin missed' PROVE Releasing(d)'
  <2>1. d \notin missed
    BY <1>4 DEF Handle
  <2>2. Releasing(d)
    BY <1>4, <2>1 DEF Released, ReleaseSent
  <2>3. CASE d # c
    <3>1. inbox'[d] = inbox[d] /\ (d \in open' <=> d \in open)
      BY <1>1, <2>3 DEF Handle
    <3> QED BY <2>2, <3>1 DEF Releasing
  <2>4. CASE d = c
    <3> DEFINE q == inbox[c]
    <3>1. q \in Seq(Commands) /\ q # <<>> /\ q[Len(q)] = "release" /\ inbox'[c] = Tail(q)
      BY <1>1, <2>2, <2>4 DEF Releasing
    <3>2. CASE Tail(q) = <<>>
      <4>1. Head(q) = "release"
        BY <3>1, <3>2, LastStays
      <4>2. c \notin open'
        BY <1>4, <2>4, <4>1 DEF Handle
      <4> QED BY <2>4, <3>1, <3>2, <4>2 DEF Releasing
    <3>3. CASE Tail(q) # <<>>
      <4>1. Tail(q)[Len(Tail(q))] = q[Len(q)]
        BY <3>1, <3>3, LastStays
      <4> QED BY <2>4, <3>1, <3>3, <4>1 DEF Releasing
    <3> QED BY <3>2, <3>3
  <2> QED BY <2>3, <2>4
<1> QED BY <1>1, <1>3, <1>4 DEF Released, ReleaseSent

\* A UI task that does not block waits for no release.
LEMMA UnblockedReleased == ui' = "free" => Released'
  BY DEF Released, ReleaseSent, Emptied

LEMMA TimerReleased ==
  ASSUME Typed, Released, Timer
  PROVE  Released'
<1> USE DEF Free, nvs, run, block, link, shutter
<1>1. CASE TimerDelay
  <2>1. CASE ui' = "free"
    BY <2>1, UnblockedReleased
  <2>2. CASE ui' # "free"
    <3>1. /\ ui' = "wait" /\ targets' = targets /\ Send("release")
      BY <1>1, <2>2 DEF TimerDelay
    <3>2. PICK T \in SUBSET {c \in targets \cap up : Len(inbox[c]) < QueueLength} :
            /\ inbox' = [c \in Cameras |->
                           IF c \in T THEN Append(inbox[c], "release") ELSE inbox[c]]
            /\ missed' = (missed \ T) \cup (targets \ T)
      BY <3>1 DEF Send
    <3>3. ASSUME NEW c \in targets, c \notin missed' PROVE Releasing(c)'
      <4>1. c \in T /\ c \in Cameras /\ inbox[c] \in Seq(Commands)
        BY <3>2, <3>3 DEF Typed, TypeOK, LinkTypes, ShutterTypes
      <4>2. inbox'[c] = Append(inbox[c], "release")
        BY <3>2, <4>1
      <4>3. inbox'[c] # <<>> /\ inbox'[c][Len(inbox'[c])] = "release"
        BY <4>1, <4>2, AppendProperties DEF Commands
      <4> QED BY <4>3 DEF Releasing
    <3> QED BY <3>1, <3>3 DEF Released, ReleaseSent, Emptied
  <2> QED BY <2>1, <2>2
<1>2. CASE WaitForCommands
  BY <1>2 DEF WaitForCommands, Released, ReleaseSent, Emptied, Releasing, CommandsIdle
<1>3. CASE SaveResume
  BY <1>3 DEF SaveResume, Released, ReleaseSent, Emptied, Releasing, CommandsIdle
<1>4. CASE TimerIdle \/ TimerWait \/ TimerShutterOpen \/ TimerFinished
  BY <1>4, UnblockedReleased DEF TimerIdle, TimerWait, TimerShutterOpen, TimerFinished
<1>5. CASE PowerOffUntil
  BY <1>5, UnblockedReleased DEF PowerOffUntil, Forget
<1> QED BY <1>1, <1>2, <1>3, <1>4, <1>5 DEF Timer

\* Of the steps of Control, only that of a target that takes a command and
\* that of a camera that leaves the session touch what a release waits for.
LEMMA ControlReleased ==
  ASSUME Typed, Released, Control
  PROVE  Released'
<1> USE DEF nvs, run, block, link, shutter
<1> USE DEF Released, ReleaseSent, Emptied, Releasing, CommandsIdle
<1>1. CASE Activate \/ Reconnect \/ Fail
  BY <1>1 DEF Activate, Reconnect, Fail
<1>2. ASSUME NEW c \in Cameras, LinkUp(c) \/ LinkDown(c) PROVE Released'
  BY <1>2 DEF LinkUp, LinkDown
<1>3. ASSUME NEW c \in Cameras, Decline(c) PROVE Released'
  <2>1. /\ targets' = targets \ {c} /\ ui' = ui
        /\ open' = open \ {c} /\ missed' = missed \ {c}
        /\ inbox' = [inbox EXCEPT ![c] = <<>>]
    BY <1>3 DEF Decline
  <2>2. \A d \in targets' : /\ d \in targets /\ inbox'[d] = inbox[d]
                            /\ d \in open' <=> d \in open
                            /\ d \in missed' <=> d \in missed
    BY <2>1 DEF Typed, TypeOK, LinkTypes, ShutterTypes
  <2> QED BY <2>1, <2>2
<1>4. ASSUME NEW c \in Cameras, Handle(c) PROVE Released'
  BY <1>4, HandleReleases
<1> QED BY <1>1, <1>2, <1>3, <1>4 DEF Control

LEMMA ReleasedInduct == Spec => []Released
<1>1. Init => Released
  BY DEF Init, Released, ReleaseSent, Emptied
<1>2. Typed /\ Released /\ [Next]_vars => Released'
  <2> SUFFICES ASSUME Typed, Released, [Next]_vars PROVE Released'
    OBVIOUS
  <2> USE DEF Free, nvs, run, block, link, shutter
  <2>1. CASE Timer
    BY <2>1, TimerReleased
  <2>2. CASE User
    BY <2>2, UnblockedReleased
    DEF User, Start, Stop, Cancel, Disconnect, PowerOff, ToggleSleep, Connect, SetCount
  <2>3. CASE ConnectTimer
    BY <2>3, UnblockedReleased DEF ConnectTimer, ShowProgress, ConnectFailed, Connected, SessionOver
  <2>4. CASE Control
    BY <2>4, ControlReleased
  <2>5. CASE PowerLoss
    BY <2>5, UnblockedReleased DEF PowerLoss, Forget
  <2>6. ASSUME NEW timed \in BOOLEAN, NEW fits \in BOOLEAN, Boot(timed, fits) PROVE Released'
    BY <2>6, UnblockedReleased DEF Boot, Typed, Places, NothingWithoutPower
  <2>7. CASE UNCHANGED vars
    BY <2>7 DEF vars, Released, ReleaseSent, Emptied, Releasing, CommandsIdle
  <2> QED BY <2>1, <2>2, <2>3, <2>4, <2>5, <2>6, <2>7 DEF Next
<1> QED BY <1>1, <1>2, TypesInduct, PTL DEF Spec

-----------------------------------------------------------------------------
\* The state keeps its types, and a queue its bound, through every boot.
THEOREM TypesHold == Spec => []TypeOK
<1>1. Typed => TypeOK
  BY DEF Typed
<1> QED BY <1>1, TypesInduct, PTL

\* No shot is taken that the user does not want, whatever NVS holds.
THEOREM NoUnwantedShot == Spec => OnlyWanted
<1>1. Typed /\ Alive /\ [Next]_vars => [st' = "DELAY" /\ st # "DELAY" => wanted]_vars
  <2> SUFFICES ASSUME Typed, Alive, Next, st' = "DELAY", st # "DELAY" PROVE wanted
    OBVIOUS
  <2>1. TimerShutterOpen
    BY DEF Next, Timer, TimerIdle, TimerWait, TimerDelay, TimerFinished, WaitForCommands,
       SaveResume, PowerOffUntil, Forget, User, Start, Stop, Cancel, Disconnect, PowerOff,
       ToggleSleep, Connect, SetCount, ConnectTimer, ShowProgress, ConnectFailed, Connected,
       StartResume, LoseResume, SessionOver, Control, Activate, Reconnect, Fail, LinkUp, LinkDown,
       Decline, Handle, PowerLoss, Boot, run
  <2> QED BY <2>1 DEF TimerShutterOpen, Alive, RunAlive, UnderWay
<1> QED BY <1>1, TypesInduct, AliveInduct, PTL DEF Spec, OnlyWanted

\* The shots counted are the shots taken, across every power-off.
THEOREM CountsAreExact == Spec => []CountIsFired
<1>1. Alive => CountIsFired
  BY DEF Alive, RunAlive, ResumeAlive, AsleepAlive, CountIsFired
<1> QED BY <1>1, AliveInduct, PTL

\* The device does not go to sleep with a shutter held that its release reached.
THEOREM ReleasesFirst == Spec => []ReleasedFirst
<1>1. Released => ReleasedFirst
  BY DEF Released, ReleaseSent, Emptied, Releasing, CommandsIdle, ReleasedFirst
<1> QED BY <1>1, ReleasedInduct, PTL
================================================================================
