----------------------------- MODULE TargetQueue -----------------------------
(***************************************************************************)
(* The command queue of one Control::Target and its count of commands in   *)
(* flight: Target::sendCommand(), Target::task(), Target::idle() and their *)
(* callers in src/FurbleControl.cpp.                                       *)
(*                                                                         *)
(* Queue operations and operations on m_InFlight are atomic one by one and *)
(* interleave freely, but for the sections under m_Mutex, which exclude    *)
(* each other: camera commands, CMD_DISCONNECT and waitForCameraCommands().*)
(* The control task passes GPS updates on without m_Mutex.                 *)
(*                                                                         *)
(* Which camera command it is, and what a command does to the camera, is   *)
(* left out, and so is the idle tick of a task that received nothing.      *)
(*                                                                         *)
(* A definition marked "Faulty" is the one after it with a bug put in; no  *)
(* specification uses it, and it shows that a property notices the bug.    *)
(***************************************************************************)
EXTENDS Integers, Sequences

CONSTANTS
  QueueLength,  \* Target::m_QueueLength, 8 in the code
  Backlog,      \* bound: GPS updates that get past one CMD_DISCONNECT being sent
  MaxCommands,  \* bound: camera commands
  MaxUpdates,   \* bound: GPS updates
  MaxTells      \* bound: CMD_DISCONNECTs sent

ASSUME QueueAssumption ==
  /\ QueueLength \in Nat \ {0} /\ Backlog \in Nat \ {0}
  /\ MaxCommands \in Nat /\ MaxUpdates \in Nat /\ MaxTells \in Nat

Commands == {"CAMERA", "GPS", "DISCONNECT"}

VARIABLES
  queue,     \* m_Queue
  inFlight,  \* m_InFlight
  task,      \* the command task() executes, or where else it is
  section,   \* how far the section under m_Mutex is
  gps,       \* how far the control task is in sendCommand(CMD_GPS_UPDATE)
  passed,    \* GPS updates under way since the last CMD_DISCONNECT was begun
  commands, updates, tells  \* how many of each were begun

vars == <<queue, inFlight, task, section, gps, passed, commands, updates, tells>>

TellSections == {"drain", "dropped", "reserve", "front", "refused"}
Sections     == {"none", "push", "undo", "count", "waiting", "idle"} \cup TellSections
Ended        == {"exit", "stopped"}

Init ==
  /\ queue = <<>> /\ inFlight = 0
  /\ task = "wait" /\ section = "none" /\ gps = "none"
  /\ passed = 0 /\ commands = 0 /\ updates = 0 /\ tells = 0

HasRoom == Len(queue) < QueueLength

-----------------------------------------------------------------------------
(***************************************************************************)
(* sendCommand() of a camera command, under m_Mutex: reserve, send, and    *)
(* give the reservation back if the queue was full.                        *)
(***************************************************************************)
SendCommand ==
  /\ section = "none" /\ commands < MaxCommands
  /\ commands' = commands + 1
  /\ inFlight' = inFlight + 1
  /\ section' = "push"
  /\ UNCHANGED <<queue, task, gps, passed, updates, tells>>

PushCommand ==
  /\ section = "push"
  /\ IF HasRoom
     THEN queue' = Append(queue, "CAMERA") /\ section' = "none"
     ELSE section' = "undo" /\ UNCHANGED queue
  /\ UNCHANGED <<inFlight, task, gps, passed, commands, updates, tells>>

\* Faulty: keeps the reservation of a command that was refused.
UndoNothing ==
  /\ section = "undo"
  /\ section' = "none"
  /\ UNCHANGED <<queue, inFlight, task, gps, passed, commands, updates, tells>>

UndoCommand ==
  /\ section = "undo"
  /\ inFlight' = inFlight - 1
  /\ section' = "none"
  /\ UNCHANGED <<queue, task, gps, passed, commands, updates, tells>>

(***************************************************************************)
(* The same by the control task for a GPS update, without m_Mutex.  While  *)
(* CMD_DISCONNECT is sent, m_State is no longer ACTIVE and the task only   *)
(* finishes the walk it is in, unless it published ACTIVE late.            *)
(***************************************************************************)
SendUpdate ==
  /\ gps = "none" /\ updates < MaxUpdates
  /\ section \in TellSections => passed < Backlog
  /\ updates' = updates + 1
  /\ inFlight' = inFlight + 1
  /\ gps' = "push"
  /\ passed' = IF section \in TellSections THEN passed + 1 ELSE passed
  /\ UNCHANGED <<queue, task, section, commands, tells>>

PushUpdate ==
  /\ gps = "push"
  /\ IF HasRoom
     THEN queue' = Append(queue, "GPS") /\ gps' = "none"
     ELSE gps' = "undo" /\ UNCHANGED queue
  /\ UNCHANGED <<inFlight, task, section, passed, commands, updates, tells>>

UndoUpdate ==
  /\ gps = "undo"
  /\ inFlight' = inFlight - 1
  /\ gps' = "none"
  /\ UNCHANGED <<queue, task, section, passed, commands, updates, tells>>

-----------------------------------------------------------------------------
(***************************************************************************)
(* sendCommand(CMD_DISCONNECT), under m_Mutex: empty the queue by          *)
(* receiving from it, then put the command at its front.                   *)
(***************************************************************************)
Tell ==
  /\ section = "none" /\ tells < MaxTells
  /\ tells' = tells + 1
  /\ section' = "drain"
  /\ passed' = IF gps = "push" THEN 1 ELSE 0
  /\ UNCHANGED <<queue, inFlight, task, gps, commands, updates>>

\* Faulty: leaves the queue as it is and takes its chance.
DrainNothing ==
  /\ section = "drain"
  /\ section' = "reserve"
  /\ UNCHANGED <<queue, inFlight, task, gps, passed, commands, updates, tells>>

Drain ==
  /\ section = "drain"
  /\ IF queue = <<>>
     THEN section' = "reserve" /\ UNCHANGED queue
     ELSE section' = "dropped" /\ queue' = Tail(queue)
  /\ UNCHANGED <<inFlight, task, gps, passed, commands, updates, tells>>

RetireDropped ==
  /\ section = "dropped"
  /\ inFlight' = inFlight - 1
  /\ section' = "drain"
  /\ UNCHANGED <<queue, task, gps, passed, commands, updates, tells>>

ReserveFront ==
  /\ section = "reserve"
  /\ inFlight' = inFlight + 1
  /\ section' = "front"
  /\ UNCHANGED <<queue, task, gps, passed, commands, updates, tells>>

PushFront ==
  /\ section = "front"
  /\ IF HasRoom
     THEN queue' = <<"DISCONNECT">> \o queue /\ section' = "none"
     ELSE section' = "refused" /\ UNCHANGED queue
  /\ UNCHANGED <<inFlight, task, gps, passed, commands, updates, tells>>

UndoFront ==
  /\ section = "refused"
  /\ inFlight' = inFlight - 1
  /\ section' = "none"
  /\ UNCHANGED <<queue, task, gps, passed, commands, updates, tells>>

-----------------------------------------------------------------------------
(***************************************************************************)
(* waitForCameraCommands(): idle() reads the count and then the queue; a   *)
(* target that is not idle is asked again later.                           *)
(***************************************************************************)
Wait ==
  /\ section = "none"
  /\ section' = "count"
  /\ UNCHANGED <<queue, inFlight, task, gps, passed, commands, updates, tells>>

ReadCount ==
  /\ section = "count"
  /\ section' = IF inFlight = 0 THEN "waiting" ELSE "none"
  /\ UNCHANGED <<queue, inFlight, task, gps, passed, commands, updates, tells>>

ReadQueue ==
  /\ section = "waiting"
  /\ section' = IF queue = <<>> THEN "idle" ELSE "none"
  /\ UNCHANGED <<queue, inFlight, task, gps, passed, commands, updates, tells>>

WaitReturns ==
  /\ section = "idle"
  /\ section' = "none"
  /\ UNCHANGED <<queue, inFlight, task, gps, passed, commands, updates, tells>>

-----------------------------------------------------------------------------
(***************************************************************************)
(* Target::task()                                                          *)
(***************************************************************************)
Receive ==
  /\ task = "wait" /\ queue # <<>>
  /\ task' = Head(queue)
  /\ queue' = Tail(queue)
  /\ UNCHANGED <<inFlight, section, gps, passed, commands, updates, tells>>

\* Faulty: counts a command as done before the camera has carried it out.
FinishEarly ==
  /\ task \in Commands /\ inFlight > 0
  /\ inFlight' = inFlight - 1
  /\ UNCHANGED <<queue, task, section, gps, passed, commands, updates, tells>>

\* Faulty: does not leave the command loop.
FinishWithoutExit ==
  /\ task \in Commands
  /\ inFlight' = inFlight - 1
  /\ task' = "wait"
  /\ UNCHANGED <<queue, section, gps, passed, commands, updates, tells>>

Finish ==
  /\ task \in Commands
  /\ inFlight' = inFlight - 1
  /\ task' = IF task = "DISCONNECT" THEN "exit" ELSE "wait"
  /\ UNCHANGED <<queue, section, gps, passed, commands, updates, tells>>

Stop ==
  /\ task = "exit"
  /\ task' = "stopped"
  /\ UNCHANGED <<queue, inFlight, section, gps, passed, commands, updates, tells>>

-----------------------------------------------------------------------------
Task == Receive \/ Finish \/ Stop

\* A section under m_Mutex, once it was entered.
Section ==
  \/ PushCommand \/ UndoCommand
  \/ Drain \/ RetireDropped \/ ReserveFront \/ PushFront \/ UndoFront
  \/ ReadCount \/ ReadQueue \/ WaitReturns

Next ==
  \/ Task \/ Section
  \/ SendCommand \/ Tell \/ Wait
  \/ SendUpdate \/ PushUpdate \/ UndoUpdate

Spec == Init /\ [][Next]_vars

\* A target's task and a thread inside m_Mutex are scheduled.
FairSpec == Spec /\ WF_vars(Task) /\ WF_vars(Section)

-----------------------------------------------------------------------------
\* Every field keeps its type and the queue its length.
TypeOK ==
  /\ queue \in Seq(Commands) /\ Len(queue) <= QueueLength
  /\ inFlight \in Int
  /\ task \in {"wait"} \cup Commands \cup Ended
  /\ section \in Sections /\ gps \in {"none", "push", "undo"}
  /\ passed \in 0..Backlog
  /\ commands \in 0..MaxCommands /\ updates \in 0..MaxUpdates /\ tells \in 0..MaxTells

One(holds) == IF holds THEN 1 ELSE 0

\* m_InFlight counts exactly the commands that are queued, executing or between
\* a reservation and its send: it never wraps below zero, and a command removed
\* while the task receives another is retired once.
Counted ==
  inFlight = Len(queue) + One(task \in Commands)
           + One(section \in {"push", "undo", "dropped", "front", "refused"})
           + One(gps # "none")

\* waitForCameraCommands() returns true only when no camera command is queued or
\* executing: a shutter release sent before it has reached the camera.
IdleMeansDone ==
  section = "idle" =>
    /\ task # "CAMERA"
    /\ \A i \in 1..Len(queue) : queue[i] # "CAMERA"

\* As many GPS updates as the queue has slots passed the last CMD_DISCONNECT.
Crowded == passed >= QueueLength

\* Once sent, CMD_DISCONNECT is the next command the task receives, or the task
\* has received it: never dropped, and never behind another command.
DisconnectIsNext ==
  tells > 0 /\ section \notin TellSections /\ ~Crowded =>
    \/ queue # <<>> /\ Head(queue) = "DISCONNECT"
    \/ task \in {"DISCONNECT"} \cup Ended

\* A task that is told to disconnect stops, whatever else is sent to it.
ToldStops == tells > 0 ~> task = "stopped" \/ Crowded
==============================================================================
