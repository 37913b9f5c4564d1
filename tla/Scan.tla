-------------------------------- MODULE Scan ---------------------------------
(***************************************************************************)
(* The one BLE scanner (lib/furble/Scan.cpp) and the threads that share    *)
(* it: the UI task, which discovers cameras, takes the queued events off   *)
(* and stops the scan; the control task, which looks for a saved camera    *)
(* inside FujifilmSecure::_connect() and Nikon::_connect(); a third task   *)
(* that only asks isActive(); and the NimBLE host task, which delivers.    *)
(*                                                                         *)
(* m_DispatchMutex is the variable dispatch; a section under m_StateMutex  *)
(* is one step.  A deadline passes when it likes.  The radio is external:  *)
(* it may refuse to start and may end a scan at any moment, it restarts if *)
(* it is on when it is started, and stopping it may fail, which stop()     *)
(* does not look at.  Nothing makes stopping it wait for the host task:    *)
(* the barrier of Scan.cpp:55-62 is there for GAP events only, and the     *)
(* scan response timer of NimBLEScan calls onResult() outside of one.      *)
(*                                                                         *)
(* Left out: the duty cycle, what an advertisement says, and the settings  *)
(* but for the timeout of a discovery.                                     *)
(*                                                                         *)
(* A definition marked "Faulty" is the one after it with a bug put in; no  *)
(* specification uses it, and it shows that a property notices the bug.    *)
(***************************************************************************)
EXTENDS Integers, Sequences

CONSTANTS
  MaxPending,    \* MAX_PENDING_RESULTS, 32 in the code
  Timed,         \* is the discovery timeout set? 0 scans until stopped
  MaxCalls       \* bound: discoveries, stops, attempts and queries, together

ASSUME ScanAssumption ==
  /\ MaxPending \in Nat \ {0} /\ Timed \subseteq BOOLEAN /\ Timed # {}
  /\ MaxCalls \in Nat

Threads == {"ui", "control", "query"}

VARIABLES
  dispatch,    \* who holds m_DispatchMutex
  active,      \* m_Active
  deadline,    \* m_DeadlineUs: none, ahead or passed
  generation,  \* m_Generation
  mode,        \* m_CallbackMode, and whether there is a custom callback
  pending,     \* m_PendingEvents
  inFlight,    \* m_CallbacksInFlight
  radio,       \* the generation the controller scans for, 0 when it is off
  hostAt,      \* where the host task is with its event,
  hostEvent,   \* which event that is,
  hostFrom,    \* the scan whose end it brings, 0 for none,
  hostGen,     \* and the generation onResult() or onScanEnd() has read
  pc, then,    \* where each thread is, and where stop() returns to
  batch,       \* events, processPendingCallbacks()
  session,     \* Control::getState() is not STATE_IDLE
  cancelled,   \* connectCancelled()
  answers,     \* the scans for which the results in m_Queue were accepted
  taken,       \* the result xQueueReceive() took last, 0 for none
  mine,        \* the generation the attempt's own scan was started with
  unstopped,   \* history: stopping the radio has failed
  strayEnd,    \* history: the end of another scan was taken for that of the current
  calls        \* how many of them were begun

scanVars    == <<active, deadline, generation, mode, pending>>
hostVars    == <<hostAt, hostEvent, hostFrom, hostGen>>
attemptVars == <<session, cancelled, answers, taken, mine>>
radioVars   == <<radio, unstopped, strayEnd>>

vars == <<dispatch, active, deadline, generation, mode, pending, inFlight, radio,
          hostAt, hostEvent, hostFrom, hostGen, pc, then, batch,
          session, cancelled, answers, taken, mine, unstopped, strayEnd, calls>>

StopPCs    == {"stop", "quiesce"}
StartPCs   == {"clear", "start", "launch", "failed"} \cup StopPCs
UiPCs      == {"idle", "asking", "process", "deliver"} \cup StartPCs
ControlPCs == {"idle", "wait", "asking", "leave"} \cup StartPCs
QueryPCs   == {"idle", "stop", "quiesce"}

Init ==
  /\ dispatch = "nobody"
  /\ active = FALSE /\ deadline = "none" /\ generation = 0
  /\ mode = "IDLE" /\ pending = <<>>
  /\ inFlight = 0 /\ radio = 0
  /\ hostAt = "idle" /\ hostEvent = "RESULT" /\ hostFrom = 0 /\ hostGen = 0
  /\ pc = [t \in Threads |-> "idle"] /\ then = [t \in Threads |-> "idle"]
  /\ batch = <<>>
  /\ session = FALSE /\ cancelled = FALSE
  /\ answers = {} /\ taken = 0 /\ mine = 0
  /\ unstopped = FALSE /\ strayEnd = FALSE
  /\ calls = 0

Goto(t, l)   == pc' = [pc EXCEPT ![t] = l]
Return(t, l) == then' = [then EXCEPT ![t] = l]
Free         == dispatch = "nobody"
Expired      == active /\ deadline = "passed"
Event(kind)  == [kind |-> kind, of |-> generation]

-----------------------------------------------------------------------------
(***************************************************************************)
(* stop(): the scan is invalidated, the callbacks leave, the radio is      *)
(* turned off.  The thread goes on where "then" says.                      *)
(***************************************************************************)
Invalidate(t) ==
  /\ pc[t] = "stop" /\ Free
  /\ dispatch' = t
  /\ active' = FALSE /\ deadline' = "none" /\ mode' = "IDLE" /\ pending' = <<>>
  /\ generation' = generation + 1
  /\ Goto(t, "quiesce")
  /\ UNCHANGED <<inFlight, radioVars, hostVars, then, batch, attemptVars, calls>>

\* NimBLEScan::stop(), whose result is ignored.
StopRadio ==
  \/ radio' = 0 /\ unstopped' = FALSE /\ strayEnd' = FALSE
  \/ radio # 0 /\ unstopped' = TRUE /\ UNCHANGED <<radio, strayEnd>>

\* Faulty: turns the radio off without waiting for a callback.
QuiesceAtOnce(t) ==
  /\ pc[t] = "quiesce"
  /\ StopRadio
  /\ dispatch' = "nobody"
  /\ Goto(t, then[t]) /\ Return(t, "idle")
  /\ UNCHANGED <<scanVars, inFlight, hostVars, batch, attemptVars, calls>>

\* The wait for m_CallbacksInFlight.
Quiesce(t) ==
  /\ pc[t] = "quiesce" /\ inFlight = 0
  /\ StopRadio
  /\ dispatch' = "nobody"
  /\ Goto(t, then[t]) /\ Return(t, "idle")
  /\ UNCHANGED <<scanVars, inFlight, hostVars, batch, attemptVars, calls>>

(***************************************************************************)
(* clear(), which both callers of start() call first, and start(): stop()  *)
(* and then, with m_DispatchMutex taken a second time, the new scan.  The  *)
(* deadline is set before the radio is started.                            *)
(***************************************************************************)
Clear(t) ==
  /\ pc[t] = "clear" /\ Free
  /\ pending' = <<>>
  /\ Goto(t, "stop") /\ Return(t, "start")
  /\ UNCHANGED <<dispatch, active, deadline, generation, mode, inFlight, radioVars, hostVars,
                 batch, attemptVars, calls>>

Start(t) ==
  /\ pc[t] = "start" /\ Free
  /\ dispatch' = t
  /\ generation' = generation + 1
  /\ active' = TRUE /\ pending' = <<>>
  /\ \/ /\ t = "ui"
        /\ mode' = "DISCOVERY" /\ UNCHANGED mine
        /\ \E timed \in Timed : deadline' = IF timed THEN "ahead" ELSE "none"
     \/ /\ t = "control"
        /\ mode' = "CUSTOM" /\ mine' = generation'
        /\ deadline' = "ahead"
  /\ Goto(t, "launch")
  /\ UNCHANGED <<inFlight, radioVars, hostVars, then, batch, session, cancelled, answers,
                 taken, calls>>

AfterStart(t) == IF t = "control" THEN "wait" ELSE "idle"

\* Faulty: takes a scan the radio refused for a scan.
LaunchUnwatched(t) ==
  /\ pc[t] = "launch"
  /\ radio' \in {0, generation} /\ unstopped' = FALSE
  /\ dispatch' = "nobody" /\ Goto(t, AfterStart(t))
  /\ UNCHANGED <<scanVars, inFlight, strayEnd, hostVars, then, batch, attemptVars, calls>>

\* NimBLEScan::start() stops a scan that is on first, and gives up if it cannot.
Launch(t) ==
  /\ pc[t] = "launch"
  /\ \/ /\ radio' = generation /\ unstopped' = FALSE
        /\ dispatch' = "nobody" /\ Goto(t, AfterStart(t))
     \/ /\ \/ radio' = 0 /\ unstopped' = FALSE
           \/ radio # 0 /\ unstopped' = TRUE /\ UNCHANGED radio
        /\ Goto(t, "failed") /\ UNCHANGED dispatch
  /\ UNCHANGED <<scanVars, inFlight, strayEnd, hostVars, then, batch, attemptVars, calls>>

\* The part of handleScanEnd() under m_StateMutex.
EndScan ==
  /\ active' = FALSE /\ deadline' = "none" /\ mode' = "IDLE"
  /\ pending' = IF mode = "DISCOVERY" THEN Append(pending, Event("END")) ELSE pending
  /\ UNCHANGED generation

\* start() reports the refused scan itself; no camera acts on onScanEnd().
Fail(t) ==
  /\ pc[t] = "failed"
  /\ EndScan
  /\ dispatch' = "nobody" /\ Goto(t, AfterStart(t))
  /\ UNCHANGED <<inFlight, radioVars, hostVars, then, batch, attemptVars, calls>>

-----------------------------------------------------------------------------
(***************************************************************************)
(* The host task.  onResult() and onScanEnd() read the generation and      *)
(* handleResult() and handleScanEnd() compare it, in two sections.         *)
(***************************************************************************)
\* A result; or the end, with the results that still waited for a scan response
\* before it; or the end NimBLEScan reports after a reset of the host.
Arrive ==
  /\ hostAt = "idle"
  /\ hostAt' = "event"
  /\ \/ radio # 0 /\ hostEvent' = "RESULT" /\ hostFrom' = 0 /\ UNCHANGED radio
     \/ radio # 0 /\ hostEvent' = "LAST" /\ hostFrom' = radio /\ radio' = 0
     \/ hostEvent' = "END" /\ hostFrom' = radio /\ radio' = 0
  /\ UNCHANGED <<dispatch, scanVars, inFlight, unstopped, strayEnd, hostGen, pc, then, batch,
                 attemptVars, calls>>

Read ==
  /\ hostAt = "event"
  /\ hostAt' = "read" /\ hostGen' = generation
  /\ UNCHANGED <<dispatch, scanVars, inFlight, radioVars, hostEvent, hostFrom, pc, then, batch,
                 attemptVars, calls>>

Current == active /\ hostGen = generation

\* The host task is done with its event, or goes on to the end of the scan.
HostDone ==
  /\ hostGen' = 0
  /\ \/ hostEvent = "LAST" /\ hostAt' = "event" /\ hostEvent' \in {"LAST", "END"}
        /\ UNCHANGED hostFrom
     \/ hostEvent # "LAST" /\ hostAt' = "idle" /\ hostEvent' = "RESULT" /\ hostFrom' = 0

\* A custom callback is counted before m_StateMutex is released.
CallCustom ==
  /\ hostAt' = "callback" /\ inFlight' = inFlight + 1
  /\ UNCHANGED <<hostEvent, hostFrom, hostGen>>

QueueResult ==
  pending' = IF Len(pending) >= MaxPending THEN pending
             ELSE Append(pending, Event("RESULT"))

HandleResult ==
  /\ hostAt = "read" /\ hostEvent # "END"
  /\ IF Current /\ ~Expired /\ mode = "CUSTOM"
     THEN CallCustom /\ UNCHANGED pending
     ELSE /\ HostDone /\ UNCHANGED inFlight
          /\ IF Current /\ ~Expired THEN QueueResult ELSE UNCHANGED pending
  /\ UNCHANGED <<dispatch, active, deadline, generation, mode, radioVars, pc, then, batch,
                 attemptVars, calls>>

HandleEnd ==
  /\ hostAt = "read" /\ hostEvent = "END"
  /\ IF Current THEN EndScan ELSE UNCHANGED scanVars
  /\ IF Current /\ mode = "CUSTOM" THEN CallCustom ELSE HostDone /\ UNCHANGED inFlight
  /\ strayEnd' = (strayEnd \/ (Current /\ hostFrom # generation))
  /\ UNCHANGED <<dispatch, radio, unstopped, pc, then, batch, attemptVars, calls>>

\* onResult() of the camera queues an advertisement that matches; its
\* onScanEnd() does nothing.  Then the callback is counted out.
Callback ==
  /\ hostAt = "callback"
  /\ answers' \in {answers, answers \cup IF hostEvent # "END" THEN {hostGen} ELSE {}}
  /\ inFlight' = inFlight - 1
  /\ HostDone
  /\ UNCHANGED <<dispatch, scanVars, radioVars, pc, then, batch, session, cancelled, taken, mine,
                 calls>>

Pass ==
  /\ deadline = "ahead"
  /\ deadline' = "passed"
  /\ UNCHANGED <<dispatch, active, generation, mode, pending, inFlight, radioVars, hostVars, pc,
                 then, batch, attemptVars, calls>>

-----------------------------------------------------------------------------
(***************************************************************************)
(* The UI task.                                                            *)
(***************************************************************************)
\* startScan() and Request::SCAN, whatever the state of the scan and of Control.
Discover ==
  /\ pc["ui"] = "idle" /\ calls < MaxCalls
  /\ calls' = calls + 1
  /\ Goto("ui", "clear")
  /\ UNCHANGED <<dispatch, scanVars, inFlight, radioVars, hostVars, then, batch, attemptVars>>

\* The main and the connected page, Request::SCAN and doDisconnect().
StopScan ==
  /\ pc["ui"] = "idle" /\ calls < MaxCalls
  /\ calls' = calls + 1
  /\ Goto("ui", "stop") /\ Return("ui", "idle")
  /\ UNCHANGED <<dispatch, scanVars, inFlight, radioVars, hostVars, batch, attemptVars>>

\* sleepDisplay(): isActive() is followed by a look at Control's state.
Sleep ==
  /\ pc["ui"] = "idle" /\ calls < MaxCalls
  /\ \/ Expired /\ Goto("ui", "stop") /\ Return("ui", "idle")
     \/ active /\ ~Expired /\ Goto("ui", "asking") /\ UNCHANGED then
  /\ calls' = calls + 1
  /\ UNCHANGED <<dispatch, scanVars, inFlight, radioVars, hostVars, batch, attemptVars>>

SleepStops ==
  /\ pc["ui"] = "asking"
  /\ IF session THEN Goto("ui", "idle") /\ UNCHANGED then
     ELSE Goto("ui", "stop") /\ Return("ui", "idle")
  /\ UNCHANGED <<dispatch, scanVars, inFlight, radioVars, hostVars, batch, attemptVars, calls>>

\* Faulty: takes the events without m_DispatchMutex.
ProcessUnlocked ==
  /\ pc["ui"] = "idle" /\ pending # <<>>
  /\ batch' = pending /\ pending' = <<>>
  /\ Goto("ui", "process")
  /\ UNCHANGED <<dispatch, active, deadline, generation, mode, inFlight, radioVars, hostVars, then,
                 attemptVars, calls>>

\* processPendingCallbacks() takes the events, looks at each and delivers it.
Process ==
  /\ pc["ui"] = "idle" /\ Free /\ pending # <<>>
  /\ dispatch' = "ui"
  /\ batch' = pending /\ pending' = <<>>
  /\ Goto("ui", "process")
  /\ UNCHANGED <<active, deadline, generation, mode, inFlight, radioVars, hostVars, then,
                 attemptVars, calls>>

ProcessOne ==
  /\ pc["ui"] = "process"
  /\ IF batch = <<>>
     THEN dispatch' = "nobody" /\ Goto("ui", "idle") /\ UNCHANGED batch
     ELSE /\ UNCHANGED dispatch
          /\ IF Head(batch).of = generation
             THEN Goto("ui", "deliver") /\ UNCHANGED batch
             ELSE batch' = Tail(batch) /\ UNCHANGED pc
  /\ UNCHANGED <<scanVars, inFlight, radioVars, hostVars, then, attemptVars, calls>>

Deliver ==
  /\ pc["ui"] = "deliver"
  /\ batch' = Tail(batch)
  /\ Goto("ui", "process")
  /\ UNCHANGED <<dispatch, scanVars, inFlight, radioVars, hostVars, then, attemptVars, calls>>

\* A connection is asked for, and cancelled.
Connect ==
  /\ pc["ui"] = "idle" /\ ~session /\ calls < MaxCalls
  /\ session' = TRUE /\ cancelled' = FALSE
  /\ UNCHANGED <<dispatch, scanVars, inFlight, radioVars, hostVars, pc, then, batch, answers, taken,
                 mine, calls>>

Cancel ==
  /\ pc["ui"] = "idle" /\ session /\ ~cancelled
  /\ cancelled' = TRUE
  /\ UNCHANGED <<dispatch, scanVars, inFlight, radioVars, hostVars, pc, then, batch, session,
                 answers, taken, mine, calls>>

-----------------------------------------------------------------------------
(***************************************************************************)
(* The control task: _connect() of a saved camera, from xQueueReset() to   *)
(* the stop() after the wait; and the task that asks isActive().           *)
(***************************************************************************)
\* Faulty: keeps the results an earlier attempt has left in m_Queue.
AttemptUnreset ==
  /\ pc["control"] = "idle" /\ session /\ calls < MaxCalls
  /\ calls' = calls + 1
  /\ taken' = 0
  /\ Goto("control", "clear")
  /\ UNCHANGED <<dispatch, scanVars, inFlight, radioVars, hostVars, then, batch, session, cancelled,
                 answers, mine>>

Attempt ==
  /\ pc["control"] = "idle" /\ session /\ calls < MaxCalls
  /\ calls' = calls + 1
  /\ answers' = {} /\ taken' = 0
  /\ Goto("control", "clear")
  /\ UNCHANGED <<dispatch, scanVars, inFlight, radioVars, hostVars, then, batch, session, cancelled,
                 mine>>

\* Control gives up on the camera, or has connected and is later told to stop.
SessionOver ==
  /\ pc["control"] = "idle" /\ session
  /\ session' = FALSE
  /\ UNCHANGED <<dispatch, scanVars, inFlight, radioVars, hostVars, pc, then, batch, cancelled,
                 answers, taken, mine, calls>>

\* xQueueReceive() with a timeout of a second.
Receive ==
  /\ pc["control"] = "wait"
  /\ \/ answers = {} /\ UNCHANGED <<answers, taken>>
     \/ \E a \in answers : taken' = a /\ answers' = answers \ {a}
  /\ Goto("control", "asking")
  /\ UNCHANGED <<dispatch, scanVars, inFlight, radioVars, hostVars, then, batch, session, cancelled,
                 mine, calls>>

\* The condition of the loop, and the stop() behind it.
LoopOrLeave ==
  /\ pc["control"] = "asking"
  /\ IF Expired
     THEN Goto("control", "stop") /\ Return("control", "leave")
     ELSE /\ Goto("control", IF active /\ taken = 0 /\ ~cancelled THEN "wait" ELSE "leave")
          /\ UNCHANGED then
  /\ UNCHANGED <<dispatch, scanVars, inFlight, radioVars, hostVars, batch, attemptVars, calls>>

StopAfterWait ==
  /\ pc["control"] = "leave"
  /\ Goto("control", "stop") /\ Return("control", "idle")
  /\ UNCHANGED <<dispatch, scanVars, inFlight, radioVars, hostVars, batch, attemptVars, calls>>

\* isActive() by a task that does nothing else to the scan.
Ask ==
  /\ pc["query"] = "idle" /\ Expired /\ calls < MaxCalls
  /\ calls' = calls + 1
  /\ Goto("query", "stop") /\ Return("query", "idle")
  /\ UNCHANGED <<dispatch, scanVars, inFlight, radioVars, hostVars, batch, attemptVars>>

-----------------------------------------------------------------------------
Lifecycle(t) == Invalidate(t) \/ Quiesce(t) \/ Clear(t) \/ Start(t) \/ Launch(t) \/ Fail(t)

Host == Read \/ HandleResult \/ HandleEnd \/ Callback

\* What each thread does once it has begun.
UiGoesOn      == Lifecycle("ui") \/ SleepStops \/ ProcessOne \/ Deliver
ControlGoesOn == Lifecycle("control") \/ Receive \/ LoopOrLeave \/ StopAfterWait
QueryGoesOn   == Lifecycle("query")

Next ==
  \/ Arrive \/ Host \/ Pass
  \/ UiGoesOn \/ Discover \/ StopScan \/ Sleep \/ Process \/ Connect \/ Cancel
  \/ ControlGoesOn \/ Attempt \/ SessionOver
  \/ QueryGoesOn \/ Ask

Spec == Init /\ [][Next]_vars

-----------------------------------------------------------------------------
\* Every field keeps its type, and the queue of events its length: the END of a
\* scan is queued behind MAX_PENDING_RESULTS results at most.
TypeOK ==
  /\ dispatch \in {"nobody"} \cup Threads
  /\ active \in BOOLEAN /\ deadline \in {"none", "ahead", "passed"}
  /\ generation \in Nat /\ mode \in {"IDLE", "DISCOVERY", "CUSTOM"}
  /\ pending \in Seq([kind : {"RESULT", "END"}, of : Nat])
  /\ Len(pending) <= MaxPending + 1
  /\ inFlight \in {0, 1} /\ radio \in 0..generation
  /\ hostAt \in {"idle", "event", "read", "callback"}
  /\ hostEvent \in {"RESULT", "LAST", "END"}
  /\ hostFrom \in 0..generation /\ hostGen \in 0..generation
  /\ pc["ui"] \in UiPCs /\ pc["control"] \in ControlPCs /\ pc["query"] \in QueryPCs
  /\ then \in [Threads -> {"idle", "start", "leave"}]
  /\ batch \in Seq([kind : {"RESULT", "END"}, of : Nat])
  /\ session \in BOOLEAN /\ unstopped \in BOOLEAN /\ strayEnd \in BOOLEAN /\ cancelled \in BOOLEAN
  /\ answers \subseteq 1..generation /\ taken \in 0..generation /\ mine \in 0..generation
  /\ calls \in 0..MaxCalls

\* The callback of a camera runs only while the control task is inside the
\* attempt that registered it: once the stop() after the wait has returned, the
\* camera may be destroyed (Scan.cpp:154-156).
CallbackHasOwner == hostAt = "callback" => pc["control"] # "idle"

\* A result that ends the wait for a saved camera was accepted for the scan of
\* this very attempt: not one an earlier attempt left in the queue, nor one its
\* callback was still busy with, nor one of another task's scan
\* (FujifilmSecure.cpp:164-165).
AnswerIsOurs == taken # 0 => taken = mine

\* An event handed to the UI was queued for the scan that is current while it is
\* handled: no start() of another task replaces the scan between the comparison
\* and the handling (Scan.cpp:427-450).
DeliveryIsCurrent == pc["ui"] = "deliver" => Head(batch).of = generation

\* The host task has yet to deliver the end of a scan, or is at it.
EndComing == hostEvent \in {"LAST", "END"} /\ hostAt # "idle"

\* Between two lifecycle calls the radio scans for the current logical scan and
\* no other, and an active logical scan has the radio or its end on the way,
\* also when two start() calls came in between each other.  The exceptions:
\* stopping the radio has failed, or the end of a scan that was replaced was
\* taken for the end of the one that replaced it, and no stop() came since.
RadioIsOwned ==
  Free /\ ~unstopped /\ ~strayEnd =>
    /\ radio # 0 => active /\ radio = generation
    /\ active => radio # 0 \/ EndComing

\* stop() waits for a callback that runs, and for nothing else: no count is left
\* over that nobody would take back, and so m_DispatchMutex is released again.
WaitIsForCallback == inFlight = IF hostAt = "callback" THEN 1 ELSE 0
==============================================================================
