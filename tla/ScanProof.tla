------------------------------- MODULE ScanProof -------------------------------
(***************************************************************************)
(* What holds of the scanner for any number of discoveries, stops and      *)
(* attempts and any length of the queue of events, in every order in which *)
(* the three threads, the host task and the deadline can run.              *)
(***************************************************************************)
EXTENDS Scan, SequenceTheorems, TLAPS

Events == [kind : {"RESULT", "END"}, of : Nat]

\* Where a thread can be, and where its stop() returns to.
ThreadTypes ==
  /\ dispatch \in {"nobody"} \cup Threads
  /\ pc \in [Threads -> UiPCs \cup ControlPCs] /\ then \in [Threads -> {"idle", "start", "leave"}]
  /\ pc["ui"] \in UiPCs /\ pc["control"] \in ControlPCs /\ pc["query"] \in QueryPCs
  /\ then["ui"] # "leave" /\ then["query"] = "idle"

\* m_DispatchMutex is held inside stop(), start() and processPendingCallbacks().
Locked == {"quiesce", "launch", "failed", "process", "deliver"}

Mutex == \A t \in Threads : pc[t] \in Locked <=> dispatch = t

\* The state under m_StateMutex.  A scan that is on has a mode; a discovery has
\* room left for its END.
StateTypes ==
  /\ active \in BOOLEAN /\ deadline \in {"none", "ahead", "passed"}
  /\ generation \in Nat /\ mode \in {"IDLE", "DISCOVERY", "CUSTOM"}
  /\ mode # "IDLE" <=> active
  /\ active => generation # 0
  /\ pending \in Seq(Events) /\ batch \in Seq(Events)
  /\ Len(pending) <= MaxPending + 1
  /\ mode = "DISCOVERY" => Len(pending) <= MaxPending

\* The host task and the controller.
HostTypes ==
  /\ radio \in 0..generation
  /\ hostAt \in {"idle", "event", "read", "callback"} /\ hostEvent \in {"RESULT", "LAST", "END"}
  /\ hostFrom \in 0..generation /\ hostGen \in 0..generation
  /\ hostAt = "read" => hostFrom <= hostGen
  /\ hostAt = "callback" => hostGen # 0
  /\ inFlight = IF hostAt = "callback" THEN 1 ELSE 0

AttemptTypes ==
  /\ session \in BOOLEAN /\ cancelled \in BOOLEAN
  /\ unstopped \in BOOLEAN /\ strayEnd \in BOOLEAN
  /\ answers \subseteq 1..generation /\ taken \in 0..generation /\ mine \in 0..generation
  /\ calls \in 0..MaxCalls

Types == ThreadTypes /\ StateTypes /\ HostTypes /\ AttemptTypes

\* Events handed to the UI.
Delivery == pc["ui"] = "deliver" => batch # <<>> /\ Head(batch).of = generation

\* The control task has begun an attempt and not started its scan.
Before ==
  \/ pc["control"] \in {"clear", "start"}
  \/ pc["control"] \in StopPCs /\ then["control"] = "start"

\* A camera is called back from the start of its scan to the stop() behind it.
Registered ==
  /\ mode = "CUSTOM" =>
       /\ pc["control"] \notin {"idle", "quiesce"} /\ ~Before
       /\ mine = generation
  /\ hostAt = "callback" => pc["control"] # "idle" /\ ~Before

Settling == {"quiesce", "launch", "failed"}

\* Nobody is inside stop() or start().
Settled == \A t \in Threads : pc[t] \notin Settling

\* The host task brings the end of the scan that is current.
EndIsOurs ==
  /\ hostFrom = generation /\ hostAt # "idle"
  /\ hostEvent = "LAST" \/ (hostEvent = "END" /\ hostAt # "callback")

\* The radio and the host task are behind the scan that start() is about to put
\* on, and the end the host task brings is of a scan the radio has left.
Behind ==
  /\ \A t \in Threads : pc[t] \in {"launch", "failed"} =>
       radio # generation /\ generation # 0 /\ (EndComing => hostFrom # generation)
  /\ generation # 0 /\ EndComing /\ hostFrom = generation => radio # generation

\* What the second section of start(), and the one for a refused scan, find.
Starting ==
  /\ \A t \in Threads : pc[t] = "quiesce" => ~active
  /\ ~strayEnd => \A t \in Threads : pc[t] \in {"launch", "failed"} => active
  /\ ~unstopped => \A t \in Threads : pc[t] = "failed" => radio = 0

\* The radio serves the scan that is current, and a scan that has lost the radio
\* is about to be told.
Served ==
  Settled /\ ~unstopped /\ ~strayEnd =>
    /\ radio # 0 => active /\ radio = generation
    /\ active => radio # 0 \/ EndIsOurs

Owned == Behind /\ Starting /\ Served

\* What the attempt was told is of its own scan.
Fresh ==
  /\ Before => answers = {} /\ taken = 0
  /\ answers \subseteq {mine} /\ taken \in {0, mine}
  /\ hostAt = "callback" => hostGen = mine

IInv == Types /\ Mutex /\ Delivery /\ Registered /\ Owned /\ Fresh

-----------------------------------------------------------------------------
LEMMA InitHolds == Init => IInv
<1>1. <<>> \in Seq(Events) /\ Len(<<>>) = 0
  OBVIOUS
<1>2. 0 \in 0..MaxCalls /\ MaxPending \in Nat
  BY ScanAssumption
<1>3. Init => Types
  <2>1. Init => ThreadTypes
    BY DEF Init, ThreadTypes, Threads, UiPCs, ControlPCs, QueryPCs
  <2>2. Init => StateTypes
    <3>1. Init => active = FALSE /\ deadline = "none" /\ generation = 0 /\ mode = "IDLE"
                  /\ pending = <<>> /\ batch = <<>>
      BY DEF Init
    <3>2. Init => active \in BOOLEAN /\ (mode # "IDLE" <=> active)
      BY DEF Init
    <3> QED BY <1>1, <1>2, <3>1, <3>2 DEF StateTypes
  <2>3. Init => HostTypes
    BY DEF Init, HostTypes
  <2>4. Init => AttemptTypes
    <3>1. Init => /\ answers = {} /\ taken = 0 /\ mine = 0 /\ generation = 0 /\ calls = 0
      BY DEF Init
    <3>2. Init => /\ session \in BOOLEAN /\ cancelled \in BOOLEAN
                  /\ unstopped \in BOOLEAN /\ strayEnd \in BOOLEAN
      BY DEF Init
    <3> QED BY <1>2, <3>1, <3>2 DEF AttemptTypes
  <2> QED BY <2>1, <2>2, <2>3, <2>4 DEF Types
<1>4. Init => Mutex /\ Delivery /\ Registered /\ Owned /\ Fresh
  BY DEF Init, Mutex, Locked, Delivery, Registered, Owned, Behind, Starting, Served, Fresh, Before,
     StopPCs, Threads
<1> QED BY <1>3, <1>4 DEF IInv

\* Where a thread can be.
PlacesOf(t) == IF t = "ui" THEN UiPCs ELSE IF t = "control" THEN ControlPCs ELSE QueryPCs
ReturnsOf(t) ==
  IF t = "ui" THEN {"idle", "start"}
  ELSE IF t = "control" THEN {"idle", "start", "leave"} ELSE {"idle"}

LEMMA ThreadPlaces ==
  ThreadTypes <=> /\ dispatch \in {"nobody"} \cup Threads
                  /\ pc \in [Threads -> UiPCs \cup ControlPCs]
                  /\ then \in [Threads -> {"idle", "start", "leave"}]
                  /\ \A t \in Threads : pc[t] \in PlacesOf(t) /\ then[t] \in ReturnsOf(t)
BY DEF ThreadTypes, Threads, PlacesOf, ReturnsOf, UiPCs, ControlPCs, QueryPCs, StartPCs, StopPCs

\* The three ways a thread moves: without m_DispatchMutex, into a section under
\* it or on in one, and out of it.
LEMMA Moves ==
  ASSUME ThreadTypes, Mutex, NEW t \in Threads, NEW l \in PlacesOf(t), Goto(t, l),
         then' = then \/ \E r \in ReturnsOf(t) : Return(t, r),
         \/ dispatch' = dispatch /\ pc[t] \notin Locked /\ l \notin Locked
         \/ dispatch' = t /\ (Free \/ pc[t] \in Locked) /\ l \in Locked
         \/ dispatch' = "nobody" /\ pc[t] \in Locked /\ l \notin Locked
  PROVE  ThreadTypes' /\ Mutex'
<1>1. /\ dispatch \in {"nobody"} \cup Threads
      /\ pc \in [Threads -> UiPCs \cup ControlPCs]
      /\ then \in [Threads -> {"idle", "start", "leave"}]
      /\ \A u \in Threads : pc[u] \in PlacesOf(u) /\ then[u] \in ReturnsOf(u)
  BY ThreadPlaces
<1>2. l \in UiPCs \cup ControlPCs
  BY DEF PlacesOf, QueryPCs, UiPCs, StartPCs, StopPCs
<1>3. /\ pc' \in [Threads -> UiPCs \cup ControlPCs]
      /\ pc'[t] = l /\ \A u \in Threads \ {t} : pc'[u] = pc[u]
  BY <1>1, <1>2 DEF Goto
<1>4. /\ then' \in [Threads -> {"idle", "start", "leave"}]
      /\ \A u \in Threads : then'[u] \in ReturnsOf(u)
  <2>1. \A r \in ReturnsOf(t) : r \in {"idle", "start", "leave"}
    BY DEF ReturnsOf
  <2> QED BY <1>1, <2>1 DEF Return
<1>5. dispatch' \in {"nobody"} \cup Threads
  BY <1>1
<1>6. ThreadTypes'
  <2>1. /\ dispatch' \in {"nobody"} \cup Threads
        /\ pc' \in [Threads -> UiPCs \cup ControlPCs]
        /\ then' \in [Threads -> {"idle", "start", "leave"}]
        /\ \A u \in Threads : pc'[u] \in PlacesOf(u) /\ then'[u] \in ReturnsOf(u)
    BY <1>1, <1>3, <1>4, <1>5
  <2> QED
    BY <2>1 DEF ThreadTypes, Threads, PlacesOf, ReturnsOf
<1>7. Mutex'
  BY <1>1, <1>3 DEF Mutex, Free, Threads
<1> QED BY <1>6, <1>7

LEMMA ThreadStep ==
  ASSUME ThreadTypes, Mutex, [Next]_vars
  PROVE  ThreadTypes' /\ Mutex'
<1> DEFINE Done == ThreadTypes' /\ Mutex'
<1>1. CASE UNCHANGED <<dispatch, pc, then>>
  BY <1>1 DEF ThreadTypes, Mutex
<1>2. \A t \in Threads : pc[t] \in PlacesOf(t) /\ then[t] \in ReturnsOf(t)
  BY ThreadPlaces
<1>3. /\ {"ui", "control", "query"} \subseteq Threads
      /\ {"quiesce", "launch", "failed", "process", "deliver"} = Locked
  BY DEF Threads, Locked
<1>4. \A t \in Threads : {"idle", "stop", "quiesce"} \subseteq PlacesOf(t) /\ "idle" \in ReturnsOf(t)
  BY DEF Threads, PlacesOf, ReturnsOf, UiPCs, ControlPCs, QueryPCs, StartPCs, StopPCs
<1>5. ASSUME NEW t \in Threads, pc[t] \in {"clear", "start", "launch", "failed"}
      PROVE  /\ {"start", "launch", "failed", AfterStart(t)} \subseteq PlacesOf(t)
             /\ "start" \in ReturnsOf(t) /\ AfterStart(t) \notin Locked
  BY <1>2, <1>5 DEF Threads, PlacesOf, ReturnsOf, UiPCs, ControlPCs, QueryPCs, StartPCs, StopPCs,
     AfterStart, Locked
<1>6. ASSUME NEW t \in Threads, Lifecycle(t) PROVE Done
  <2>1. CASE Invalidate(t)
    BY <1>3, <1>4, <2>1, Moves DEF Invalidate
  <2>2. CASE Quiesce(t)
    <3>1. then[t] \in PlacesOf(t) /\ then[t] \notin Locked
      BY <1>2 DEF Threads, PlacesOf, ReturnsOf, UiPCs, ControlPCs, QueryPCs, StartPCs, Locked
    <3> QED BY <1>3, <1>4, <2>2, <3>1, Moves DEF Quiesce
  <2>3. CASE Clear(t)
    BY <1>3, <1>4, <1>5, <2>3, Moves DEF Clear
  <2>4. CASE Start(t)
    BY <1>3, <1>5, <2>4, Moves DEF Start
  <2>5. CASE Launch(t)
    <3>1. pc[t] = "launch" /\ dispatch = t
      BY <2>5, <1>3 DEF Launch, Mutex
    <3>2. CASE dispatch' = "nobody" /\ Goto(t, AfterStart(t))
      BY <1>3, <1>5, <2>5, <3>1, <3>2, Moves DEF Launch
    <3>3. CASE Goto(t, "failed") /\ UNCHANGED dispatch
      BY <1>3, <1>5, <2>5, <3>1, <3>3, Moves DEF Launch
    <3> QED BY <2>5, <3>2, <3>3 DEF Launch
  <2>6. CASE Fail(t)
    BY <1>3, <1>5, <2>6, Moves DEF Fail
  <2> QED BY <1>6, <2>1, <2>2, <2>3, <2>4, <2>5, <2>6 DEF Lifecycle
<1>7. {"clear", "asking", "process", "deliver"} \subseteq PlacesOf("ui")
      /\ {"clear", "wait", "asking", "leave"} \subseteq PlacesOf("control")
      /\ "leave" \in ReturnsOf("control")
  BY DEF PlacesOf, ReturnsOf, UiPCs, ControlPCs, StartPCs
<1>8. CASE Discover \/ Attempt \/ StopScan \/ StopAfterWait \/ Ask \/ Receive
  BY <1>3, <1>4, <1>7, <1>8, Moves
     DEF Discover, Attempt, StopScan, StopAfterWait, Ask, Receive, Locked
<1>9. CASE Sleep \/ SleepStops
  BY <1>3, <1>4, <1>7, <1>9, Moves DEF Sleep, SleepStops, Locked
<1>10. CASE LoopOrLeave
  BY <1>3, <1>4, <1>7, <1>10, Moves DEF LoopOrLeave, Locked
<1>11. CASE Process \/ Deliver
  <2>1. CASE Process
    BY <1>3, <1>7, <2>1, Moves DEF Process
  <2>2. CASE Deliver
    BY <1>3, <1>7, <2>2, Moves DEF Deliver, Mutex
  <2> QED BY <1>11, <2>1, <2>2
<1>12. CASE ProcessOne
  <2>1. pc["ui"] = "process" /\ dispatch = "ui" /\ "process" \in Locked
    BY <1>3, <1>12 DEF ProcessOne, Mutex
  <2>2. CASE dispatch' = "nobody" /\ Goto("ui", "idle")
    BY <1>3, <1>4, <1>12, <2>1, <2>2, Moves DEF ProcessOne, Locked
  <2>3. CASE Goto("ui", "deliver") /\ UNCHANGED dispatch
    BY <1>3, <1>7, <1>12, <2>1, <2>3, Moves DEF ProcessOne
  <2> QED BY <1>1, <1>12, <2>2, <2>3 DEF ProcessOne
<1>13. \/ UNCHANGED <<dispatch, pc, then>> \/ (\E t \in Threads : Lifecycle(t))
       \/ Discover \/ Attempt \/ StopScan \/ StopAfterWait \/ Ask \/ Receive
       \/ Sleep \/ SleepStops \/ LoopOrLeave \/ Process \/ Deliver \/ ProcessOne
  BY <1>3 DEF Next, Host, UiGoesOn, ControlGoesOn, QueryGoesOn, vars, Arrive, Read, HandleResult,
     HandleEnd, Callback, Pass, Connect, Cancel, SessionOver
<1> QED BY <1>1, <1>6, <1>8, <1>9, <1>10, <1>11, <1>12, <1>13

-----------------------------------------------------------------------------
\* What an event does to the queue.
LEMMA Queued ==
  ASSUME NEW q \in Seq(Events), NEW e \in Events
  PROVE  Append(q, e) \in Seq(Events) /\ Len(Append(q, e)) = Len(q) + 1 /\ Len(q) \in Nat
  BY AppendProperties, LenProperties

LEMMA EndTypes ==
  ASSUME StateTypes, EndScan
  PROVE  /\ active' = FALSE /\ mode' = "IDLE" /\ deadline' = "none" /\ generation' = generation
         /\ pending' \in Seq(Events) /\ Len(pending') <= MaxPending + 1
<1>1. Event("END") \in Events
  BY DEF StateTypes, Event, Events
<1>2. Append(pending, Event("END")) \in Seq(Events) /\ Len(pending) \in Nat
      /\ Len(Append(pending, Event("END"))) = Len(pending) + 1
  BY <1>1, Queued DEF StateTypes
<1> QED BY <1>2, ScanAssumption DEF EndScan, StateTypes

LEMMA ResultTypes ==
  ASSUME StateTypes, Current, mode # "CUSTOM", QueueResult
  PROVE  pending' \in Seq(Events) /\ Len(pending') <= MaxPending
<1>1. Event("RESULT") \in Events
  BY DEF StateTypes, Event, Events
<1>2. Append(pending, Event("RESULT")) \in Seq(Events) /\ Len(pending) \in Nat
      /\ Len(Append(pending, Event("RESULT"))) = Len(pending) + 1
  BY <1>1, Queued DEF StateTypes
<1>3. Len(pending) <= MaxPending
  BY DEF StateTypes, Current
<1> QED BY <1>2, <1>3, ScanAssumption DEF QueueResult, StateTypes

LEMMA StateStep ==
  ASSUME StateTypes, Delivery, [Next]_vars
  PROVE  StateTypes' /\ generation <= generation'
<1> DEFINE Done == StateTypes' /\ generation <= generation'
<1>1. CASE UNCHANGED <<scanVars, batch>>
  BY <1>1 DEF StateTypes, scanVars
<1>0. active' = FALSE /\ mode' = "IDLE" =>
        active' \in BOOLEAN /\ (mode' # "IDLE" <=> active') /\ (active' => generation' # 0)
  OBVIOUS
<1>2. <<>> \in Seq(Events) /\ Len(<<>>) = 0 /\ MaxPending \in Nat
  BY ScanAssumption
<1>3. ASSUME NEW t \in Threads, Invalidate(t) PROVE Done
  BY <1>2, <1>3, <1>0 DEF Invalidate, StateTypes
<1>4. ASSUME NEW t \in Threads, Clear(t) PROVE Done
  BY <1>2, <1>4 DEF Clear, StateTypes
<1>5. ASSUME NEW t \in Threads, Start(t) PROVE Done
  <2>1. /\ generation' = generation + 1 /\ active' = TRUE /\ pending' = <<>> /\ batch' = batch
        /\ mode' \in {"DISCOVERY", "CUSTOM"} /\ deadline' \in {"ahead", "none"}
    BY <1>5 DEF Start
  <2> QED BY <1>2, <2>1 DEF StateTypes
<1>6. ASSUME EndScan, UNCHANGED batch PROVE Done
  <2>1. /\ active' = FALSE /\ mode' = "IDLE" /\ deadline' = "none" /\ generation' = generation
        /\ pending' \in Seq(Events) /\ Len(pending') <= MaxPending + 1
    BY <1>6, EndTypes
  <2>2. generation \in Nat /\ batch' \in Seq(Events)
    BY <1>6 DEF StateTypes
  <2>3. active' \in BOOLEAN /\ (mode' # "IDLE" <=> active') /\ (active' => generation' # 0)
    BY <1>0, <2>1
  <2> QED BY <2>1, <2>2, <2>3 DEF StateTypes
<1>7. CASE HandleResult
  <2>1. CASE UNCHANGED pending
    BY <1>7, <2>1 DEF HandleResult, StateTypes
  <2>2. CASE Current /\ ~Expired /\ mode # "CUSTOM" /\ QueueResult
    BY <1>7, <2>2, ResultTypes, ScanAssumption DEF HandleResult, StateTypes
  <2> QED BY <1>7, <2>1, <2>2 DEF HandleResult
<1>8. CASE HandleEnd
  BY <1>1, <1>6, <1>8 DEF HandleEnd
<1>9. CASE Pass
  BY <1>9 DEF Pass, StateTypes
<1>10. CASE Process
  BY <1>2, <1>10 DEF Process, StateTypes
<1>11. ASSUME UNCHANGED scanVars, batch # <<>>, batch' = Tail(batch) PROVE Done
  <2>1. batch' \in Seq(Events)
    BY <1>11, HeadTailProperties DEF StateTypes
  <2> QED BY <1>11, <2>1 DEF StateTypes, scanVars
<1>12. CASE ProcessOne
  BY <1>1, <1>11, <1>12 DEF ProcessOne
<1>13. CASE Deliver
  <2>1. batch # <<>>
    BY <1>13 DEF Deliver, Delivery
  <2> QED BY <1>11, <1>13, <2>1 DEF Deliver
<1>14. ASSUME NEW t \in Threads, Fail(t) PROVE Done
  BY <1>6, <1>14 DEF Fail
<1> QED BY <1>1, <1>3, <1>4, <1>5, <1>7, <1>8, <1>9, <1>10, <1>12, <1>13, <1>14
     DEF Next, Host, UiGoesOn, ControlGoesOn, QueryGoesOn, Lifecycle, Threads, vars, scanVars,
         Arrive, Read, Callback,
         Quiesce, Launch, Discover, StopScan, Sleep, SleepStops, Connect, Cancel, Attempt,
         SessionOver, Receive, LoopOrLeave, StopAfterWait, Ask

-----------------------------------------------------------------------------
LEMMA HostStep ==
  ASSUME Types, Delivery, [Next]_vars
  PROVE  HostTypes'
<1>1. generation \in Nat /\ generation' \in Nat /\ generation <= generation'
  BY StateStep DEF Types, StateTypes
<1>2. /\ radio \in 0..generation' /\ hostFrom \in 0..generation' /\ hostGen \in 0..generation'
  BY <1>1 DEF Types, HostTypes
<1>3. CASE UNCHANGED <<radio, hostVars, inFlight>>
  BY <1>2, <1>3 DEF Types, HostTypes, hostVars
<1>4. CASE UNCHANGED <<hostVars, inFlight>> /\ radio' \in {0, generation}
  BY <1>1, <1>2, <1>4 DEF Types, HostTypes, hostVars
<1>5. CASE Arrive
  BY <1>1, <1>2, <1>5 DEF Arrive, Types, HostTypes
<1>6. CASE Read
  BY <1>1, <1>2, <1>6 DEF Read, Types, HostTypes, scanVars, radioVars
<1>7. CASE HandleResult \/ HandleEnd
  <2>1. /\ hostAt = "read" /\ UNCHANGED <<generation, radio>>
        /\ \/ HostDone /\ inFlight' = inFlight
           \/ Current /\ CallCustom
    BY <1>7 DEF HandleResult, HandleEnd, EndScan, scanVars, radioVars
  <2>2. Current => hostGen # 0
    BY DEF Current, Types, StateTypes
  <2> QED BY <1>1, <1>2, <2>1, <2>2 DEF Types, HostTypes, CallCustom, HostDone
<1>8. CASE Callback
  BY <1>1, <1>2, <1>8 DEF Callback, Types, HostTypes, HostDone, radioVars
<1>9. ASSUME NEW t \in Threads, Lifecycle(t) PROVE HostTypes'
  BY <1>3, <1>4, <1>9
     DEF Lifecycle, Invalidate, Quiesce, StopRadio, Clear, Start, Launch, Fail, radioVars, hostVars
<1> QED BY <1>3, <1>5, <1>6, <1>7, <1>8, <1>9
     DEF Next, Host, UiGoesOn, ControlGoesOn, QueryGoesOn, Threads, vars, hostVars, radioVars, Pass,
         Process, ProcessOne, Deliver, Discover, StopScan, Sleep, SleepStops, Connect, Cancel,
         Attempt, SessionOver, Receive, LoopOrLeave, StopAfterWait, Ask

LEMMA AttemptStep ==
  ASSUME Types, Delivery, [Next]_vars
  PROVE  AttemptTypes'
<1>1. generation \in Nat /\ generation' \in Nat /\ generation <= generation'
  BY StateStep DEF Types, StateTypes
<1>2. answers \subseteq 1..generation' /\ taken \in 0..generation' /\ mine \in 0..generation'
  BY <1>1 DEF Types, AttemptTypes
<1>3. active \in BOOLEAN /\ session \in BOOLEAN /\ cancelled \in BOOLEAN
      /\ unstopped \in BOOLEAN /\ strayEnd \in BOOLEAN
  BY DEF Types, StateTypes, AttemptTypes
<1>4. calls' \in 0..MaxCalls
  <2>1. calls' = calls \/ (calls < MaxCalls /\ calls' = calls + 1)
    BY DEF Next, Host, UiGoesOn, ControlGoesOn, QueryGoesOn, Lifecycle, vars, Invalidate,
       Quiesce, Clear, Start, Launch, Fail, Arrive, Read, HandleResult, HandleEnd, Callback, Pass,
       Process, ProcessOne, Deliver, Discover, StopScan, Sleep, SleepStops, Connect, Cancel,
       Attempt, SessionOver, Receive, LoopOrLeave, StopAfterWait, Ask
  <2> QED BY <2>1, ScanAssumption DEF Types, AttemptTypes
<1>5. session' \in BOOLEAN /\ cancelled' \in BOOLEAN
  BY <1>3 DEF Next, Host, UiGoesOn, ControlGoesOn, QueryGoesOn, Lifecycle, vars, attemptVars,
     Invalidate,
       Quiesce, Clear, Start, Launch, Fail, Arrive, Read, HandleResult, HandleEnd, Callback, Pass,
       Process, ProcessOne, Deliver, Discover, StopScan, Sleep, SleepStops, Connect, Cancel,
       Attempt, SessionOver, Receive, LoopOrLeave, StopAfterWait, Ask
<1>6. unstopped' \in BOOLEAN /\ strayEnd' \in BOOLEAN
  <2>1. Current \in BOOLEAN
    BY <1>3 DEF Current
  <2>2. unstopped' \in {unstopped, TRUE, FALSE}
    BY DEF Next, Host, UiGoesOn, ControlGoesOn, QueryGoesOn, Lifecycle, vars, radioVars,
       Invalidate, StopRadio,
       Quiesce, Clear, Start, Launch, Fail, Arrive, Read, HandleResult, HandleEnd, Callback, Pass,
       Process, ProcessOne, Deliver, Discover, StopScan, Sleep, SleepStops, Connect, Cancel,
       Attempt, SessionOver, Receive, LoopOrLeave, StopAfterWait, Ask
  <2>3. strayEnd' \in {strayEnd, FALSE, strayEnd \/ (Current /\ hostFrom # generation)}
    BY DEF Next, Host, UiGoesOn, ControlGoesOn, QueryGoesOn, Lifecycle, vars, radioVars,
       Invalidate, StopRadio,
       Quiesce, Clear, Start, Launch, Fail, Arrive, Read, HandleResult, HandleEnd, Callback, Pass,
       Process, ProcessOne, Deliver, Discover, StopScan, Sleep, SleepStops, Connect, Cancel,
       Attempt, SessionOver, Receive, LoopOrLeave, StopAfterWait, Ask
  <2> QED BY <1>3, <2>1, <2>2, <2>3
<1>7. answers' \subseteq 1..generation' /\ taken' \in 0..generation' /\ mine' \in 0..generation'
  <2>1. CASE UNCHANGED <<answers, taken, mine>>
    BY <1>2, <2>1
  <2>2. ASSUME NEW t \in Threads, Start(t)
        PROVE  answers' \subseteq 1..generation' /\ taken' \in 0..generation' /\ mine' \in 0..generation'
    BY <1>1, <1>2, <2>2 DEF Start
  <2>3. CASE Callback
    <3>1. hostGen \in 1..generation'
      BY <1>1, <2>3 DEF Callback, Types, HostTypes
    <3> QED BY <1>2, <2>3, <3>1 DEF Callback
  <2>4. CASE Attempt
    BY <1>1, <1>2, <2>4 DEF Attempt
  <2>5. CASE Receive
    <3>1. ASSUME NEW a \in answers, taken' = a, answers' = answers \ {a}
          PROVE  answers' \subseteq 1..generation' /\ taken' \in 0..generation'
      BY <1>1, <1>2, <3>1
    <3>2. UNCHANGED mine
      BY <2>5 DEF Receive
    <3> QED BY <1>2, <2>1, <2>5, <3>1, <3>2 DEF Receive
  <2>6. \/ UNCHANGED <<answers, taken, mine>> \/ (\E t \in Threads : Start(t)) \/ Callback
        \/ Attempt \/ Receive
    BY DEF Next, Host, UiGoesOn, ControlGoesOn, QueryGoesOn, Lifecycle, Threads, vars, attemptVars,
       Invalidate, Quiesce, Clear, Launch, Fail, Arrive, Read, HandleResult, HandleEnd, Pass,
       Process, ProcessOne, Deliver, Discover, StopScan, Sleep, SleepStops, Connect, Cancel,
       SessionOver, LoopOrLeave, StopAfterWait, Ask
  <2> QED BY <2>1, <2>2, <2>3, <2>4, <2>5, <2>6
<1> QED BY <1>4, <1>5, <1>6, <1>7 DEF AttemptTypes

-----------------------------------------------------------------------------
LEMMA DeliveryStep ==
  ASSUME Types, Mutex, Delivery, [Next]_vars
  PROVE  Delivery'
<1>1. "ui" \in Threads /\ pc \in [Threads -> UiPCs \cup ControlPCs] /\ "deliver" \in Locked
  BY DEF Threads, Types, ThreadTypes, Locked
<1>2. pc["ui"] = "deliver" => ~Free
  BY <1>1 DEF Mutex, Free, Threads
<1>3. CASE pc["ui"] = "deliver" /\ pc'["ui"] = "deliver"
  <2>1. UNCHANGED <<batch, generation>>
    BY <1>1, <1>2, <1>3
       DEF Next, Host, UiGoesOn, ControlGoesOn, QueryGoesOn, Lifecycle, Goto, vars, scanVars,
           EndScan, Invalidate,
       Quiesce, Clear, Start, Launch, Fail, Arrive, Read, HandleResult, HandleEnd, Callback, Pass,
       Process, ProcessOne, Deliver, Discover, StopScan, Sleep, SleepStops, Connect, Cancel,
       Attempt, SessionOver, Receive, LoopOrLeave, StopAfterWait, Ask
  <2> QED BY <1>3, <2>1 DEF Delivery
<1>4. CASE pc["ui"] # "deliver" /\ pc'["ui"] = "deliver"
  <2>1. ProcessOne
    <3>1. ASSUME NEW t \in Threads, NEW l, l # "deliver", Goto(t, l) PROVE FALSE
      BY <1>1, <1>4, <3>1 DEF Goto
    <3>2. \A t \in Threads : pc[t] \in {"quiesce"} => then[t] # "deliver"
      BY DEF Types, ThreadTypes
    <3>3. \A t \in Threads : ~Lifecycle(t)
      BY <1>4, <3>1, <3>2
         DEF Lifecycle, Invalidate, Quiesce, Clear, Start, Launch, Fail, AfterStart
    <3> QED BY <1>1, <1>4, <3>1, <3>3
       DEF Next, Host, UiGoesOn, ControlGoesOn, QueryGoesOn, Threads, vars, Arrive, Read,
       HandleResult, HandleEnd, Callback, Pass,
       Process, Deliver, Discover, StopScan, Sleep, SleepStops, Connect, Cancel,
       Attempt, SessionOver, Receive, LoopOrLeave, StopAfterWait, Ask
  <2> QED BY <1>1, <1>4, <2>1 DEF ProcessOne, Goto, Delivery, scanVars
<1> QED BY <1>3, <1>4 DEF Delivery

-----------------------------------------------------------------------------
\* What the steps do to the mode and to where the control task is.
LEMMA RegisteredStep ==
  ASSUME Types, Mutex, Registered, Owned, [Next]_vars
  PROVE  Registered'
<1>1. /\ {"ui", "control", "query"} = Threads
      /\ pc \in [Threads -> UiPCs \cup ControlPCs]
      /\ then \in [Threads -> {"idle", "start", "leave"}]
  BY DEF Threads, Types, ThreadTypes
<1> USE DEF Registered, Before, StopPCs
<1>2. ASSUME mode' \in {mode, "IDLE"}, mode' = "CUSTOM" => generation' = generation /\ mine' = mine,
             hostAt' = "callback" => hostAt = "callback" \/ mode = "CUSTOM",
             UNCHANGED <<pc, then>>
      PROVE  Registered'
  BY <1>2
<1>3. CASE UNCHANGED <<mode, generation, mine, hostAt, pc, then>>
  BY <1>3
<1>4. CASE Host \/ Arrive \/ Pass
  <2>1. EndScan => mode' = "IDLE"
    BY DEF EndScan
  <2>2. /\ mode' \in {mode, "IDLE"} /\ generation' = generation /\ mine' = mine
        /\ UNCHANGED <<pc, then>>
    BY <1>4, <2>1 DEF Host, Arrive, Pass, Read, HandleResult, HandleEnd, Callback, scanVars,
       attemptVars, EndScan
  <2>3. hostAt' = "callback" => hostAt = "callback" \/ mode = "CUSTOM"
    BY <1>4 DEF Host, Arrive, Pass, Read, HandleResult, HandleEnd, Callback, HostDone, hostVars
  <2> QED BY <1>2, <2>2, <2>3
<1>5. ASSUME NEW t \in Threads, Invalidate(t) PROVE Registered'
  BY <1>1, <1>5 DEF Invalidate, Goto, hostVars
<1>6. ASSUME NEW t \in Threads, Quiesce(t) PROVE Registered'
  <2>1. mode = "IDLE" /\ hostAt # "callback"
    BY <1>6 DEF Quiesce, Owned, Starting, Types, StateTypes, HostTypes
  <2>2. mode' = "IDLE" /\ hostAt' # "callback"
    BY <1>6, <2>1 DEF Quiesce, hostVars, scanVars
  <2> QED BY <2>2
<1>7. ASSUME NEW t \in Threads, Clear(t) PROVE Registered'
  <2>1. /\ UNCHANGED <<mode, generation, mine, hostAt>>
        /\ pc' = [pc EXCEPT ![t] = "stop"] /\ then' = [then EXCEPT ![t] = "start"]
    BY <1>7 DEF Clear, hostVars, attemptVars, Goto, Return
  <2> QED BY <1>1, <1>7, <2>1 DEF Clear
<1>8. ASSUME NEW t \in Threads, Start(t) PROVE Registered'
  <2>1. UNCHANGED <<hostAt, then>> /\ pc' = [pc EXCEPT ![t] = "launch"] /\ pc[t] = "start"
    BY <1>8 DEF Start, hostVars, Goto
  <2>2. CASE t = "ui" /\ mode' = "DISCOVERY"
    BY <1>1, <2>1, <2>2
  <2>3. CASE t = "control" /\ mode' = "CUSTOM" /\ mine' = generation'
    BY <1>1, <2>1, <2>3
  <2> QED BY <1>8, <2>2, <2>3 DEF Start
<1>9. ASSUME NEW t \in Threads, Launch(t) \/ Fail(t) PROVE Registered'
  <2>1. /\ UNCHANGED <<generation, mine, hostAt, then>>
        /\ mode' \in {mode, "IDLE"} /\ pc[t] \in {"launch", "failed"}
        /\ (pc' = [pc EXCEPT ![t] = AfterStart(t)] \/ pc' = [pc EXCEPT ![t] = "failed"])
    BY <1>9 DEF Launch, Fail, EndScan, hostVars, attemptVars, scanVars, Goto
  <2>2. AfterStart(t) \in {"wait", "idle"} /\ AfterStart("control") = "wait"
    BY DEF AfterStart
  <2> QED BY <1>1, <2>1, <2>2
<1>10. ASSUME UNCHANGED <<mode, generation, mine, hostAt>>, NEW l, NEW r, l # "start",
              Goto("ui", l), then' = then \/ Return("ui", r)
       PROVE  Registered'
  BY <1>1, <1>10 DEF Goto, Return
<1>11. CASE Discover \/ StopScan \/ Sleep \/ SleepStops \/ Process \/ ProcessOne \/ Deliver
  BY <1>3, <1>10, <1>11
     DEF Discover, StopScan, Sleep, SleepStops, Process, ProcessOne, Deliver, scanVars, hostVars,
         attemptVars
<1>12. CASE Connect \/ Cancel \/ SessionOver
  BY <1>3, <1>12 DEF Connect, Cancel, SessionOver, scanVars, hostVars
<1>13. CASE Attempt \/ Receive \/ LoopOrLeave \/ StopAfterWait
  <2>1. UNCHANGED <<mode, generation, mine, hostAt>>
    BY <1>13 DEF Attempt, Receive, LoopOrLeave, StopAfterWait, scanVars, hostVars, attemptVars
  <2>2. CASE Attempt
    BY <1>1, <2>1, <2>2 DEF Attempt, Goto
  <2>3. CASE Receive
    BY <1>1, <2>1, <2>3 DEF Receive, Goto
  <2>4. CASE LoopOrLeave
    BY <1>1, <2>1, <2>4 DEF LoopOrLeave, Goto, Return
  <2>5. CASE StopAfterWait
    BY <1>1, <2>1, <2>5 DEF StopAfterWait, Goto, Return
  <2> QED BY <1>13, <2>2, <2>3, <2>4, <2>5
<1>14. CASE Ask
  BY <1>1, <1>14 DEF Ask, Goto, Return, scanVars, hostVars, attemptVars
<1>15. CASE UNCHANGED vars
  BY <1>3, <1>15 DEF vars
<1> QED BY <1>1, <1>4, <1>5, <1>6, <1>7, <1>8, <1>9, <1>11, <1>12, <1>13, <1>14, <1>15
     DEF Next, UiGoesOn, ControlGoesOn, QueryGoesOn, Lifecycle

-----------------------------------------------------------------------------
\* A step that leaves the scan, the radio and the host task alone.
LEMMA OwnedStays ==
  ASSUME Owned, UNCHANGED <<active, generation, radioVars, hostVars>>,
         \A t \in Threads :
           pc'[t] = pc[t] \/ (pc[t] \notin Settling /\ pc'[t] \notin Settling)
  PROVE  Owned'
<1>1. /\ UNCHANGED <<active, generation, radio, unstopped, strayEnd>>
      /\ UNCHANGED <<hostAt, hostEvent, hostFrom>>
  BY DEF radioVars, hostVars
<1>2. /\ \A t \in Threads, l \in Settling : pc'[t] = l => pc[t] = l
      /\ {"quiesce", "launch", "failed"} = Settling
  BY DEF Settling
<1>3. (Settled' <=> Settled) /\ (EndComing' <=> EndComing) /\ (EndIsOurs' <=> EndIsOurs)
  BY <1>1 DEF Settled, EndComing, EndIsOurs
<1>4. Behind' /\ Starting'
  BY <1>1, <1>2, <1>3 DEF Owned, Behind, Starting
<1>5. Served'
  BY <1>1, <1>3 DEF Owned, Served
<1> QED BY <1>4, <1>5 DEF Owned

LEMMA OwnedStep ==
  ASSUME Types, Mutex, Owned, [Next]_vars
  PROVE  Owned'
<1>1. /\ {"ui", "control", "query"} = Threads /\ generation \in Nat
      /\ hostFrom \in 0..generation /\ hostGen \in 0..generation /\ radio \in 0..generation
      /\ pc \in [Threads -> UiPCs \cup ControlPCs]
      /\ {"quiesce", "launch", "failed"} = Settling
  BY DEF Threads, Types, ThreadTypes, StateTypes, HostTypes, Settling
<1>2. \A t \in Threads : pc[t] \in Settling =>
        /\ dispatch = t /\ ~Free
        /\ \A u \in Threads \ {t} : pc[u] \notin Settling
  BY DEF Mutex, Locked, Free, Threads, Settling
<1>3. active => generation # 0
  BY DEF Types, StateTypes
<1>4. ASSUME NEW t \in Threads, NEW l, Goto(t, l)
      PROVE  pc'[t] = l /\ \A u \in Threads \ {t} : pc'[u] = pc[u]
  BY <1>1, <1>4 DEF Goto
<1>5. ASSUME NEW t \in Threads, Invalidate(t) PROVE Owned'
  <2>1. /\ ~active' /\ generation' = generation + 1
        /\ UNCHANGED <<radio, unstopped, strayEnd, hostAt, hostEvent, hostFrom>>
        /\ pc'[t] = "quiesce" /\ \A u \in Threads \ {t} : pc'[u] = pc[u]
    BY <1>4, <1>5 DEF Invalidate, radioVars, hostVars
  <2>2. \A u \in Threads : pc'[u] \notin {"launch", "failed"}
    BY <1>1, <1>2, <1>5, <2>1 DEF Invalidate
  <2>3. Behind'
    BY <1>1, <2>1, <2>2 DEF Behind, EndComing
  <2>4. Starting' /\ ~Settled'
    BY <1>1, <2>1, <2>2 DEF Starting, Settled
  <2> QED BY <2>3, <2>4 DEF Owned, Served
<1>6. ASSUME NEW t \in Threads, Quiesce(t) PROVE Owned'
  <2>1. /\ ~active /\ UNCHANGED <<active, generation, hostAt, hostEvent, hostFrom>>
        /\ \/ radio' = 0 /\ unstopped' = FALSE
           \/ unstopped' = TRUE /\ radio' = radio
    BY <1>6 DEF Quiesce, StopRadio, Owned, Starting, scanVars, hostVars
  <2>2. then[t] \in {"idle", "start", "leave"} /\ pc[t] = "quiesce" /\ Goto(t, then[t])
    BY <1>6 DEF Quiesce, Types, ThreadTypes
  <2>3. \A u \in Threads : pc'[u] \notin Settling
    BY <1>1, <1>2, <1>4, <2>2
  <2>4. Behind'
    BY <1>1, <2>1, <2>3 DEF Owned, Behind, EndComing
  <2> QED BY <1>1, <2>1, <2>3, <2>4 DEF Owned, Starting, Served
<1>7. ASSUME NEW t \in Threads, Start(t) PROVE Owned'
  <2>1. /\ active' = TRUE /\ generation' = generation + 1
        /\ UNCHANGED <<radio, unstopped, strayEnd, hostAt, hostEvent, hostFrom>>
        /\ pc'[t] = "launch" /\ \A u \in Threads \ {t} : pc'[u] = pc[u]
    BY <1>4, <1>7 DEF Start, radioVars, hostVars
  <2>2. \A u \in Threads : pc[u] \notin Settling
    BY <1>1, <1>2, <1>7 DEF Start
  <2>3. \A u \in Threads : pc'[u] \notin {"quiesce", "failed"}
    BY <1>1, <2>1, <2>2
  <2>4. Behind'
    BY <1>1, <2>1, <2>3 DEF Behind, EndComing
  <2>5. Starting' /\ ~Settled'
    BY <1>1, <2>1, <2>3 DEF Starting, Settled
  <2> QED BY <2>4, <2>5 DEF Owned, Served
<1>8. ASSUME NEW t \in Threads, Launch(t) PROVE Owned'
  <2>1. /\ pc[t] = "launch" /\ UNCHANGED <<active, generation, strayEnd, hostAt, hostEvent, hostFrom>>
    BY <1>8 DEF Launch, scanVars, hostVars
  <2>2. /\ radio # generation /\ generation # 0 /\ (EndComing => hostFrom # generation)
        /\ (~strayEnd => active)
    BY <2>1 DEF Owned, Behind, Starting
  <2>3. EndComing' <=> EndComing
    BY <2>1 DEF EndComing
  <2>4. CASE radio' = generation /\ unstopped' = FALSE /\ Goto(t, AfterStart(t))
    <3>1. \A u \in Threads : pc'[u] \notin Settling
      BY <1>1, <1>2, <1>4, <2>1, <2>4 DEF AfterStart
    <3> QED BY <1>1, <2>1, <2>2, <2>3, <2>4, <3>1 DEF Owned, Behind, Starting, Served
  <2>5. CASE /\ Goto(t, "failed")
             /\ \/ radio' = 0 /\ unstopped' = FALSE
                \/ unstopped' = TRUE /\ radio' = radio
    <3>1. /\ pc'[t] = "failed" /\ \A u \in Threads : pc'[u] \notin {"launch", "quiesce"}
          /\ \A u \in Threads \ {t} : pc'[u] # "failed"
      BY <1>1, <1>2, <1>4, <2>1, <2>5
    <3>2. ~Settled'
      BY <1>1, <3>1 DEF Settled
    <3> QED BY <1>1, <2>1, <2>2, <2>3, <2>5, <3>1, <3>2 DEF Owned, Behind, Starting, Served
  <2> QED BY <1>8, <2>4, <2>5 DEF Launch
<1>9. ASSUME NEW t \in Threads, Fail(t) PROVE Owned'
  <2>1. /\ pc[t] = "failed" /\ ~active'
        /\ UNCHANGED <<generation, radio, unstopped, strayEnd, hostAt, hostEvent, hostFrom>>
        /\ Goto(t, AfterStart(t))
    BY <1>9 DEF Fail, EndScan, radioVars, hostVars
  <2>2. \A u \in Threads : pc'[u] \notin Settling
    BY <1>1, <1>2, <1>4, <2>1 DEF AfterStart
  <2>3. ~unstopped => radio = 0
    BY <2>1 DEF Owned, Starting
  <2> QED BY <1>1, <2>1, <2>2, <2>3 DEF Owned, Behind, Starting, Served, EndComing
<1>10. CASE UNCHANGED pc /\ Arrive
  <2>1. /\ UNCHANGED <<active, generation, unstopped, strayEnd>>
        /\ hostAt = "idle" /\ hostAt' = "event"
        /\ \/ radio' = radio /\ hostEvent' = "RESULT"
           \/ radio' = 0 /\ hostFrom' = radio /\ hostEvent' \in {"LAST", "END"}
    BY <1>10 DEF Arrive, scanVars
  <2>2. Behind'
    BY <1>10, <2>1 DEF Owned, Behind, EndComing
  <2>3. Starting'
    BY <1>10, <2>1 DEF Owned, Starting
  <2>4. Served'
    <3>1. (Settled' <=> Settled) /\ ~EndIsOurs
      BY <1>10, <2>1 DEF Settled, EndIsOurs
    <3> QED BY <2>1, <3>1 DEF Owned, Served, EndIsOurs
  <2> QED BY <2>2, <2>3, <2>4 DEF Owned
<1>11. ASSUME UNCHANGED <<pc, active, generation, radio, unstopped, strayEnd, hostFrom>>,
              EndComing' => EndComing, EndIsOurs => EndIsOurs'
       PROVE  Owned'
  BY <1>11 DEF Owned, Behind, Starting, Served, Settled
<1>12. CASE Read
  <2>1. /\ UNCHANGED <<pc, active, generation, radio, unstopped, strayEnd, hostFrom, hostEvent>>
        /\ hostAt = "event" /\ hostAt' = "read"
    BY <1>12 DEF Read, scanVars, radioVars
  <2> QED BY <1>11, <2>1 DEF EndComing, EndIsOurs
<1>13. CASE HandleResult
  <2>1. /\ UNCHANGED <<pc, active, generation, radio, unstopped, strayEnd>>
        /\ hostAt = "read" /\ hostEvent # "END" /\ (CallCustom \/ HostDone)
    BY <1>13 DEF HandleResult, radioVars
  <2>2. CASE hostEvent = "LAST"
    <3>1. /\ hostFrom' = hostFrom /\ hostAt' \in {"event", "callback"}
          /\ hostEvent' = "LAST" \/ (hostEvent' = "END" /\ hostAt' = "event")
      BY <2>1, <2>2 DEF CallCustom, HostDone
    <3> QED BY <1>11, <2>1, <2>2, <3>1 DEF EndComing, EndIsOurs
  <2>3. CASE hostEvent # "LAST"
    <3>1. ~EndComing' /\ ~EndIsOurs
      BY <1>1, <2>1, <2>3 DEF CallCustom, HostDone, EndComing, EndIsOurs, Types, HostTypes
    <3> QED BY <2>1, <3>1 DEF Owned, Behind, Starting, Served, Settled
  <2> QED BY <2>2, <2>3
<1>14. CASE Callback
  <2>1. /\ UNCHANGED <<pc, active, generation, radio, unstopped, strayEnd>>
        /\ hostAt = "callback" /\ HostDone
    BY <1>14 DEF Callback, scanVars, radioVars
  <2>2. CASE hostEvent = "LAST"
    <3>1. hostFrom' = hostFrom /\ hostAt' = "event" /\ hostEvent' \in {"LAST", "END"}
      BY <2>1, <2>2 DEF HostDone
    <3> QED BY <1>11, <2>1, <2>2, <3>1 DEF EndComing, EndIsOurs
  <2>3. CASE hostEvent # "LAST"
    <3>1. ~EndComing' /\ ~EndIsOurs
      BY <2>1, <2>3 DEF HostDone, EndComing, EndIsOurs
    <3> QED BY <2>1, <3>1 DEF Owned, Behind, Starting, Served, Settled
  <2> QED BY <2>2, <2>3
<1>15. CASE HandleEnd
  <2>1. /\ UNCHANGED <<pc, generation, radio, unstopped>>
        /\ hostAt = "read" /\ hostEvent = "END" /\ EndComing
        /\ Current => ~active'
        /\ ~Current => active' = active
        /\ ~strayEnd' => ~strayEnd /\ (Current => hostFrom = generation)
    BY <1>15 DEF HandleEnd, EndScan, scanVars, EndComing
  <2>2. /\ EndComing' => hostFrom' = hostFrom
        /\ ~EndIsOurs'
    BY <1>15 DEF HandleEnd, CallCustom, HostDone, EndComing, EndIsOurs
  <2>3. Behind'
    BY <2>1, <2>2 DEF Owned, Behind
  <2>4. Starting'
    <3>1. \A u \in Threads : pc[u] \in {"launch", "failed"} => hostFrom # generation
      BY <2>1 DEF Owned, Behind
    <3>2. (active' => active) /\ (~strayEnd' /\ hostFrom # generation => active' = active)
      <4>1. CASE Current
        BY <2>1, <4>1
      <4>2. CASE ~Current
        BY <2>1, <4>2
      <4> QED BY <4>1, <4>2
    <3> QED BY <2>1, <3>1, <3>2 DEF Owned, Starting
  <2>5. Served'
    <3>1. SUFFICES ASSUME Settled', ~unstopped', ~strayEnd'
                   PROVE  /\ radio # 0 => active' /\ radio = generation
                          /\ active' => radio # 0
      BY <2>1 DEF Served
    <3>2. Settled /\ ~unstopped /\ ~strayEnd
      BY <2>1, <3>1 DEF Settled
    <3>3. CASE Current
      BY <2>1, <3>1, <3>2, <3>3 DEF Owned, Behind, Served, Current
    <3>4. CASE ~Current
      <4>1. EndIsOurs => ~active
        BY <1>1, <2>1, <3>4 DEF EndIsOurs, Current, Types, HostTypes
      <4> QED BY <2>1, <3>2, <3>4, <4>1 DEF Owned, Served
    <3> QED BY <3>3, <3>4
  <2> QED BY <2>3, <2>4, <2>5 DEF Owned
<1>16. ASSUME NEW t \in Threads, NEW l, Goto(t, l), l \notin Settling, pc[t] \notin Settling,
              UNCHANGED <<active, generation, radioVars, hostVars>>
       PROVE  Owned'
  BY <1>4, <1>16, OwnedStays
<1>17. CASE UNCHANGED <<active, generation, radioVars, hostVars, pc>>
  BY <1>17, OwnedStays
<1>18. ASSUME NEW t \in Threads, Clear(t) PROVE Owned'
  BY <1>1, <1>16, <1>18 DEF Clear
<1>19. CASE \/ Discover \/ StopScan \/ Sleep \/ SleepStops \/ Process \/ ProcessOne \/ Deliver
            \/ Ask \/ Attempt \/ Receive \/ LoopOrLeave \/ StopAfterWait
  <2>1. UNCHANGED <<active, generation, radioVars, hostVars>>
    BY <1>19 DEF Discover, StopScan, Sleep, SleepStops, Process, ProcessOne, Deliver, Ask,
       Attempt, Receive, LoopOrLeave, StopAfterWait, scanVars
  <2> QED BY <1>1, <1>16, <1>17, <1>19, <2>1
        DEF Discover, StopScan, Sleep, SleepStops, Process, ProcessOne, Deliver, Ask,
            Attempt, Receive, LoopOrLeave, StopAfterWait, Settling
<1>20. CASE Pass \/ Connect \/ Cancel \/ SessionOver \/ UNCHANGED vars
  BY <1>17, <1>20 DEF Pass, Connect, Cancel, SessionOver, vars, scanVars, hostVars, radioVars
<1>21. Arrive => UNCHANGED pc
  BY DEF Arrive
<1> QED BY <1>1, <1>5, <1>6, <1>7, <1>8, <1>9, <1>10, <1>12, <1>13, <1>14, <1>15, <1>18, <1>19,
           <1>20, <1>21
     DEF Next, Host, UiGoesOn, ControlGoesOn, QueryGoesOn, Lifecycle

-----------------------------------------------------------------------------
\* Only a new attempt brings the control task back before the start of its scan.
LEMMA BeforeStep ==
  ASSUME Types, [Next]_vars
  PROVE  Before' => Before \/ Attempt
<1>1. /\ {"ui", "control", "query"} = Threads
      /\ pc \in [Threads -> UiPCs \cup ControlPCs]
      /\ then \in [Threads -> {"idle", "start", "leave"}]
  BY DEF Threads, Types, ThreadTypes
<1> USE DEF Before, StopPCs, Goto, Return
<1>2. ASSUME NEW t \in {"ui", "query"}, NEW l, NEW r,
             pc' = pc \/ Goto(t, l), then' = then \/ Return(t, r)
      PROVE  Before' => Before
  BY <1>1, <1>2
<1>3. ASSUME NEW t \in {"ui", "query"}, Lifecycle(t) PROVE Before' => Before
  BY <1>1, <1>2, <1>3 DEF Lifecycle, Invalidate, Quiesce, Clear, Start, Launch, Fail
<1>4. CASE Lifecycle("control")
  BY <1>1, <1>4 DEF Lifecycle, Invalidate, Quiesce, Clear, Start, Launch, Fail, AfterStart
<1>5. CASE Receive \/ LoopOrLeave \/ StopAfterWait
  BY <1>1, <1>5 DEF Receive, LoopOrLeave, StopAfterWait
<1>6. CASE UNCHANGED <<pc, then>>
  BY <1>6
<1> QED BY <1>2, <1>3, <1>4, <1>5, <1>6
     DEF Next, Host, UiGoesOn, ControlGoesOn, QueryGoesOn, vars, Arrive, Read, HandleResult,
         HandleEnd, Callback, Pass, Process, ProcessOne, Deliver, Discover, StopScan, Sleep,
         SleepStops, Connect, Cancel, SessionOver, Ask

LEMMA FreshStep ==
  ASSUME Types, Registered, Owned, Fresh, [Next]_vars
  PROVE  Fresh'
<1>1. CASE Attempt
  <2>1. answers' = {} /\ taken' = 0 /\ hostAt' # "callback"
    BY <1>1 DEF Attempt, hostVars, Registered
  <2> QED BY <2>1 DEF Fresh
<1>2. Before' => Before \/ Attempt
  BY BeforeStep
<1>3. CASE /\ UNCHANGED <<answers, taken, mine>>
           /\ (hostAt' = "callback" => hostAt = "callback" /\ hostGen' = hostGen)
  BY <1>1, <1>2, <1>3 DEF Fresh
<1>4. CASE HandleResult \/ HandleEnd
  <2>1. UNCHANGED <<answers, taken, mine>> /\ hostAt = "read"
    BY <1>4 DEF HandleResult, HandleEnd, attemptVars
  <2>2. hostAt' = "callback" => Current /\ mode = "CUSTOM" /\ hostGen' = hostGen
    BY <1>4 DEF HandleResult, HandleEnd, CallCustom, HostDone
  <2>3. Current /\ mode = "CUSTOM" => hostGen = mine
    BY DEF Current, Registered
  <2> QED BY <1>1, <1>2, <2>1, <2>2, <2>3 DEF Fresh
<1>5. CASE Callback
  <2>1. /\ hostAt = "callback" /\ hostAt' # "callback" /\ UNCHANGED <<taken, mine, pc, then>>
        /\ answers' \subseteq answers \cup {hostGen}
    BY <1>5 DEF Callback, HostDone
  <2>2. ~Before /\ ~Before'
    BY <2>1 DEF Registered, Before
  <2> QED BY <2>1, <2>2 DEF Fresh
<1>6. ASSUME NEW t \in Threads, Start(t) PROVE Fresh'
  <2>1. CASE t = "ui" /\ UNCHANGED mine
    BY <1>3, <1>6, <2>1 DEF Start, hostVars
  <2>2. CASE t = "control"
    <3>1. Before
      BY <1>6, <2>2 DEF Start, Before
    <3> QED BY <1>6, <3>1 DEF Start, Fresh, Registered, hostVars
  <2> QED BY <1>6, <2>1, <2>2 DEF Start
<1>7. CASE Receive
  <2>1. /\ UNCHANGED <<mine, hostVars>> /\ pc["control"] = "wait"
        /\ answers' \subseteq answers /\ (taken' = taken \/ taken' \in answers)
    BY <1>7 DEF Receive
  <2>2. ~Before /\ ~Attempt
    BY <2>1 DEF Before, StopPCs, Attempt
  <2> QED BY <1>2, <2>1, <2>2 DEF Fresh, hostVars
<1>8. \A t \in Threads : Lifecycle(t) /\ ~Start(t) =>
        UNCHANGED <<answers, taken, mine, hostVars>>
  BY DEF Lifecycle, Invalidate, Quiesce, Clear, Launch, Fail, attemptVars
<1>9. {"ui", "control", "query"} = Threads
  BY DEF Threads
<1>10. ASSUME NEW t \in Threads, Lifecycle(t) PROVE Fresh'
  BY <1>3, <1>6, <1>8, <1>10 DEF hostVars
<1>11. CASE \/ Arrive \/ Read \/ Pass \/ Process \/ ProcessOne \/ Deliver
            \/ Discover \/ StopScan \/ Sleep
            \/ SleepStops \/ Connect \/ Cancel \/ SessionOver \/ LoopOrLeave \/ StopAfterWait \/ Ask
            \/ UNCHANGED vars
  BY <1>3, <1>11
     DEF vars, Arrive, Read, Pass, Process, ProcessOne, Deliver, Discover, StopScan, Sleep,
         SleepStops, Connect, Cancel, SessionOver, LoopOrLeave, StopAfterWait, Ask, attemptVars,
         hostVars
<1> QED BY <1>1, <1>4, <1>5, <1>7, <1>9, <1>10, <1>11
     DEF Next, Host, UiGoesOn, ControlGoesOn, QueryGoesOn

LEMMA Invariance == Spec => []IInv
<1>1. IInv /\ [Next]_vars => IInv'
  <2> SUFFICES ASSUME IInv, [Next]_vars PROVE IInv'
    OBVIOUS
  <2>1. Types /\ Mutex /\ Delivery /\ Registered /\ Owned /\ Fresh
    BY DEF IInv
  <2>2. ThreadTypes' /\ Mutex' /\ StateTypes' /\ HostTypes' /\ AttemptTypes'
    BY <2>1, ThreadStep, StateStep, HostStep, AttemptStep DEF Types
  <2>3. Delivery' /\ Registered' /\ Owned' /\ Fresh'
    BY <2>1, DeliveryStep, RegisteredStep, OwnedStep, FreshStep
  <2> QED BY <2>2, <2>3 DEF IInv, Types
<1> QED BY InitHolds, <1>1, PTL DEF Spec

\* Every field keeps its type, and the queue of events its bound.
THEOREM TypesHold == Spec => []TypeOK
<1>1. IInv => TypeOK
  BY DEF IInv, Types, ThreadTypes, StateTypes, HostTypes, AttemptTypes, TypeOK, Events
<1> QED BY <1>1, Invariance, PTL

\* A callback of a camera runs only inside the attempt that registered it.
THEOREM CallbacksHaveOwners == Spec => []CallbackHasOwner
<1>1. IInv => CallbackHasOwner
  BY DEF IInv, Registered, CallbackHasOwner
<1> QED BY <1>1, Invariance, PTL

\* A result that ends the wait of an attempt was accepted for its own scan.
THEOREM AnswersAreOurs == Spec => []AnswerIsOurs
<1>1. IInv => AnswerIsOurs
  BY DEF IInv, Fresh, AnswerIsOurs
<1> QED BY <1>1, Invariance, PTL

\* The UI gets no event of a scan that is not current.
THEOREM DeliveriesAreCurrent == Spec => []DeliveryIsCurrent
<1>1. IInv => DeliveryIsCurrent
  BY DEF IInv, Delivery, DeliveryIsCurrent
<1> QED BY <1>1, Invariance, PTL

\* Between two lifecycle calls the radio serves the scan that is current, and a
\* scan that is on has the radio or its end on the way, but for the exceptions.
THEOREM RadioHasOwner == Spec => []RadioIsOwned
<1>1. IInv => RadioIsOwned
  <2> SUFFICES ASSUME IInv, Free, ~unstopped, ~strayEnd PROVE RadioIsOwned
    BY DEF RadioIsOwned
  <2>1. Settled
    BY DEF IInv, Mutex, Locked, Free, Settled, Settling, Threads
  <2>2. EndIsOurs => EndComing
    BY DEF EndIsOurs, EndComing
  <2> QED BY <2>1, <2>2 DEF IInv, Owned, Served, RadioIsOwned
<1> QED BY <1>1, Invariance, PTL

\* stop() waits for a callback that runs, and for nothing else.
THEOREM WaitsForCallback == Spec => []WaitIsForCallback
<1>1. IInv => WaitIsForCallback
  BY DEF IInv, Types, HostTypes, WaitIsForCallback
<1> QED BY <1>1, Invariance, PTL
===============================================================================
