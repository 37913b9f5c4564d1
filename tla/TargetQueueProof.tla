--------------------------- MODULE TargetQueueProof ---------------------------
(***************************************************************************)
(* What holds of a target's queue for every length of it and every number  *)
(* of commands: the count in flight, what idle() means, and, when fewer    *)
(* GPS updates than the queue has slots get past one CMD_DISCONNECT being  *)
(* sent, that the command is not dropped.                                  *)
(***************************************************************************)
EXTENDS TargetQueue, SequenceTheorems, TLAPS

\* From the moment the count was read as zero, no camera command gets in.
NoCommand ==
  section \in {"waiting", "idle"} =>
    task # "CAMERA" /\ \A i \in 1..Len(queue) : queue[i] # "CAMERA"

\* While CMD_DISCONNECT is sent, what is queued or about to be has passed it.
Passed ==
  /\ section \in TellSections /\ gps = "push" => passed >= 1
  /\ section \in {"reserve", "front"} => Len(queue) + One(gps = "push") <= passed
  /\ section = "refused" => Crowded

IInv == TypeOK /\ Counted /\ NoCommand /\ Passed /\ DisconnectIsNext

LEMMA InitHolds == Init => IInv
<1> SUFFICES ASSUME Init PROVE IInv
  OBVIOUS
<1>1. queue \in Seq(Commands) /\ Len(queue) = 0
  BY DEF Init
<1>2. TypeOK
  BY <1>1, QueueAssumption DEF Init, TypeOK, Sections
<1>3. Counted /\ NoCommand
  BY <1>1 DEF Init, Counted, NoCommand, One, Commands
<1>4. Passed /\ DisconnectIsNext
  BY DEF Init, Passed, DisconnectIsNext, TellSections
<1> QED BY <1>2, <1>3, <1>4 DEF IInv

(***************************************************************************)
(* What the queue operations do to it.                                     *)
(***************************************************************************)
LEMMA QueueOperations ==
  ASSUME TypeOK
  PROVE  /\ Len(queue) \in Nat /\ QueueLength \in Nat
         /\ queue = <<>> <=> Len(queue) = 0
         /\ {"CAMERA", "GPS", "DISCONNECT"} \subseteq Commands
         /\ \A c \in Commands :
              /\ Append(queue, c) \in Seq(Commands) /\ Append(queue, c) # <<>>
              /\ Len(Append(queue, c)) = Len(queue) + 1
              /\ \A i \in 1..Len(queue) : Append(queue, c)[i] = queue[i]
              /\ Append(queue, c)[Len(queue) + 1] = c
         /\ queue # <<>> =>
              /\ Head(queue) \in Commands /\ Head(queue) = queue[1]
              /\ Tail(queue) \in Seq(Commands) /\ Len(Tail(queue)) = Len(queue) - 1
              /\ \A i \in 1..Len(Tail(queue)) : Tail(queue)[i] = queue[i + 1]
         /\ <<"DISCONNECT">> \o queue \in Seq(Commands)
         /\ Len(<<"DISCONNECT">> \o queue) = Len(queue) + 1
         /\ (<<"DISCONNECT">> \o queue)[1] = "DISCONNECT"
<1>1. queue \in Seq(Commands) /\ Len(queue) \in Nat /\ QueueLength \in Nat
  BY QueueAssumption DEF TypeOK
<1>2. queue = <<>> <=> Len(queue) = 0
  BY <1>1, EmptySeq
<1>3. {"CAMERA", "GPS", "DISCONNECT"} \subseteq Commands
  BY DEF Commands
<1>4. \A c \in Commands :
        /\ Append(queue, c) \in Seq(Commands) /\ Append(queue, c) # <<>>
        /\ Len(Append(queue, c)) = Len(queue) + 1
        /\ \A i \in 1..Len(queue) : Append(queue, c)[i] = queue[i]
        /\ Append(queue, c)[Len(queue) + 1] = c
  BY <1>1, AppendProperties
<1>5. queue # <<>> =>
        /\ Head(queue) \in Commands /\ Head(queue) = queue[1]
        /\ Tail(queue) \in Seq(Commands) /\ Len(Tail(queue)) = Len(queue) - 1
        /\ \A i \in 1..Len(Tail(queue)) : Tail(queue)[i] = queue[i + 1]
  BY <1>1, HeadTailProperties
<1>6. <<"DISCONNECT">> \in Seq(Commands) /\ Len(<<"DISCONNECT">>) = 1
  BY <1>3
<1>7. /\ <<"DISCONNECT">> \o queue \in Seq(Commands)
      /\ Len(<<"DISCONNECT">> \o queue) = Len(queue) + 1
      /\ (<<"DISCONNECT">> \o queue)[1] = "DISCONNECT"
  BY <1>1, <1>6, ConcatProperties
<1> QED BY <1>1, <1>2, <1>3, <1>4, <1>5, <1>7

\* What an action may do to the queue.
Appends(c) == queue' = Append(queue, c) /\ Len(queue') = Len(queue) + 1
Prepends   == queue' = <<"DISCONNECT">> \o queue /\ Len(queue') = Len(queue) + 1
DropsHead  == queue # <<>> /\ queue' = Tail(queue) /\ Len(queue') = Len(queue) - 1

LEMMA QueueSteps ==
  ASSUME TypeOK, [Next]_vars
  PROVE  \/ UNCHANGED queue
         \/ PushCommand /\ HasRoom /\ Appends("CAMERA")
         \/ PushUpdate /\ HasRoom /\ Appends("GPS")
         \/ PushFront /\ HasRoom /\ Prepends
         \/ Drain /\ DropsHead
         \/ Receive /\ DropsHead
<1>1. CASE PushCommand
  BY <1>1, QueueOperations DEF PushCommand, Appends
<1>2. CASE PushUpdate
  BY <1>2, QueueOperations DEF PushUpdate, Appends
<1>3. CASE PushFront
  BY <1>3, QueueOperations DEF PushFront, Prepends
<1>4. CASE Drain
  BY <1>4, QueueOperations DEF Drain, DropsHead
<1>5. CASE Receive
  BY <1>5, QueueOperations DEF Receive, DropsHead
<1>6. CASE \/ UndoCommand \/ UndoUpdate \/ RetireDropped \/ ReserveFront \/ UndoFront
           \/ ReadCount \/ ReadQueue \/ WaitReturns \/ Wait \/ UNCHANGED vars
           \/ SendCommand \/ SendUpdate \/ Tell \/ Finish \/ Stop
  BY <1>6 DEF UndoCommand, UndoUpdate, RetireDropped, ReserveFront, UndoFront, ReadCount,
     ReadQueue, WaitReturns, Wait, vars, SendCommand, SendUpdate, Tell, Finish, Stop
<1> QED BY <1>1, <1>2, <1>3, <1>4, <1>5, <1>6 DEF Next, Task, Section

LEMMA TypeStep ==
  ASSUME TypeOK, [Next]_vars
  PROVE  TypeOK'
<1> DEFINE QueueOK == queue \in Seq(Commands) /\ Len(queue) <= QueueLength
<1>0. Len(queue) \in Nat /\ QueueLength \in Nat
  BY QueueOperations
<1>1. QueueOK'
  <2>1. QueueOK /\ {"CAMERA", "GPS", "DISCONNECT"} \subseteq Commands
    BY DEF TypeOK, Commands
  <2>2. CASE UNCHANGED queue
    BY <2>1, <2>2
  <2>3. ASSUME HasRoom, NEW c \in Commands, Appends(c) PROVE QueueOK'
    BY <1>0, <2>3, QueueOperations DEF HasRoom, Appends
  <2>4. ASSUME HasRoom, Prepends PROVE QueueOK'
    BY <1>0, <2>4, QueueOperations DEF HasRoom, Prepends
  <2>5. ASSUME DropsHead PROVE QueueOK'
    BY <1>0, <2>1, <2>5, QueueOperations DEF DropsHead
  <2> QED BY <2>1, <2>2, <2>3, <2>4, <2>5, QueueSteps
<1> DEFINE OthersOK ==
      /\ inFlight \in Int /\ task \in {"wait"} \cup Commands \cup Ended
      /\ section \in Sections /\ gps \in {"none", "push", "undo"}
      /\ passed \in 0..Backlog
      /\ commands \in 0..MaxCommands /\ updates \in 0..MaxUpdates /\ tells \in 0..MaxTells
<1>2. OthersOK'
  <2>1. OthersOK
    BY DEF TypeOK
  <2> USE <2>1 DEF Sections, TellSections
  <2>2. CASE Section
    BY <2>2 DEF Section, PushCommand, UndoCommand, Drain, RetireDropped, ReserveFront,
       PushFront, UndoFront, ReadCount, ReadQueue, WaitReturns
  <2>3. CASE Receive
    <3>1. Head(queue) \in Commands
      BY <2>3, QueueOperations DEF Receive
    <3> QED BY <2>3, <3>1 DEF Receive
  <2>4. CASE Finish \/ Stop
    BY <2>4 DEF Finish, Stop, Ended
  <2>5. CASE SendCommand \/ SendUpdate \/ Tell
    BY <2>5, QueueAssumption DEF SendCommand, SendUpdate, Tell
  <2>6. CASE Wait \/ PushUpdate \/ UndoUpdate \/ UNCHANGED vars
    BY <2>6 DEF Wait, PushUpdate, UndoUpdate, vars
  <2> QED BY <2>2, <2>3, <2>4, <2>5, <2>6 DEF Next, Task
<1> QED BY <1>1, <1>2 DEF TypeOK

-----------------------------------------------------------------------------
(***************************************************************************)
(* The count, and what it means that it reads zero.                        *)
(***************************************************************************)
LEMMA CountStep ==
  ASSUME TypeOK, Counted, [Next]_vars
  PROVE  Counted'
<1> DEFINE Held    == IF task \in Commands THEN 1 ELSE 0
           Pending == IF section \in {"push", "undo", "dropped", "front", "refused"} THEN 1 ELSE 0
           Passing == IF gps # "none" THEN 1 ELSE 0
<1>1. /\ Len(queue) \in Nat /\ Held \in Int /\ Pending \in Int /\ Passing \in Int
      /\ inFlight \in Int /\ inFlight = Len(queue) + Held + Pending + Passing
  BY QueueOperations DEF TypeOK, Counted, One
<1> SUFFICES inFlight' = Len(queue') + Held' + Pending' + Passing'
  BY DEF Counted, One
<1>3. CASE PushCommand
  <2>1. CASE HasRoom
    <3>1. Len(queue') = Len(queue) + 1
      BY <1>3, <2>1, QueueOperations DEF PushCommand
    <3>2. Pending = 1 /\ Pending' = 0
      BY <1>3, <2>1 DEF PushCommand
    <3>3. Held' = Held /\ Passing' = Passing /\ inFlight' = inFlight
      BY <1>3 DEF PushCommand
    <3> HIDE DEF Held, Pending, Passing
    <3> QED BY <1>1, <3>1, <3>2, <3>3
  <2>2. CASE ~HasRoom
    BY <1>1, <1>3, <2>2 DEF PushCommand
  <2> QED BY <2>1, <2>2
<1>4. CASE PushUpdate
  <2>1. CASE HasRoom
    <3>1. Len(queue') = Len(queue) + 1
      BY <1>4, <2>1, QueueOperations DEF PushUpdate
    <3>2. Passing = 1 /\ Passing' = 0
      BY <1>4, <2>1 DEF PushUpdate
    <3>3. Held' = Held /\ Pending' = Pending /\ inFlight' = inFlight
      BY <1>4 DEF PushUpdate
    <3> HIDE DEF Held, Pending, Passing
    <3> QED BY <1>1, <3>1, <3>2, <3>3
  <2>2. CASE ~HasRoom
    BY <1>1, <1>4, <2>2 DEF PushUpdate
  <2> QED BY <2>1, <2>2
<1>5. CASE PushFront
  <2>1. CASE HasRoom
    <3>1. Len(queue') = Len(queue) + 1
      BY <1>5, <2>1, QueueOperations DEF PushFront
    <3>2. Pending = 1 /\ Pending' = 0
      BY <1>5, <2>1 DEF PushFront
    <3>3. Held' = Held /\ Passing' = Passing /\ inFlight' = inFlight
      BY <1>5 DEF PushFront
    <3> HIDE DEF Held, Pending, Passing
    <3> QED BY <1>1, <3>1, <3>2, <3>3
  <2>2. CASE ~HasRoom
    BY <1>1, <1>5, <2>2 DEF PushFront
  <2> QED BY <2>1, <2>2
<1>6. CASE Drain
  <2>1. CASE queue = <<>>
    BY <1>1, <1>6, <2>1 DEF Drain
  <2>2. CASE queue # <<>>
    <3>1. Len(queue') = Len(queue) - 1
      BY <1>6, <2>2, QueueOperations DEF Drain
    <3>2. Pending = 0 /\ Pending' = 1
      BY <1>6, <2>2 DEF Drain
    <3>3. Held' = Held /\ Passing' = Passing /\ inFlight' = inFlight
      BY <1>6 DEF Drain
    <3> HIDE DEF Held, Pending, Passing
    <3> QED BY <1>1, <3>1, <3>2, <3>3
  <2> QED BY <2>1, <2>2
<1>7. CASE Receive
  <2>1. Len(queue') = Len(queue) - 1 /\ task' \in Commands
    BY <1>7, QueueOperations DEF Receive
  <2>2. "wait" \notin Commands
    BY DEF Commands
  <2>3. Held = 0 /\ Held' = 1
    BY <1>7, <2>1, <2>2 DEF Receive
  <2>4. Pending' = Pending /\ Passing' = Passing /\ inFlight' = inFlight
    BY <1>7 DEF Receive
  <2> HIDE DEF Held, Pending, Passing
  <2> QED BY <1>1, <2>1, <2>3, <2>4
<1>8. CASE Finish
  <2>1. task' \notin Commands
    BY <1>8 DEF Finish, Commands
  <2>2. Held = 1 /\ Held' = 0
    BY <1>8, <2>1 DEF Finish
  <2>3. /\ Len(queue') = Len(queue) /\ inFlight' = inFlight - 1
        /\ Pending' = Pending /\ Passing' = Passing
    BY <1>8 DEF Finish
  <2> HIDE DEF Held, Pending, Passing
  <2> QED BY <1>1, <2>2, <2>3
<1>9. CASE Stop
  <2>1. Held = 0 /\ Held' = 0
    BY <1>9 DEF Stop, Commands
  <2>2. /\ Len(queue') = Len(queue) /\ inFlight' = inFlight
        /\ Pending' = Pending /\ Passing' = Passing
    BY <1>9 DEF Stop
  <2> HIDE DEF Held, Pending, Passing
  <2> QED BY <1>1, <2>1, <2>2
<1>10. CASE \/ UndoCommand \/ RetireDropped \/ UndoFront
  <2>1. Pending = 1 /\ Pending' = 0
    BY <1>10 DEF UndoCommand, RetireDropped, UndoFront
  <2>2. /\ Len(queue') = Len(queue) /\ inFlight' = inFlight - 1
        /\ Held' = Held /\ Passing' = Passing
    BY <1>10 DEF UndoCommand, RetireDropped, UndoFront
  <2> HIDE DEF Held, Pending, Passing
  <2> QED BY <1>1, <2>1, <2>2
<1>11. CASE SendCommand \/ ReserveFront
  <2>1. Pending = 0 /\ Pending' = 1
    BY <1>11 DEF SendCommand, ReserveFront
  <2>2. /\ Len(queue') = Len(queue) /\ inFlight' = inFlight + 1
        /\ Held' = Held /\ Passing' = Passing
    BY <1>11 DEF SendCommand, ReserveFront
  <2> HIDE DEF Held, Pending, Passing
  <2> QED BY <1>1, <2>1, <2>2
<1>12. CASE SendUpdate
  <2>1. Passing = 0 /\ Passing' = 1
    BY <1>12 DEF SendUpdate
  <2>2. /\ Len(queue') = Len(queue) /\ inFlight' = inFlight + 1
        /\ Held' = Held /\ Pending' = Pending
    BY <1>12 DEF SendUpdate
  <2> HIDE DEF Held, Pending, Passing
  <2> QED BY <1>1, <2>1, <2>2
<1>13. CASE UndoUpdate
  <2>1. Passing = 1 /\ Passing' = 0
    BY <1>13 DEF UndoUpdate
  <2>2. /\ Len(queue') = Len(queue) /\ inFlight' = inFlight - 1
        /\ Held' = Held /\ Pending' = Pending
    BY <1>13 DEF UndoUpdate
  <2> HIDE DEF Held, Pending, Passing
  <2> QED BY <1>1, <2>1, <2>2
<1>14. CASE ReadCount \/ ReadQueue \/ WaitReturns \/ Wait \/ Tell \/ UNCHANGED vars
  BY <1>1, <1>14 DEF ReadCount, ReadQueue, WaitReturns, Wait, Tell, vars
<1> QED
  BY <1>3, <1>4, <1>5, <1>6, <1>7, <1>8, <1>9, <1>10, <1>11, <1>12, <1>13, <1>14
  DEF Next, Task, Section

LEMMA NoCommandStep ==
  ASSUME TypeOK, Counted, NoCommand, [Next]_vars
  PROVE  NoCommand'
<1> DEFINE Free == task # "CAMERA" /\ \A i \in 1..Len(queue) : queue[i] # "CAMERA"
<1> SUFFICES ASSUME section' \in {"waiting", "idle"} PROVE Free'
  BY DEF NoCommand
<1>1. Len(queue) \in Nat /\ inFlight \in Int
  BY QueueOperations DEF TypeOK
<1>2. CASE ReadCount
  <2>1. inFlight = 0
    BY <1>2 DEF ReadCount
  <2>2. Len(queue) = 0 /\ task \notin Commands
    <3> DEFINE Held    == IF task \in Commands THEN 1 ELSE 0
               Pending == IF section \in {"push", "undo", "dropped", "front", "refused"} THEN 1 ELSE 0
               Passing == IF gps # "none" THEN 1 ELSE 0
    <3>1. inFlight = Len(queue) + Held + Pending + Passing
      BY DEF Counted, One
    <3>2. Held \in {0, 1} /\ Pending \in {0, 1} /\ Passing \in {0, 1}
      OBVIOUS
    <3>3. Len(queue) = 0 /\ Held = 0
      <4> HIDE DEF Held, Pending, Passing
      <4> QED BY <1>1, <2>1, <3>1, <3>2
    <3> QED BY <3>3
  <2>3. Free
    BY <2>2 DEF Commands
  <2> QED BY <1>2, <2>3 DEF ReadCount
<1>3. CASE ~ReadCount
  <2>1. section \in {"waiting", "idle"}
    BY <1>3 DEF Next, Task, Section, vars, SendCommand, PushCommand, UndoCommand, SendUpdate,
       PushUpdate, UndoUpdate, Tell, Drain, RetireDropped, ReserveFront, PushFront, UndoFront,
       Wait, ReadQueue, WaitReturns, Receive, Finish, Stop
  <2>2. Free
    BY <2>1 DEF NoCommand
  <2>3. CASE UNCHANGED queue
    <3>1. task' \in {task, "wait", "exit", "stopped"}
      BY <1>3, <2>1, <2>3 DEF Next, Task, Section, vars, SendCommand, PushCommand, UndoCommand,
         SendUpdate, PushUpdate, UndoUpdate, Tell, Drain, RetireDropped, ReserveFront, PushFront,
         UndoFront, Wait, ReadQueue, WaitReturns, Receive, Finish, Stop
    <3> QED BY <2>2, <2>3, <3>1
  <2>4. CASE PushUpdate /\ Appends("GPS")
    <3>1. /\ \A i \in 1..Len(queue) : queue'[i] = queue[i]
          /\ queue'[Len(queue) + 1] = "GPS"
      BY <2>4, QueueOperations DEF Appends
    <3> QED BY <1>1, <2>2, <2>4, <3>1 DEF PushUpdate, Appends
  <2>5. CASE Receive /\ DropsHead
    <3>1. /\ \A i \in 1..Len(queue') : queue'[i] = queue[i + 1]
          /\ task' = queue[1] /\ Len(queue) > 0
      BY <1>1, <2>5, QueueOperations DEF Receive, DropsHead
    <3> QED BY <1>1, <2>2, <2>5, <3>1 DEF DropsHead
  <2> QED
    BY <2>1, <2>3, <2>4, <2>5, QueueSteps DEF PushCommand, PushFront, Drain
<1> QED BY <1>2, <1>3

-----------------------------------------------------------------------------
(***************************************************************************)
(* What CMD_DISCONNECT finds in the queue, and that it stays in front.     *)
(***************************************************************************)
LEMMA PassedStep ==
  ASSUME TypeOK, Passed, [Next]_vars
  PROVE  Passed'
<1> DEFINE Passing == IF gps = "push" THEN 1 ELSE 0
<1>1. /\ Len(queue) \in Nat /\ QueueLength \in Nat /\ passed \in Nat
      /\ Passing \in {0, 1}
  BY QueueOperations, QueueAssumption DEF TypeOK
<1>2. /\ section \in TellSections /\ gps = "push" => passed >= 1
      /\ section \in {"reserve", "front"} => Len(queue) + Passing <= passed
      /\ section = "refused" => Crowded
  BY DEF Passed, One
<1> SUFFICES /\ section' \in TellSections /\ gps' = "push" => passed' >= 1
             /\ section' \in {"reserve", "front"} => Len(queue') + Passing' <= passed'
             /\ section' = "refused" => Crowded'
  BY DEF Passed, One
<1>3. CASE Drain
  <2>1. CASE queue = <<>>
    <3>1. Len(queue) = 0 /\ section \in TellSections
      BY <1>3, <2>1, QueueOperations DEF Drain, TellSections
    <3> QED BY <1>1, <1>2, <1>3, <2>1, <3>1 DEF Drain
  <2>2. CASE queue # <<>>
    BY <1>2, <1>3, <2>2 DEF Drain, TellSections
  <2> QED BY <2>1, <2>2
<1>4. CASE PushUpdate
  <2>1. CASE HasRoom
    <3>1. Len(queue') = Len(queue) + 1
      BY <1>4, <2>1, QueueOperations DEF PushUpdate
    <3> QED BY <1>1, <1>2, <1>4, <3>1 DEF PushUpdate, HasRoom, Crowded
  <2>2. CASE ~HasRoom
    BY <1>1, <1>2, <1>4, <2>2 DEF PushUpdate, Crowded
  <2> QED BY <2>1, <2>2
<1>5. CASE PushFront
  BY <1>1, <1>2, <1>5 DEF PushFront, HasRoom, Crowded, TellSections
<1>6. CASE Receive
  <2>1. Len(queue') = Len(queue) - 1
    BY <1>6, QueueOperations DEF Receive
  <2> QED BY <1>1, <1>2, <1>6, <2>1 DEF Receive, Crowded
<1>7. CASE SendUpdate
  BY <1>1, <1>2, <1>7 DEF SendUpdate, Crowded, TellSections
<1>8. CASE Tell
  BY <1>8 DEF Tell
<1>9. CASE RetireDropped \/ ReserveFront
  BY <1>1, <1>2, <1>9 DEF RetireDropped, ReserveFront, TellSections
<1>10. CASE UndoUpdate \/ Finish \/ Stop \/ UNCHANGED vars
  BY <1>1, <1>2, <1>10 DEF UndoUpdate, Finish, Stop, vars, Crowded
<1>11. CASE \/ SendCommand \/ PushCommand \/ UndoCommand \/ UndoFront
            \/ Wait \/ ReadCount \/ ReadQueue \/ WaitReturns
  BY <1>11 DEF SendCommand, PushCommand, UndoCommand, UndoFront, Wait, ReadCount, ReadQueue,
     WaitReturns, TellSections
<1> QED
  BY <1>3, <1>4, <1>5, <1>6, <1>7, <1>8, <1>9, <1>10, <1>11 DEF Next, Task, Section

LEMMA DisconnectStep ==
  ASSUME TypeOK, Passed, DisconnectIsNext, [Next]_vars
  PROVE  DisconnectIsNext'
<1> DEFINE Told == task \in {"DISCONNECT"} \cup Ended
           InFront == queue # <<>> /\ Head(queue) = "DISCONNECT"
<1> SUFFICES ASSUME tells' > 0, section' \notin TellSections, ~Crowded'
             PROVE  InFront' \/ Told'
  BY DEF DisconnectIsNext
<1>1. CASE PushFront
  <2>1. HasRoom
    BY <1>1 DEF PushFront, TellSections
  <2>2. queue' # <<>> /\ Head(queue') = queue'[1] /\ queue'[1] = "DISCONNECT"
    <3>1. queue' \in Seq(Commands) /\ Len(queue') = Len(queue) + 1 /\ Len(queue) \in Nat
      BY <1>1, <2>1, QueueOperations DEF PushFront
    <3>2. queue'[1] = "DISCONNECT"
      BY <1>1, <2>1, QueueOperations DEF PushFront
    <3> QED BY <3>1, <3>2, HeadTailProperties, EmptySeq
  <2> QED BY <2>2
<1>2. CASE UndoFront
  BY <1>2 DEF UndoFront, Passed, Crowded
<1>3. CASE ~PushFront /\ ~UndoFront
  <2>1. section \notin TellSections /\ tells' = tells /\ passed' = passed
    BY <1>3 DEF Next, Task, Section, vars, TellSections, SendCommand, PushCommand, UndoCommand,
       SendUpdate, PushUpdate, UndoUpdate, Tell, Drain, RetireDropped, ReserveFront, Wait,
       ReadCount, ReadQueue, WaitReturns, Receive, Finish, Stop
  <2>2. InFront \/ Told
    BY <2>1 DEF DisconnectIsNext, Crowded
  <2>3. Told => Told'
    BY <1>3 DEF Next, Task, Section, vars, Commands, Ended, SendCommand, PushCommand,
       UndoCommand, SendUpdate, PushUpdate, UndoUpdate, Tell, Drain, RetireDropped, ReserveFront,
       Wait, ReadCount, ReadQueue, WaitReturns, Receive, Finish, Stop
  <2>4. CASE Receive
    BY <2>2, <2>3, <2>4 DEF Receive
  <2>5. ASSUME NEW c \in Commands, Appends(c), InFront PROVE InFront'
    <3>1. queue' \in Seq(Commands) /\ queue' # <<>>
      BY <2>5, QueueOperations DEF Appends
    <3>2. Len(queue) \in Nat /\ Len(queue) # 0 /\ queue[1] = "DISCONNECT"
      BY <2>5, QueueOperations
    <3>3. queue'[1] = queue[1]
      BY <2>5, <3>2, QueueOperations DEF Appends
    <3> QED BY <3>1, <3>2, <3>3, HeadTailProperties
  <2>6. {"CAMERA", "GPS"} \subseteq Commands
    BY DEF Commands
  <2>7. \/ UNCHANGED queue \/ Receive \/ Appends("CAMERA") \/ Appends("GPS")
    BY <1>3, <2>1, QueueSteps DEF Drain, TellSections
  <2> QED BY <2>2, <2>3, <2>4, <2>5, <2>6, <2>7
<1> QED BY <1>1, <1>2, <1>3

LEMMA Invariance == Spec => []IInv
<1>1. IInv /\ [Next]_vars => IInv'
  BY TypeStep, CountStep, NoCommandStep, PassedStep, DisconnectStep DEF IInv
<1> QED BY InitHolds, <1>1, PTL DEF Spec

\* Every field keeps its type, the queue its bound.
THEOREM TypesHold == Spec => []TypeOK
<1>1. IInv => TypeOK
  BY DEF IInv
<1>2. QED BY <1>1, Invariance, PTL

\* m_InFlight is exact under every interleaving of the senders, the one that
\* empties the queue and the task, so it never wraps and idle() can be trusted.
THEOREM CountIsExact == Spec => []Counted
<1>1. IInv => Counted
  BY DEF IInv
<1>2. QED BY <1>1, Invariance, PTL

\* waitForCameraCommands() does not report idle with a camera command to come.
THEOREM IdleIsDone == Spec => []IdleMeansDone
<1>1. IInv => IdleMeansDone
  BY DEF IInv, NoCommand, IdleMeansDone
<1>2. QED BY <1>1, Invariance, PTL

\* CMD_DISCONNECT is not dropped, nor overtaken, while fewer GPS updates than the
\* queue has slots get past it.
THEOREM DisconnectIsKept == Spec => []DisconnectIsNext
<1>1. IInv => DisconnectIsNext
  BY DEF IInv
<1>2. QED BY <1>1, Invariance, PTL
===============================================================================
