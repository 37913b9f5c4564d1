------------------------------- MODULE HeldProof -------------------------------
(***************************************************************************)
(* What holds of the presses and releases of the WebUI for any number of   *)
(* cameras, sessions, presses and faults: sessions end, links drop,        *)
(* queues refuse and cameras are retired at any point of an operation.     *)
(***************************************************************************)
EXTENDS HeldRelease, SequenceTheorems, TLAPS

\* The sessions an operation and the ledger speak of have begun.
Sessions ==
  /\ ownSession <= session /\ expect <= session
  /\ targets # {} => session < MaxSessions

\* A press is on cameras of the session; a ledger of the session that is current
\* names, of its cameras, none but those that took the press and no release yet.
Exact ==
  /\ \A b \in Bits : pressed[b] \subseteq targets
  /\ held # {} /\ targets = {} => ownSession < session
  /\ \A b \in held : ownSession = session => ledger[b] \cap targets \subseteq pressed[b]

\* What an operation between two calls to Control knows, while the session it
\* read is current.  A press is sent for a button that is not held.
Knows ==
  /\ at \in {"press", "enter"} => bit \notin held
  /\ at = "enter" =>
       /\ targets = {} => expect < session
       /\ expect < session => pressed = Nobody
       /\ expect = session => only \cap targets \subseteq pressed[bit]
  /\ at = "send" /\ owned =>
       /\ bit \in held
       /\ targets = {} => expect < session
       /\ expect = session => only \cap targets \subseteq pressed[bit] /\ ownSession = session

IInv == TypeOK /\ Sessions /\ Exact /\ Knows /\ NoneForgotten /\ OwedOnly

-----------------------------------------------------------------------------
\* The buttons of an operation, in order, are buttons, and some if any is asked for.
LEMMA OrderType ==
  ASSUME NEW bs \in SUBSET Bits
  PROVE  /\ InOrder(bs) \in Seq(Bits \cup {"count"})
         /\ bs # {} => InOrder(bs) # <<>> /\ Head(InOrder(bs)) \in Bits
<1>1. bs = {} \/ bs = {"SHUTTER"} \/ bs = {"FOCUS"} \/ bs = {"SHUTTER", "FOCUS"}
  BY DEF Bits
<1>2. CASE bs = {}
  BY <1>2 DEF InOrder, Bits
<1>3. CASE bs = {"SHUTTER"}
  BY <1>3 DEF InOrder, Bits
<1>4. CASE bs = {"FOCUS"}
  BY <1>4 DEF InOrder, Bits
<1>5. CASE bs = {"SHUTTER", "FOCUS"}
  BY <1>5 DEF InOrder, Bits
<1> QED BY <1>1, <1>2, <1>3, <1>4, <1>5

OpTypes ==
  /\ at \in Points /\ bit \in Bits /\ owned \in BOOLEAN /\ only \subseteq Cameras
  /\ expect \in 0..MaxSessions /\ rest \in Seq(Bits \cup {"count"})

LEMMA FinishTypes ==
  ASSUME OpTypes, Finish
  PROVE  OpTypes'
<1>1. rest # <<>> => Head(rest) \in Bits \cup {"count"} /\ Tail(rest) \in Seq(Bits \cup {"count"})
  BY HeadTailProperties DEF OpTypes
<1>2. 0 \in 0..MaxSessions
  BY HeldAssumption
<1> QED BY <1>1, <1>2 DEF Finish, OpTypes, Points, Bits

LEMMA BeginTypes ==
  ASSUME OpTypes, NEW bs, bs \in Seq(Bits \cup {"count"}), bs # <<>>, Head(bs) \in Bits, Begin(bs)
  PROVE  OpTypes'
<1>1. Tail(bs) \in Seq(Bits \cup {"count"})
  BY HeadTailProperties
<1> QED BY <1>1 DEF Begin, OpTypes, Points

LEMMA OpStep ==
  ASSUME TypeOK, [Next]_vars
  PROVE  OpTypes'
<1>1. OpTypes
  BY DEF TypeOK, OpTypes
<1>2. CASE UNCHANGED opVars
  BY <1>1, <1>2 DEF opVars, OpTypes
<1>3. CASE Finish
  BY <1>1, <1>3, FinishTypes
<1>4. ASSUME NEW b \in Bits, Begin(<<b>>) PROVE OpTypes'
  BY <1>1, <1>4, BeginTypes
<1>5. CASE RetryReleases
  <2>1. CASE owed = {}
    BY <1>1, <1>5, <2>1 DEF RetryReleases, OpTypes, Points
  <2>2. CASE owed # {}
    <3> DEFINE bs == InOrder(owed)
    <3>1. bs \in Seq(Bits \cup {"count"}) /\ bs # <<>> /\ Head(bs) \in Bits
      BY <2>2, OrderType DEF TypeOK
    <3>2. /\ bs \o <<"count">> \in Seq(Bits \cup {"count"}) /\ bs \o <<"count">> # <<>>
          /\ Head(bs \o <<"count">>) = Head(bs)
      BY <3>1, ConcatProperties, HeadTailProperties, EmptySeq
    <3>3. Begin(bs \o <<"count">>)
      BY <1>5, <2>2 DEF RetryReleases
    <3> HIDE DEF bs
    <3> QED BY <1>1, <3>1, <3>2, <3>3, BeginTypes
  <2> QED BY <2>1, <2>2
<1>6. CASE ReleaseAll
  <2>1. CASE held = {}
    BY <1>2, <1>6, <2>1 DEF ReleaseAll
  <2>2. CASE held # {}
    BY <1>1, <1>6, <2>2, BeginTypes, OrderType DEF ReleaseAll, TypeOK
  <2> QED BY <2>1, <2>2
<1>7. CASE \E b \in Bits : Press(b)
  BY <1>1, <1>7 DEF Press, OpTypes, Points
<1>8. CASE SendPress
  <2>1. PICK accepted \in SUBSET connected :
          /\ only' = accepted
          /\ IF accepted = {} THEN at' = "idle" /\ bit' = "SHUTTER" /\ UNCHANGED expect
             ELSE at' = "enter" /\ expect' = session /\ UNCHANGED bit
    BY <1>8 DEF SendPress
  <2>2. connected \subseteq Cameras /\ session \in 0..MaxSessions
    BY DEF TypeOK
  <2> QED BY <1>1, <1>8, <2>1, <2>2 DEF SendPress, OpTypes, Points, Bits
<1>9. CASE ReleaseOwned
  BY <1>1, <1>9 DEF ReleaseOwned, TypeOK, OpTypes, Points
<1>10. CASE ReleaseForeign
  BY <1>1, <1>10 DEF ReleaseForeign, TypeOK, OpTypes, Points
<1>11. CASE ExpireFocus
  BY <1>4, <1>11 DEF ExpireFocus, Bits
<1>12. CASE ExpireHold
  BY <1>2, <1>4, <1>12 DEF ExpireHold, Bits
<1>13. CASE \E b \in Bits : Release(b)
  BY <1>4, <1>13 DEF Release
<1> QED
  BY <1>2, <1>3, <1>5, <1>6, <1>7, <1>8, <1>9, <1>10, <1>11, <1>12, <1>13
     DEF Next, GoOn, Supervisor, Handler, Timers, vars, opVars, EnterStale, Enter, ReleaseStale,
         ReleaseNothing, SendRefused, SendRelease, Count, Sync, PressStale, HoldAgain, FireHold,
         FireRetry, Pass, Connect, EndSession, Drop, Relink, Retire, StartServer

-----------------------------------------------------------------------------
\* The fields an operation keeps for the next one.
OtherTypes ==
  /\ session \in 0..MaxSessions /\ targets \subseteq Cameras /\ connected \subseteq targets
  /\ pressed \in [Bits -> SUBSET Cameras]
  /\ held \subseteq Bits /\ owed \subseteq held
  /\ ledger \in [Bits -> SUBSET Cameras] /\ ownSession \in 0..MaxSessions

TimerTypes ==
  /\ deadline \in [Bits -> {"none", "ahead", "passed"}]
  /\ holdTimer \in BOOLEAN /\ retryTimer \in BOOLEAN /\ events \subseteq {"HOLD", "RETRY"}
  /\ stopping \in BOOLEAN

CountTypes == presses \in 0..MaxPresses /\ faults \in 0..MaxFaults

LEMMA TimerStep ==
  ASSUME TypeOK, [Next]_vars
  PROVE  TimerTypes'
<1> USE DEF TimerTypes, TypeOK, timerVars
<1>1. CASE UNCHANGED <<timerVars, stopping>>
  BY <1>1
<1>2. CASE \/ PressStale \/ HoldAgain \/ EnterStale \/ Enter \/ Sync
           \/ \E b \in Bits : Press(b) \/ Pass(b)
  <2>1. CASE PressStale \/ EnterStale \/ Sync
    BY <2>1 DEF PressStale, EnterStale, Sync, Disown
  <2>2. ASSUME NEW b \in Bits, Lease(b) PROVE /\ deadline' \in [Bits -> {"none", "ahead", "passed"}]
                                             /\ holdTimer' \in BOOLEAN
    BY <2>2 DEF Lease
  <2>3. CASE HoldAgain \/ Enter
    BY <2>2, <2>3 DEF HoldAgain, Enter, Bits
  <2>4. CASE \E b \in Bits : Press(b)
    BY <2>4 DEF Press
  <2>5. CASE \E b \in Bits : Pass(b)
    BY <2>5 DEF Pass
  <2> QED BY <1>2, <2>1, <2>3, <2>4, <2>5
<1>3. CASE \/ ReleaseStale \/ ReleaseNothing \/ ReleaseOwned \/ ReleaseForeign
           \/ SendRefused \/ SendRelease
  BY <1>3 DEF ReleaseStale, ReleaseNothing, ReleaseOwned, ReleaseForeign, SendRefused,
     SendRelease, Disown, Disarm, Bits
<1>4. CASE \/ ExpireFocus \/ ExpireHold \/ RetryReleases \/ ReleaseAll \/ FireHold \/ FireRetry
           \/ StartServer
  BY <1>4 DEF ExpireFocus, ExpireHold, RetryReleases, ReleaseAll, FireHold, FireRetry, StartServer,
     Bits
<1>5. CASE UNCHANGED vars
  BY <1>5 DEF vars
<1>6. \/ UNCHANGED <<timerVars, stopping>>
      \/ PressStale \/ HoldAgain \/ EnterStale \/ Enter \/ Sync
      \/ (\E b \in Bits : Press(b) \/ Pass(b))
      \/ ReleaseStale \/ ReleaseNothing \/ ReleaseOwned \/ ReleaseForeign
      \/ SendRefused \/ SendRelease
      \/ ExpireFocus \/ ExpireHold \/ RetryReleases \/ ReleaseAll \/ FireHold \/ FireRetry
      \/ StartServer \/ UNCHANGED vars
  BY DEF Next, GoOn, Supervisor, Handler, Timers, SendPress, Count, Release, Connect, EndSession,
     Drop, Relink, Retire
<1> QED BY <1>1, <1>2, <1>3, <1>4, <1>5, <1>6

\* A fault is a link that drops, or a command that some camera refused.
LEMMA CountStep ==
  ASSUME TypeOK, [Next]_vars
  PROVE  CountTypes'
<1> USE HeldAssumption DEF CountTypes, TypeOK
<1>1. CASE SendPress
  BY <1>1 DEF SendPress, Deliver
<1>2. CASE SendRelease
  BY <1>2 DEF SendRelease, Deliver
<1>3. CASE Drop \/ HoldAgain \/ \E b \in Bits : Press(b)
  BY <1>3 DEF Drop, HoldAgain, Press
<1>4. \/ UNCHANGED <<presses, faults>> \/ SendPress \/ SendRelease
      \/ Drop \/ HoldAgain \/ \E b \in Bits : Press(b)
  BY DEF Next, GoOn, Supervisor, Handler, Timers, vars, EnterStale, Enter, ReleaseStale,
     ReleaseNothing, ReleaseOwned, ReleaseForeign, SendRefused, Count, Sync, ExpireFocus,
     ExpireHold, RetryReleases, PressStale, Release, FireHold, FireRetry, Pass, Connect,
     EndSession, Relink, Retire, StartServer, ReleaseAll
<1> QED BY <1>1, <1>2, <1>3, <1>4

-----------------------------------------------------------------------------
\* What the steps of an operation, and the others, have to keep.
Rest == OtherTypes /\ Sessions /\ Exact /\ Knows /\ NoneForgotten /\ OwedOnly

LEMMA InitHolds == Init => IInv
<1>1. <<>> \in Seq(Bits \cup {"count"}) /\ 0 \in 0..MaxSessions /\ 0 \in 0..MaxPresses
      /\ 0 \in 0..MaxFaults
  BY HeldAssumption
<1>2. Init => TypeOK
  BY <1>1 DEF Init, TypeOK, Bits, Points, Nobody
<1> QED BY <1>2, HeldAssumption DEF Init, IInv, TypeOK, Sessions, Exact, Knows, NoneForgotten,
           OwedOnly, Nobody, Bits

\* Nobody has pressed anything when what is owed is of an earlier session.
LEMMA StaleIsEmpty ==
  ASSUME IInv
  PROVE  /\ at # "enter" /\ Stale(session) => pressed = Nobody
         /\ at = "enter" /\ Stale(expect) => \A b \in Bits \ {bit} : pressed[b] = {}
         /\ targets = {} => pressed = Nobody
<1>1. ASSUME \A b \in Bits : pressed[b] = {} PROVE pressed = Nobody
  BY <1>1 DEF IInv, TypeOK, Nobody
<1>2. ASSUME at # "enter", Stale(session), NEW b \in Bits PROVE pressed[b] = {}
  BY <1>2 DEF IInv, NoneForgotten, Stale
<1>3. ASSUME at = "enter", Stale(expect), NEW b \in Bits \ {bit} PROVE pressed[b] = {}
  <2>1. CASE expect = session
    BY <1>3, <2>1 DEF IInv, NoneForgotten, Stale
  <2>2. CASE expect # session
    BY <1>3, <2>2 DEF IInv, Knows, Sessions, TypeOK, Nobody
  <2> QED BY <2>1, <2>2
<1>4. ASSUME targets = {}, NEW b \in Bits PROVE pressed[b] = {}
  BY <1>4 DEF IInv, Exact
<1> QED BY <1>1, <1>2, <1>3, <1>4

LEMMA ControlSteps ==
  ASSUME IInv, Connect \/ EndSession \/ Drop \/ Relink \/ Retire
  PROVE  Rest'
<1> USE DEF IInv, TypeOK, Rest, OtherTypes, Sessions, Exact, Knows, NoneForgotten, OwedOnly
<1>1. CASE Connect
  BY <1>1 DEF Connect, ownVars, opVars, cameraVars
<1>2. CASE EndSession
  <2>1. session' \in 0..MaxSessions /\ session' = session + 1 /\ session \in Nat
        /\ ownSession \in Nat /\ expect \in Nat
    BY <1>2, HeldAssumption DEF EndSession
  <2>2. /\ targets' = {} /\ connected' = {} /\ pressed' = Nobody
        /\ UNCHANGED <<undue, held, owed, ledger, ownSession, at, bit, owned, only, expect>>
    BY <1>2 DEF EndSession, ownVars, opVars
  <2>3. Nobody \in [Bits -> SUBSET Cameras] /\ \A b \in Bits : Nobody[b] = {}
    BY DEF Nobody
  <2>4. expect' < session' /\ ownSession' < session'
    BY <2>1, <2>2
  <2>5. OtherTypes' /\ Sessions'
    BY <2>1, <2>2, <2>3, <2>4
  <2>6. Exact' /\ NoneForgotten' /\ OwedOnly'
    BY <2>2, <2>3, <2>4
  <2>7. Knows'
    BY <2>1, <2>2, <2>3, <2>4
  <2> QED BY <2>5, <2>6, <2>7
<1>3. CASE Drop
  BY <1>3 DEF Drop, ownVars, opVars, cameraVars
<1>4. CASE Relink
  BY <1>4 DEF Relink, ownVars, opVars, cameraVars
<1>5. CASE Retire
  BY <1>5 DEF Retire, ownVars, opVars, Nobody
<1> QED BY <1>1, <1>2, <1>3, <1>4, <1>5

LEMMA PressSteps ==
  ASSUME IInv, \/ PressStale \/ HoldAgain \/ SendPress \/ EnterStale \/ Enter
               \/ \E b \in Bits : Press(b)
  PROVE  Rest'
<1> USE DEF IInv, TypeOK, Rest, OtherTypes, Sessions, Exact, Knows, NoneForgotten, OwedOnly,
    controlVars, cameraVars
<1>1. CASE PressStale
  <2>1. pressed = Nobody
    BY <1>1, StaleIsEmpty DEF PressStale
  <2> QED BY <1>1, <2>1 DEF PressStale, Disown, opVars, Nobody
<1>2. CASE HoldAgain
  BY <1>2 DEF HoldAgain, ownVars, opVars
<1>3. CASE \E b \in Bits : Press(b)
  BY <1>3 DEF Press, ownVars
<1>4. CASE EnterStale
  <2>1. \A b \in Bits \ {bit} : pressed[b] = {}
    BY <1>4, StaleIsEmpty DEF EnterStale
  <2>2. /\ held' = {} /\ owed' = {} /\ ledger' = Nobody /\ ownSession' = expect
        /\ UNCHANGED <<session, targets, connected, pressed, undue, at, bit, owned, only, expect>>
        /\ at = "enter"
    BY <1>4 DEF EnterStale, Disown, opVars
  <2>3. OtherTypes' /\ Sessions' /\ Exact' /\ Knows' /\ OwedOnly'
    BY <2>2 DEF Nobody
  <2>4. NoneForgotten'
    BY <2>1, <2>2
  <2> QED BY <2>3, <2>4
<1>5. CASE SendPress
  <2>1. pressed[bit] = {}
    BY <1>5 DEF SendPress
  <2>2. PICK accepted \in SUBSET connected :
          /\ pressed' = [pressed EXCEPT ![bit] = @ \cup accepted]
          /\ only' = accepted
          /\ IF accepted = {} THEN at' = "idle" /\ bit' = "SHUTTER" /\ UNCHANGED expect
             ELSE at' = "enter" /\ expect' = session /\ UNCHANGED bit
    BY <1>5 DEF SendPress
  <2>3. /\ UNCHANGED <<session, targets, connected, undue, held, owed, ledger, ownSession>>
    BY <1>5 DEF SendPress, ownVars
  <2>4. pressed'[bit] = accepted /\ \A b \in Bits \ {bit} : pressed'[b] = pressed[b]
    BY <2>1, <2>2
  <2>5. accepted \subseteq targets /\ bit \notin held
    BY <1>5, <2>2 DEF SendPress
  <2>6. CASE accepted = {}
    <3>1. \A b \in Bits : pressed'[b] = pressed[b]
      BY <2>1, <2>4, <2>6
    <3> QED BY <1>5, <2>2, <2>3, <2>6, <3>1 DEF SendPress, Bits
  <2>7. CASE accepted # {}
    <3>1. at = "press" /\ at' = "enter" /\ expect' = session /\ bit' = bit /\ targets # {}
      BY <1>5, <2>2, <2>5, <2>7 DEF SendPress
    <3>2. OtherTypes' /\ Sessions' /\ OwedOnly'
      BY <2>2, <2>3, <2>5, <3>1
    <3>3. Exact'
      BY <2>3, <2>4, <2>5, <3>1
    <3>4. Knows'
      BY <2>2, <2>3, <2>4, <3>1
    <3>5. NoneForgotten'
      BY <2>2, <2>3, <2>4, <3>1
    <3> QED BY <3>2, <3>3, <3>4, <3>5
  <2> QED BY <2>6, <2>7
<1>6. CASE Enter
  <2>1. /\ at = "enter" /\ ~Stale(expect) /\ at' \notin {"press", "enter", "send"} /\ expect' = 0
        /\ held' = held \cup {bit} /\ owed' = owed \ {bit} /\ ownSession' = expect
        /\ ledger' = [ledger EXCEPT ![bit] = only]
        /\ UNCHANGED <<session, targets, connected, pressed, undue>>
    BY <1>6 DEF Enter, Finish
  <2>2. OtherTypes' /\ Sessions' /\ Knows' /\ OwedOnly'
    BY <2>1
  <2>3. ledger'[bit] = only /\ \A b \in Bits \ {bit} : ledger'[b] = ledger[b]
    BY <2>1
  <2>4. held # {} => ownSession = expect
    BY <2>1 DEF Stale
  <2>5. Exact'
    BY <2>1, <2>3, <2>4
  <2>6. \A b \in Bits : pressed[b] # {} => expect = session
    BY <2>1 DEF Nobody
  <2>7. NoneForgotten'
    BY <2>1, <2>3, <2>4, <2>6
  <2> QED BY <2>2, <2>5, <2>7
<1> QED BY <1>1, <1>2, <1>3, <1>4, <1>5, <1>6

LEMMA ReleaseSteps ==
  ASSUME IInv, \/ ReleaseStale \/ ReleaseNothing \/ ReleaseOwned \/ ReleaseForeign
               \/ SendRefused \/ SendRelease
  PROVE  Rest'
<1> USE DEF IInv, TypeOK, Rest, OtherTypes, Sessions, Exact, Knows, NoneForgotten, OwedOnly,
    controlVars, cameraVars
<1>1. Finish => at' \notin {"press", "enter", "send"} /\ expect' = 0
  BY DEF Finish
<1>2. ASSUME at \in {"release", "send"}, Stale(session), Disown(session), Finish,
             UNCHANGED <<controlVars, cameraVars>>
      PROVE  Rest'
  <2>1. pressed = Nobody
    BY <1>2, StaleIsEmpty
  <2> QED BY <1>1, <1>2, <2>1 DEF Disown, Nobody
<1>3. CASE ReleaseStale
  BY <1>2, <1>3 DEF ReleaseStale
<1>4. CASE ReleaseNothing
  <2>1. /\ at = "release" /\ held' = held \ {bit} /\ owed' = owed \ {bit}
        /\ UNCHANGED <<session, targets, connected, pressed, undue, ledger, ownSession>>
        /\ at' \notin {"press", "enter", "send"} /\ expect' = 0
    BY <1>1, <1>4 DEF ReleaseNothing
  <2>2. pressed[bit] = {}
    BY <1>4, <2>1 DEF ReleaseNothing, Owns
  <2>3. OtherTypes' /\ Sessions' /\ Exact' /\ Knows' /\ OwedOnly'
    BY <2>1
  <2>4. NoneForgotten'
    BY <2>1, <2>2
  <2> QED BY <2>3, <2>4
<1>5. CASE ReleaseOwned
  <2>1. /\ at = "release" /\ bit \in held /\ ownSession = session
        /\ at' = "send" /\ owned' = TRUE /\ only' = ledger[bit] /\ expect' = ownSession
        /\ owed' = owed \cup {bit}
        /\ UNCHANGED <<session, targets, connected, pressed, undue, held, ledger, ownSession, bit>>
    BY <1>5 DEF ReleaseOwned, Owns, Stale
  <2> QED BY <2>1
<1>6. CASE ReleaseForeign
  BY <1>6 DEF ReleaseForeign, ownVars
<1>7. CASE SendRefused
  <2>1. CASE Stale(session)
    BY <1>2, <1>7, <2>1 DEF SendRefused
  <2>2. CASE ~Stale(session)
    BY <1>1, <1>7, <2>2 DEF SendRefused, ownVars
  <2> QED BY <2>1, <2>2
<1>8. CASE SendRelease
  <2>1. PICK accepted \in SUBSET Addressed :
          /\ pressed' = [pressed EXCEPT ![bit] = @ \ accepted]
          /\ undue' = IF owned THEN undue \cup (accepted \ pressed[bit]) ELSE undue
          /\ ledger' = [ledger EXCEPT ![bit] = Struck(accepted)]
    BY <1>8 DEF SendRelease
  <2>2. /\ at = "send" /\ session = expect /\ at' \notin {"press", "enter", "send"} /\ expect' = 0
        /\ UNCHANGED <<session, targets, connected, ownSession>>
    BY <1>1, <1>8 DEF SendRelease
  <2>3. IF ledger'[bit] = {} /\ owned THEN held' = held \ {bit} /\ owed' = owed \ {bit}
        ELSE UNCHANGED <<held, owed>>
    BY <1>8 DEF SendRelease
  <2>4. /\ ledger'[bit] = ledger[bit] \ accepted /\ pressed'[bit] = pressed[bit] \ accepted
        /\ \A b \in Bits \ {bit} : ledger'[b] = ledger[b] /\ pressed'[b] = pressed[b]
    BY <2>1 DEF Struck
  <2>5. accepted \subseteq only /\ accepted \subseteq targets
    BY DEF Addressed
  <2>6. OwedOnly'
    BY <2>1, <2>2, <2>5
  <2>7. OtherTypes' /\ Sessions' /\ Knows'
    BY <2>1, <2>2, <2>3 DEF Struck
  <2>8. Exact'
    BY <2>2, <2>3, <2>4
  <2>9. NoneForgotten'
    BY <2>2, <2>3, <2>4
  <2> QED BY <2>6, <2>7, <2>8, <2>9
<1> QED BY <1>3, <1>4, <1>5, <1>6, <1>7, <1>8

LEMMA OtherSteps ==
  ASSUME IInv, \/ Sync \/ ExpireFocus \/ ExpireHold \/ RetryReleases \/ Count \/ ReleaseAll
               \/ StartServer \/ FireHold \/ FireRetry \/ UNCHANGED vars
               \/ \E b \in Bits : Release(b) \/ Pass(b)
  PROVE  Rest'
<1> USE DEF IInv, TypeOK, Rest, OtherTypes, Sessions, Exact, Knows, NoneForgotten, OwedOnly,
    controlVars, cameraVars
<1>1. CASE Sync
  <2>1. pressed = Nobody
    BY <1>1, StaleIsEmpty DEF Sync
  <2> QED BY <1>1, <2>1 DEF Sync, Disown, opVars, Nobody
<1>2. CASE Count
  <2>1. targets = {} => pressed = Nobody
    BY StaleIsEmpty
  <2>2. at = "count" /\ at' \notin {"press", "enter", "send"} /\ expect' = 0
    BY <1>2 DEF Count, Finish
  <2>3. UNCHANGED <<session, targets, connected, pressed, undue, ledger, ownSession>>
    BY <1>2 DEF Count
  <2>4. IF targets = {} THEN held' = {} /\ owed' = {} ELSE UNCHANGED <<held, owed>>
    BY <1>2 DEF Count
  <2> QED BY <2>1, <2>2, <2>3, <2>4 DEF Nobody
<1>4. ASSUME NEW bs, Begin(bs) PROVE at = "idle" /\ at' = "release" /\ UNCHANGED expect
  BY <1>4 DEF Begin
<1>5. CASE UNCHANGED <<controlVars, cameraVars, ownVars, opVars>>
  BY <1>5 DEF ownVars, opVars
<1>6. CASE /\ UNCHANGED <<controlVars, cameraVars, ownVars, expect>>
           /\ at = "idle" /\ at' \in {"idle", "release", "count"}
  BY <1>6 DEF ownVars
<1>7. CASE ExpireFocus \/ \E b \in Bits : Release(b)
  BY <1>4, <1>6, <1>7 DEF ExpireFocus, Release
<1>8. CASE ExpireHold
  BY <1>4, <1>5, <1>6, <1>8 DEF ExpireHold
<1>9. CASE RetryReleases
  BY <1>4, <1>6, <1>9 DEF RetryReleases
<1>10. CASE ReleaseAll
  BY <1>4, <1>5, <1>6, <1>10 DEF ReleaseAll
<1>11. CASE StartServer \/ FireHold \/ FireRetry \/ UNCHANGED vars \/ \E b \in Bits : Pass(b)
  BY <1>5, <1>11 DEF StartServer, FireHold, FireRetry, Pass, vars, ownVars, opVars
<1> QED BY <1>1, <1>2, <1>7, <1>8, <1>9, <1>10, <1>11

LEMMA Invariance == Spec => []IInv
<1>1. IInv /\ [Next]_vars => IInv'
  <2> SUFFICES ASSUME IInv, [Next]_vars PROVE IInv'
    OBVIOUS
  <2>1. TypeOK
    BY DEF IInv
  <2>2. OpTypes' /\ TimerTypes' /\ CountTypes'
    BY <2>1, OpStep, TimerStep, CountStep
  <2>3. Rest'
    BY ControlSteps, PressSteps, ReleaseSteps, OtherSteps DEF Next, GoOn, Supervisor, Handler,
       Timers
  <2>4. undue' = {}
    BY <2>3 DEF Rest, OwedOnly
  <2>5. TypeOK'
    BY <2>2, <2>3, <2>4 DEF TypeOK, OpTypes, TimerTypes, CountTypes, Rest, OtherTypes
  <2> QED BY <2>3, <2>5 DEF IInv, Rest
<1> QED BY InitHolds, <1>1, PTL DEF Spec

-----------------------------------------------------------------------------
(***************************************************************************)
(* A button that counts as held has its release coming without anybody     *)
(* asking: the operation under way is about to release it, or a retry is   *)
(* armed, or its lease runs and whoever watches the lease will be woken.   *)
(***************************************************************************)
Ahead(b) == \E i \in 1..Len(rest) : rest[i] = b

Busy(b) == bit = b /\ (at = "release" \/ (at = "send" /\ owned))

Retried == retryTimer \/ "RETRY" \in events

\* The supervisor polls the focus deadline; it is woken for the other one.
Leased(b) ==
  /\ deadline[b] # "none"
  /\ b = "SHUTTER" => holdTimer \/ (deadline[b] = "passed" /\ "HOLD" \in events)

Watched(b) ==
  b \in held => Busy(b) \/ Ahead(b) \/ (IF b \in owed THEN Retried ELSE Leased(b))

HeldIsWatched == \A b \in Bits : Watched(b)

\* Only a release has more to do, and only for a button whose release is owed
\* does one go to the ledger of a press.
Chained ==
  /\ at \in {"idle", "press", "enter"} => rest = <<>>
  /\ at = "send" /\ owned => bit \in owed /\ ownSession = expect

LEMMA FinishAhead ==
  ASSUME OpTypes, Finish, NEW b \in Bits, Ahead(b)
  PROVE  (Busy(b) \/ Ahead(b))'
<1>1. rest \in Seq(Bits \cup {"count"}) /\ rest # <<>>
  BY EmptySeq DEF OpTypes, Ahead
<1>2. /\ Len(Tail(rest)) = Len(rest) - 1
      /\ \A i \in 1..Len(Tail(rest)) : Tail(rest)[i] = rest[i + 1]
  BY <1>1, HeadTailProperties
<1>3. PICK i \in 1..Len(rest) : rest[i] = b
  BY DEF Ahead
<1>4. rest' = Tail(rest)
  BY <1>1 DEF Finish
<1>5. CASE i = 1
  <2>1. Head(rest) = b
    BY <1>1, <1>3, <1>5
  <2> QED BY <1>1, <2>1 DEF Finish, Busy
<1>6. CASE i # 1
  <2>1. i - 1 \in 1..Len(Tail(rest)) /\ rest'[i - 1] = b
    BY <1>1, <1>2, <1>3, <1>4, <1>6, LenProperties
  <2> QED BY <1>4, <2>1 DEF Ahead
<1> QED BY <1>5, <1>6

LEMMA Singleton ==
  ASSUME NEW S, NEW x \in S
  PROVE  <<x>> \in Seq(S) /\ Len(<<x>>) = 1 /\ <<x>>[1] = x
  OBVIOUS

LEMMA BeginComes ==
  ASSUME NEW S \in SUBSET Bits, S # {}, Begin(InOrder(S)) \/ Begin(InOrder(S) \o <<"count">>)
  PROVE  \A b \in S : (Busy(b) \/ Ahead(b))'
<1>1. S = {"SHUTTER"} \/ S = {"FOCUS"} \/ S = {"SHUTTER", "FOCUS"}
  BY DEF Bits
<1>2. CASE S = {"SHUTTER"}
  BY <1>2 DEF InOrder, Begin, Busy
<1>3. CASE S = {"FOCUS"}
  BY <1>3 DEF InOrder, Begin, Busy
<1>4. CASE S = {"SHUTTER", "FOCUS"}
  <2> DEFINE q == <<"SHUTTER">> \o <<"FOCUS">>
             r == q \o <<"count">>
  <2>1. InOrder(S) = q
    BY <1>4 DEF InOrder
  <2> DEFINE X == Bits \cup {"count"}
  <2>2. \A x \in X : <<x>> \in Seq(X) /\ Len(<<x>>) = 1 /\ <<x>>[1] = x
    BY Singleton
  <2>3. "SHUTTER" \in X /\ "FOCUS" \in X /\ "count" \in X
    BY DEF Bits
  <2>4. q \in Seq(X) /\ Len(q) = 2 /\ q[1] = "SHUTTER" /\ q[2] = "FOCUS"
    BY <2>2, <2>3, ConcatProperties
  <2>5. r \in Seq(X) /\ Len(r) = 3 /\ r[1] = "SHUTTER" /\ r[2] = "FOCUS"
    BY <2>2, <2>3, <2>4, ConcatProperties
  <2> HIDE DEF q, r, X
  <2>6. ASSUME NEW s \in {q, r}, Begin(s) PROVE \A b \in S : (Busy(b) \/ Ahead(b))'
    <3>1. s \in Seq(X) /\ Len(s) \in {2, 3} /\ s[1] = "SHUTTER" /\ s[2] = "FOCUS"
      BY <2>4, <2>5, <2>6
    <3>2. s # <<>> /\ Head(s) = "SHUTTER"
      BY <3>1, EmptySeq
    <3>3. Len(Tail(s)) = Len(s) - 1 /\ \A i \in 1..Len(Tail(s)) : Tail(s)[i] = s[i + 1]
      BY <3>1, <3>2, HeadTailProperties
    <3>4. 1 \in 1..Len(Tail(s)) /\ Tail(s)[1] = "FOCUS"
      BY <3>1, <3>3
    <3>5. bit' = "SHUTTER" /\ at' = "release" /\ rest' = Tail(s)
      BY <2>6, <3>2 DEF Begin
    <3> QED BY <1>4, <3>4, <3>5 DEF Busy, Ahead
  <2> QED BY <2>1, <2>6 DEF r
<1> QED BY <1>1, <1>2, <1>3, <1>4

\* What a step does to one button that is none of its business.
Undisturbed(b) ==
  /\ b \in held' => b \in held
  /\ b \in owed' <=> b \in owed
  /\ Retried => Retried'
  /\ Leased(b) => Leased(b)'

LEMMA WatchGoesOn ==
  ASSUME OpTypes, NEW b \in Bits, Watched(b), Undisturbed(b),
         \/ UNCHANGED <<at, bit, owned, rest>>
         \/ Finish /\ ~Busy(b)
         \/ ~Busy(b) /\ rest = <<>>
  PROVE  Watched(b)'
<1>1. CASE UNCHANGED <<at, bit, owned, rest>>
  BY <1>1 DEF Watched, Undisturbed, Busy, Ahead
<1>2. CASE Finish /\ ~Busy(b)
  BY <1>2, FinishAhead DEF Watched, Undisturbed
<1>3. CASE ~Busy(b) /\ rest = <<>>
  <2>1. ~Ahead(b)
    BY <1>3, EmptySeq DEF Ahead
  <2> QED BY <1>3, <2>1 DEF Watched, Undisturbed
<1> QED BY <1>1, <1>2, <1>3

LEMMA ChainedStep ==
  ASSUME Chained, [Next]_vars
  PROVE  Chained'
<1> USE DEF Chained
<1>1. CASE UNCHANGED <<opVars, ownVars>>
  BY <1>1 DEF opVars, ownVars
<1>2. CASE Finish
  BY <1>2 DEF Finish
<1>3. ASSUME NEW bs, Begin(bs) PROVE Chained'
  BY <1>3 DEF Begin
<1>4. CASE \/ PressStale \/ HoldAgain \/ SendPress \/ EnterStale \/ ReleaseOwned \/ ReleaseForeign
           \/ Sync \/ \E b \in Bits : Press(b)
  BY <1>4 DEF PressStale, HoldAgain, SendPress, EnterStale, ReleaseOwned, ReleaseForeign, Sync,
     Press, opVars, ownVars
<1>5. CASE RetryReleases
  BY <1>3, <1>5 DEF RetryReleases
<1> QED
  BY <1>1, <1>2, <1>3, <1>4, <1>5
     DEF Next, GoOn, Supervisor, Handler, Timers, vars, opVars, ownVars, Enter, ReleaseStale,
         ReleaseNothing, SendRefused, SendRelease, Count, ExpireFocus, ExpireHold, Release,
         FireHold, FireRetry, Pass, Connect, EndSession, Drop, Relink, Retire, StartServer, ReleaseAll

\* What goes on without the operation, or begins one on no button.
LEMMA WatchOthers ==
  ASSUME IInv, Chained, NEW b \in Bits, Watched(b),
         \/ FireHold \/ FireRetry \/ Connect \/ EndSession \/ Drop \/ Relink \/ Retire
         \/ StartServer \/ PressStale \/ HoldAgain \/ SendPress \/ EnterStale \/ Sync
         \/ UNCHANGED vars \/ \E d \in Bits : Press(d) \/ Pass(d)
  PROVE  Watched(b)'
<1> USE DEF Undisturbed, Retried, Leased, ownVars, timerVars, opVars
<1>0. OpTypes
  BY DEF IInv, TypeOK, OpTypes
<1>1. CASE UNCHANGED <<ownVars, timerVars, opVars>>
  BY <1>0, <1>1, WatchGoesOn
<1>2. CASE FireHold \/ FireRetry
  BY <1>0, <1>2, WatchGoesOn DEF FireHold, FireRetry
<1>3. CASE PressStale \/ EnterStale \/ Sync
  BY <1>3 DEF PressStale, EnterStale, Sync, Disown, Watched
<1>4. CASE HoldAgain
  <2>1. Leased(b) => Leased(b)'
    BY <1>4 DEF HoldAgain, Lease, IInv, TypeOK
  <2> QED BY <1>0, <1>4, <2>1, WatchGoesOn DEF HoldAgain
<1>5. ASSUME NEW d \in Bits, Press(d) PROVE Watched(b)'
  <2>1. b = d => b \notin held'
    BY <1>5 DEF Press
  <2>2. b # d /\ Leased(b) => Leased(b)'
    BY <1>5 DEF Press, IInv, TypeOK
  <2>3. rest = <<>> /\ ~Busy(b)
    BY <1>5 DEF Press, Chained, Busy
  <2> QED BY <1>0, <1>5, <2>1, <2>2, <2>3, WatchGoesOn DEF Press, Watched
<1>6. CASE SendPress
  BY <1>0, <1>6, WatchGoesOn DEF SendPress, Chained, Busy
<1>7. ASSUME NEW d \in Bits, Pass(d) PROVE Watched(b)'
  <2>1. Leased(b) => Leased(b)'
    BY <1>7 DEF Pass, IInv, TypeOK
  <2> QED BY <1>0, <1>7, <2>1, WatchGoesOn DEF Pass
<1> QED BY <1>1, <1>2, <1>3, <1>4, <1>5, <1>6, <1>7 DEF Connect, EndSession, Drop, Relink, Retire,
           StartServer, vars

\* An operation that begins has every button it takes the watch from ahead of it.
LEMMA WatchBegins ==
  ASSUME IInv, Chained, NEW b \in Bits, Watched(b),
         \/ ExpireFocus \/ ExpireHold \/ RetryReleases \/ ReleaseAll
         \/ \E d \in Bits : Release(d)
  PROVE  Watched(b)'
<1> USE DEF Undisturbed, Retried, Leased, ownVars, timerVars
<1>0. OpTypes /\ held \subseteq Bits /\ owed \subseteq Bits
  BY DEF IInv, TypeOK, OpTypes
<1>1. ASSUME NEW bs, Begin(bs) PROVE rest = <<>> /\ ~Busy(b)
  BY <1>1 DEF Begin, Chained, Busy
<1>2. ASSUME NEW d \in Bits, Begin(<<d>>) PROVE Busy(d)'
  BY <1>2 DEF Begin, Busy
<1>3. CASE ExpireFocus
  <2>1. Begin(<<"FOCUS">>) /\ "FOCUS" \in Bits
    BY <1>3 DEF ExpireFocus, Bits
  <2>2. b # "FOCUS" /\ Leased(b) => Leased(b)'
    BY <1>3 DEF ExpireFocus, IInv, TypeOK
  <2> QED BY <1>0, <1>1, <1>2, <1>3, <2>1, <2>2, WatchGoesOn DEF ExpireFocus, Watched
<1>4. CASE ExpireHold
  <2>1. CASE Lapsed("SHUTTER")
    <3>1. Begin(<<"SHUTTER">>) /\ "SHUTTER" \in Bits
      BY <1>4, <2>1 DEF ExpireHold, Bits
    <3>2. b # "SHUTTER" /\ Leased(b) => Leased(b)'
      BY <1>4, <2>1 DEF ExpireHold, IInv, TypeOK
    <3> QED BY <1>0, <1>1, <1>2, <1>4, <3>1, <3>2, WatchGoesOn DEF ExpireHold, Watched
  <2>2. CASE ~Lapsed("SHUTTER")
    <3>1. Leased(b) => Leased(b)'
      BY <1>4, <2>2 DEF ExpireHold, Lapsed
    <3>2. (Retried => Retried') /\ UNCHANGED opVars
      BY <1>4, <2>2 DEF ExpireHold
    <3> QED BY <1>0, <1>4, <3>1, <3>2, WatchGoesOn DEF ExpireHold, opVars
  <2> QED BY <2>1, <2>2
<1>5. CASE RetryReleases
  <2>1. CASE b \in owed
    <3>1. Begin(InOrder(owed) \o <<"count">>)
      BY <1>5, <2>1 DEF RetryReleases
    <3> QED BY <1>0, <2>1, <3>1, BeginComes DEF Watched
  <2>2. CASE b \notin owed
    <3>1. (Leased(b) => Leased(b)') /\ UNCHANGED <<held, owed>>
      BY <1>5 DEF RetryReleases
    <3>2. at = "idle"
      BY <1>5 DEF RetryReleases, Begin
    <3>3. ~Busy(b) /\ ~Ahead(b)
      BY <3>2, EmptySeq DEF Busy, Ahead, Chained
    <3> QED BY <2>2, <3>1, <3>3 DEF Watched
  <2> QED BY <2>1, <2>2
<1>6. CASE ReleaseAll
  <2>1. held' = held
    BY <1>6 DEF ReleaseAll
  <2>2. CASE b \in held
    <3>1. Begin(InOrder(held))
      BY <1>6, <2>2 DEF ReleaseAll
    <3> QED BY <1>0, <2>2, <3>1, BeginComes DEF Watched
  <2> QED BY <2>1, <2>2 DEF Watched
<1>7. ASSUME NEW d \in Bits, Release(d) PROVE Watched(b)'
  BY <1>0, <1>1, <1>7, WatchGoesOn DEF Release
<1> QED BY <1>3, <1>4, <1>5, <1>6, <1>7

\* An operation that goes on releases its button, or leaves the watch behind.
LEMMA WatchOperation ==
  ASSUME IInv, Chained, NEW b \in Bits, Watched(b),
         \/ Enter \/ ReleaseStale \/ ReleaseNothing \/ ReleaseOwned \/ ReleaseForeign
         \/ SendRefused \/ SendRelease \/ Count
  PROVE  Watched(b)'
<1> USE DEF Undisturbed, Retried, Leased, ownVars, timerVars
<1>0. OpTypes /\ deadline \in [Bits -> {"none", "ahead", "passed"}] /\ bit \in Bits
  BY DEF IInv, TypeOK, OpTypes
<1>1. ASSUME Disown(session) PROVE Watched(b)'
  BY <1>1 DEF Disown, Watched
<1>2. ASSUME Disarm(bit), b # bit, UNCHANGED <<events, retryTimer>> PROVE Leased(b) => Leased(b)'
  BY <1>0, <1>2 DEF Disarm, Bits
<1>3. CASE Enter
  <2>1. Finish /\ Lease(bit) /\ held' = held \cup {bit} /\ owed' = owed \ {bit}
        /\ UNCHANGED <<retryTimer, events>> /\ ~Busy(b)
    BY <1>3 DEF Enter, Busy
  <2>2. CASE b = bit
    <3>1. Leased(b)'
      BY <1>0, <2>1, <2>2 DEF Lease
    <3> QED BY <2>1, <2>2, <3>1 DEF Watched
  <2>3. CASE b # bit
    <3>1. Leased(b) => Leased(b)'
      BY <1>0, <2>1, <2>3 DEF Lease
    <3> QED BY <1>0, <2>1, <2>3, <3>1, WatchGoesOn
  <2> QED BY <2>2, <2>3
<1>4. CASE ReleaseStale
  BY <1>1, <1>4 DEF ReleaseStale
<1>5. CASE ReleaseNothing
  <2>1. /\ Finish /\ Disarm(bit) /\ held' = held \ {bit} /\ owed' = owed \ {bit}
        /\ UNCHANGED <<retryTimer, events>>
    BY <1>5 DEF ReleaseNothing
  <2>2. CASE b = bit
    BY <2>1, <2>2 DEF Watched
  <2>3. CASE b # bit
    BY <1>0, <1>2, <2>1, <2>3, WatchGoesOn DEF Busy
  <2> QED BY <2>2, <2>3
<1>6. CASE ReleaseOwned
  <2>1. /\ at' = "send" /\ owned' /\ bit' = bit /\ rest' = rest /\ Disarm(bit)
        /\ held' = held /\ owed' = owed \cup {bit} /\ UNCHANGED <<retryTimer, events>>
    BY <1>6 DEF ReleaseOwned
  <2>2. CASE b = bit
    BY <2>1, <2>2 DEF Watched, Busy
  <2>3. CASE b # bit
    BY <1>2, <2>1, <2>3 DEF Watched, Busy, Ahead
  <2> QED BY <2>2, <2>3
<1>7. CASE ReleaseForeign
  <2>1. /\ rest' = rest /\ bit' = bit /\ Disarm(bit) /\ bit \notin held
        /\ UNCHANGED <<held, owed, retryTimer, events>>
    BY <1>7 DEF ReleaseForeign, Owns
  <2>2. CASE b = bit
    BY <2>1, <2>2 DEF Watched
  <2>3. CASE b # bit
    BY <1>2, <2>1, <2>3 DEF Watched, Busy, Ahead
  <2> QED BY <2>2, <2>3
<1>8. CASE SendRefused
  <2>1. CASE Stale(session)
    BY <1>1, <1>8, <2>1 DEF SendRefused
  <2>2. CASE ~Stale(session)
    <3>1. ~Busy(b) \/ b \notin held
      BY <1>8, <2>2 DEF SendRefused, Busy, Chained, Stale
    <3>2. Finish /\ UNCHANGED <<held, owed, deadline, holdTimer, retryTimer, events>>
      BY <1>8, <2>2 DEF SendRefused
    <3> QED BY <1>0, <3>1, <3>2, WatchGoesOn DEF Watched
  <2> QED BY <2>1, <2>2
<1>9. CASE SendRelease
  <2>1. /\ Finish /\ at = "send" /\ UNCHANGED <<deadline, holdTimer, events>>
        /\ \/ held' = held \ {bit} /\ owed' = owed \ {bit} /\ retryTimer' = retryTimer
           \/ retryTimer' = (retryTimer \/ owned) /\ UNCHANGED <<held, owed>>
    BY <1>9 DEF SendRelease
  <2>2. CASE Busy(b)
    <3>1. b = bit /\ owned /\ b \in owed
      BY <2>1, <2>2 DEF Busy, Chained
    <3> QED BY <2>1, <3>1 DEF Watched
  <2>3. CASE ~Busy(b)
    <3>1. CASE b = bit /\ b \notin held'
      BY <3>1 DEF Watched
    <3>2. CASE held' = held \ {bit} /\ owed' = owed \ {bit} /\ retryTimer' = retryTimer /\ b # bit
      <4>1. Undisturbed(b)
        BY <2>1, <3>2
      <4> QED BY <1>0, <2>1, <2>3, <4>1, WatchGoesOn
    <3>3. CASE retryTimer' = (retryTimer \/ owned) /\ UNCHANGED <<held, owed>>
      <4>1. Undisturbed(b)
        BY <2>1, <3>3
      <4> QED BY <1>0, <2>1, <2>3, <4>1, WatchGoesOn
    <3> QED BY <2>1, <3>1, <3>2, <3>3
  <2> QED BY <2>2, <2>3
<1>10. CASE Count
  <2>1. CASE targets = {}
    BY <1>10, <2>1 DEF Count, Watched
  <2>2. CASE targets # {}
    BY <1>0, <1>10, <2>2, WatchGoesOn DEF Count, Busy
  <2> QED BY <2>1, <2>2
<1> QED BY <1>3, <1>4, <1>5, <1>6, <1>7, <1>8, <1>9, <1>10

LEMMA WatchInduct == Spec => [](Chained /\ HeldIsWatched)
<1>1. Init => Chained /\ HeldIsWatched
  BY DEF Init, Chained, HeldIsWatched, Watched
<1>2. IInv /\ Chained /\ HeldIsWatched /\ [Next]_vars => (Chained /\ HeldIsWatched)'
  <2> SUFFICES ASSUME IInv, Chained, HeldIsWatched, [Next]_vars
               PROVE  Chained' /\ HeldIsWatched'
    OBVIOUS
  <2>1. ASSUME NEW b \in Bits PROVE Watched(b)'
    <3>1. Watched(b)
      BY DEF HeldIsWatched
    <3> QED BY <3>1, WatchOthers, WatchBegins, WatchOperation
            DEF Next, GoOn, Supervisor, Handler, Timers
  <2> QED BY <2>1, ChainedStep DEF HeldIsWatched
<1> QED BY <1>1, <1>2, Invariance, PTL DEF Spec

\* Every field keeps its type.
THEOREM TypesHold == Spec => []TypeOK
<1>1. IInv => TypeOK
  BY DEF IInv
<1> QED BY <1>1, Invariance, PTL

\* A camera that took a press and no release yet is owed one.
THEOREM NobodyIsForgotten == Spec => []NoneForgotten
<1>1. IInv => NoneForgotten
  BY DEF IInv
<1> QED BY <1>1, Invariance, PTL

\* A release that is owed reaches no camera that did not take the press.
THEOREM ReleasesAreOwed == Spec => []OwedOnly
<1>1. IInv => OwedOnly
  BY DEF IInv
<1> QED BY <1>1, Invariance, PTL

\* No wake-up is lost: whatever timers fire and operations interleave, a button
\* that counts as held has an operation, a retry or a watched lease to end it.
THEOREM WakesAreKept == Spec => []HeldIsWatched
<1> QED BY WatchInduct, PTL
================================================================================
