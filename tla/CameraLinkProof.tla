--------------------------- MODULE CameraLinkProof ---------------------------
(***************************************************************************)
(* What holds of a camera's link and its pairing prompt for any size of    *)
(* the client pool and any number of links, requests and targets.          *)
(***************************************************************************)
EXTENDS CameraLink, TLAPS

(***************************************************************************)
(* The inductive invariant.                                                *)
(***************************************************************************)
\* connect() keeps its client for as long as it is inside.
Held == at \in Inside => mClient \in Clients

\* A connected camera is still the client's callback; where connect() allocates
\* or gives up a client, m_Connected is clear.
Alive ==
  /\ connected => mClient \in Clients /\ Linked(mClient) /\ pool[mClient].attached
  /\ at \in {"create", "detach"} => ~connected

\* Once the disconnect callback ran, the camera does not count on that client.
Ending ==
  hostStep = "ended" => host \in Clients /\ Linked(host) /\ (connected => host # mClient)

\* A client with no link yet delivers its callbacks to the camera.
Fresh == \A c \in Clients : pool[c].status = "new" => pool[c].attached

\* A pending request carries the latest token, and its slot is not used again
\* before connect() has cleared it.
Current ==
  Pending =>
    /\ request.token = token
    /\ pool[request.handle].status # "new"
    /\ Linked(request.handle) => pool[request.handle].link = request.link

\* A dialog shows the code its buttons answer for, if that is still pending.
Shown ==
  dialog # NoDialog =>
    /\ dialog.token <= token
    /\ ui = "rest" /\ Pending /\ dialog.token = token => dialog.shown = token

\* The client an answer uses is the live one it took, and cannot end meanwhile.
Using ==
  ui = "using" =>
    /\ answer.of # NoRequest
    /\ answer.accept => dialog.shown = answer.of.token
    /\ answer.client # NoClient =>
         /\ Linked(answer.client) /\ pool[answer.client].attached
         /\ pool[answer.client].link = answer.link
         /\ hostStep = "ended" => host # answer.client
         /\ answer.client = answer.of.handle => answer.link = answer.of.link

LinkInv == Held /\ Alive /\ Ending /\ Fresh
IInv    == TypeOK /\ LinkInv /\ Current /\ Shown /\ Using

-----------------------------------------------------------------------------
(***************************************************************************)
(* What NimBLE's calls do to the pool.                                     *)
(***************************************************************************)
\* One client of the pool.
Entries == [status : {"free", "new", "up", "closing", "down"}, selfDelete : BOOLEAN,
            attached : BOOLEAN, link : 0..MaxLinks]

\* NimBLEClient::disconnect() changes a client's status only, and no link ends yet.
LEMMA TerminatedKeeps ==
  ASSUME pool \in Pools, NEW c \in Clients
  PROVE  /\ Terminated(c) \in Pools
         /\ \A d \in Clients :
              /\ Terminated(c)[d].status \in {"up", "closing"} <=> Linked(d)
              /\ Terminated(c)[d].status = "new" => pool[d].status = "new"
              /\ Terminated(c)[d].attached = pool[d].attached
              /\ Terminated(c)[d].link = pool[d].link
  BY DEF Pools, Terminated, Linked

\* Camera's detach and NimBLEDevice::deleteClient() free a client with no link and
\* leave one with a link to its event; other clients are left alone.
LEMMA DeletedKeeps ==
  ASSUME pool \in Pools, NEW c \in Clients
  PROVE  LET q == Deleted(Detached(c), c)
         IN /\ q \in Pools
            /\ \A d \in Clients :
                 /\ q[d].status \in {"up", "closing"} <=> Linked(d)
                 /\ q[d].status = "new" => d # c /\ pool[d].status = "new"
                 /\ d # c => q[d] = pool[d]
                 /\ Linked(d) => q[d].link = pool[d].link
<1> DEFINE p == Detached(c)
           q == Deleted(p, c)
           Good == /\ q \in Pools
                   /\ \A d \in Clients :
                        /\ q[d].status \in {"up", "closing"} <=> Linked(d)
                        /\ q[d].status = "new" => d # c /\ pool[d].status = "new"
                        /\ d # c => q[d] = pool[d]
                        /\ Linked(d) => q[d].link = pool[d].link
<1> SUFFICES Good
  OBVIOUS
<1>0. p[c] = [pool[c] EXCEPT !.attached = FALSE] /\ p = [pool EXCEPT ![c] = p[c]]
  BY DEF Pools, Detached
<1>1. p \in Pools
  <2>1. p[c] \in Entries
    BY <1>0 DEF Pools, Entries
  <2> QED BY <1>0, <2>1 DEF Pools, Entries
<1>2. p[c].status = pool[c].status /\ p[c].link = pool[c].link
      /\ \A d \in Clients \ {c} : p[d] = pool[d]
  BY <1>0 DEF Pools
<1>3. Free \in Entries
  BY BoundAssumption DEF Free, Entries
<1>4. CASE Linked(c)
  <2> DEFINE r == [p[c] EXCEPT !.status = "closing", !.selfDelete = TRUE]
  <2>1. q = [p EXCEPT ![c] = r]
    BY <1>1, <1>2, <1>4 DEF Deleted, Linked, Pools
  <2>2. r.status = "closing" /\ r.link = p[c].link
        /\ r \in Entries
    BY <1>1 DEF Pools, Entries
  <2> HIDE DEF r, p, q
  <2>3. q \in Pools /\ q[c] = r /\ \A d \in Clients \ {c} : q[d] = p[d]
    BY <2>1, <2>2, <1>1 DEF Pools, Entries
  <2> QED BY <2>2, <2>3, <1>2, <1>4 DEF Linked
<1>5. CASE ~Linked(c)
  <2>1. q = [p EXCEPT ![c] = Free]
    BY <1>1, <1>2, <1>5 DEF Deleted, Linked, Pools
  <2> HIDE DEF p, q
  <2>2. q \in Pools /\ q[c] = Free /\ \A d \in Clients \ {c} : q[d] = p[d]
    BY <2>1, <1>3, <1>1 DEF Pools, Entries
  <2> QED BY <2>2, <1>2, <1>5 DEF Linked, Free
<1> QED BY <1>4, <1>5

-----------------------------------------------------------------------------
(***************************************************************************)
(* Types, one group of the variables at a time.                            *)
(***************************************************************************)
ControlType ==
  /\ at \in Inside \cup {"rest", "create", "reclaim"}
  /\ session \in BOOLEAN
  /\ told \in Nat /\ stopped \in Nat /\ told + stopped <= MaxDraining
  /\ at = "reclaim" => stopped > 0

CameraType ==
  /\ connected \in BOOLEAN /\ armed \in BOOLEAN
  /\ mClient \in Clients \cup {NoClient} /\ cancel \in Clients \cup {NoClient}

PromptType == cancelled \in BOOLEAN /\ request \in Requests /\ token \in 0..MaxRequests

NimbleType ==
  /\ pool \in Pools /\ links \in 0..MaxLinks
  /\ host \in Clients \cup {NoClient} /\ hostStep \in {"rest", "ended", "refuse"}

Dialogs == [type : Types \cup {"none"}, token : 0..MaxRequests, shown : 0..MaxRequests]
Replies == [token : 0..MaxRequests, accept : BOOLEAN, client : Clients \cup {NoClient},
            link : 0..MaxLinks, of : Requests]

UIType ==
  /\ ui \in {"rest", "latest", "cancel", "token", "code", "using"}
  /\ dialog \in Dialogs /\ answer \in Replies
  /\ asked \in BOOLEAN /\ polling \in BOOLEAN

LEMMA Bounds == /\ PoolSize \in Nat /\ MaxLinks \in Nat
                /\ MaxRequests \in Nat /\ MaxDraining \in Nat
BY BoundAssumption

LEMMA TypeParts ==
  /\ TypeOK <=> ControlType /\ CameraType /\ PromptType /\ NimbleType /\ UIType
  /\ TypeOK' <=> ControlType' /\ CameraType' /\ PromptType' /\ NimbleType' /\ UIType'
BY DEF TypeOK, ControlType, CameraType, PromptType, NimbleType, UIType, Dialogs, Replies

\* The values a variable starts with or is reset to have its type.
LEMMA Resets ==
  /\ NoRequest \in Requests /\ NoDialog \in Dialogs /\ NoAnswer \in Replies
  /\ [c \in Clients |-> Free] \in Pools
BY Bounds
   DEF NoRequest, Requests, NoDialog, Dialogs, NoAnswer, Replies, Free, Pools, NoClient

LEMMA InitHolds == Init => IInv
<1> SUFFICES ASSUME Init PROVE IInv
  OBVIOUS
<1>1. TypeOK
  <2>1. ControlType
    <3>1. at = "rest" /\ session \in BOOLEAN
      BY DEF Init
    <3>2. told \in Nat /\ stopped \in Nat /\ told + stopped <= MaxDraining
      BY Bounds DEF Init
    <3> QED BY <3>1, <3>2 DEF ControlType
  <2>2. CameraType
    BY DEF Init, CameraType
  <2>3. PromptType
    <3>1. cancelled \in BOOLEAN /\ request \in Requests
      BY Resets DEF Init
    <3>2. token \in 0..MaxRequests
      BY Bounds DEF Init
    <3> QED BY <3>1, <3>2 DEF PromptType
  <2>5. NimbleType
    BY Resets, Bounds DEF Init, NimbleType
  <2>4. UIType
    BY Resets DEF Init, UIType
  <2> QED BY <2>1, <2>2, <2>3, <2>4, <2>5, TypeParts
<1>2. LinkInv /\ Current /\ Shown /\ Using
  BY DEF Init, LinkInv, Held, Alive, Ending, Fresh, Current, Shown, Using, Inside, Pending, Free
<1> QED BY <1>1, <1>2 DEF IInv

\* The three ways a prompt is answered.
Answering == CancelLatest \/ Lapse \/ \E accept \in BOOLEAN : Press(accept)

LEMMA AnsweringIs ==
  ASSUME UIType, Answering
  PROVE  \E t \in 0..MaxRequests, a \in BOOLEAN :
           /\ Answer(t, a)
           /\ a => HasPrompt /\ t = dialog.token
BY DEF UIType, Dialogs, Replies, Answering, CancelLatest, Lapse, Press

LEMMA ControlTypeStep == ControlType /\ [Next]_vars => ControlType'
<1> SUFFICES ASSUME ControlType, [Next]_vars PROVE ControlType'
  OBVIOUS
<1> USE DEF ControlType, Inside
<1>1. CASE Choose \/ Create \/ ConnectReturns \/ HandOver \/ TakeDown
  BY <1>1 DEF Choose, Create, ConnectReturns, HandOver, TakeDown
<1>2. CASE CheckEvent \/ ArmDelete \/ ClearConnected \/ Detach
  BY <1>2 DEF CheckEvent, ArmDelete, ClearConnected, Detach
<1>3. CASE RetireDeclined \/ AddActive \/ Teardown \/ Disconnect
  <2>1. at' = at /\ session' \in BOOLEAN
    BY <1>3 DEF RetireDeclined, AddActive, Teardown, Disconnect
  <2>2. told' \in Nat /\ stopped' \in Nat /\ told' + stopped' <= MaxDraining
        /\ stopped <= stopped'
    <3>1. CASE RetireDeclined \/ AddActive \/ Teardown
      BY <3>1, Bounds DEF RetireDeclined, AddActive, Teardown
    <3>2. CASE Disconnect
      BY <3>2, Bounds DEF Disconnect
    <3> QED BY <1>3, <3>1, <3>2
  <2> QED BY <2>1, <2>2
<1>6. CASE Reap \/ Reclaim
  <2>1. CASE Reap
    BY <2>1, Bounds DEF Reap
  <2>2. CASE Reclaim
    BY <2>2, Bounds DEF Reclaim
  <2> QED BY <1>6, <2>1, <2>2
<1>4. CASE UNCHANGED controlVars
  BY <1>4 DEF controlVars
<1>5. AbortBlockingConnect \/ Host \/ Prompt \/ (\E accept \in BOOLEAN : Press(accept))
      \/ UNCHANGED vars => UNCHANGED controlVars
  BY DEF AbortBlockingConnect, Host, LinkUp, OnDisconnect, Publish, EndDisconnect,
         RefuseUnshown, OnAuthenticationComplete, Expire, Prompt, Serve, Poll, ReadToken,
         ReadCode, ReadLatest, CancelLatest, CloseStale, Lapse, UseClient, Press, Answer, vars
<1> QED BY <1>1, <1>2, <1>3, <1>4, <1>5, <1>6 DEF Next, Connecting, Session

LEMMA CameraTypeStep == CameraType /\ [Next]_vars => CameraType'
<1> SUFFICES ASSUME CameraType, [Next]_vars PROVE CameraType'
  OBVIOUS
<1> USE DEF CameraType
<1>1. CASE Create \/ ConnectReturns \/ CheckEvent \/ ClearConnected \/ Detach
  BY <1>1 DEF Create, ConnectReturns, CheckEvent, ClearConnected, Detach
<1>2. CASE Reclaim \/ AddActive
  BY <1>2 DEF Reclaim, AddActive, cameraVars
<1>3. ASSUME NEW c \in Clients, LinkUp(c) \/ OnDisconnect(c) PROVE CameraType'
  BY <1>3 DEF LinkUp, OnDisconnect
<1>4. CASE UNCHANGED cameraVars
  BY <1>4 DEF cameraVars
<1>5. Choose \/ HandOver \/ TakeDown \/ ArmDelete \/ RetireDeclined \/ Reap \/ Teardown
      \/ AbortBlockingConnect \/ Disconnect \/ Prompt \/ UNCHANGED vars
      \/ (\E accept \in BOOLEAN : Press(accept))
      => UNCHANGED cameraVars
  BY DEF Choose, HandOver, TakeDown, ArmDelete, RetireDeclined, Reap, Teardown,
         AbortBlockingConnect, Disconnect, Prompt, Serve, Poll, ReadToken,
         ReadCode, ReadLatest, CancelLatest, CloseStale, Lapse, UseClient, Press, Answer, vars
<1>6. EndDisconnect \/ RefuseUnshown \/ OnAuthenticationComplete \/ Expire
      \/ (\E c \in Clients, type \in Types : Publish(c, type))
      => UNCHANGED cameraVars
  BY DEF EndDisconnect, RefuseUnshown, OnAuthenticationComplete, Expire, Publish
<1> QED BY <1>1, <1>2, <1>3, <1>4, <1>5, <1>6 DEF Next, Connecting, Session, Host

LEMMA PromptTypeStep == TypeOK /\ [Next]_vars => PromptType'
<1> SUFFICES ASSUME ControlType, CameraType, PromptType, NimbleType, UIType, [Next]_vars
             PROVE  PromptType'
  BY TypeParts
<1> USE DEF PromptType
<1>1. ASSUME NEW b \in BOOLEAN, ClearRequest(b) PROVE PromptType'
  BY <1>1, Resets DEF ClearRequest
<1>2. CASE UNCHANGED promptVars
  BY <1>2 DEF promptVars
<1>3. CASE Create \/ OnAuthenticationComplete
  BY <1>1, <1>3 DEF Create, OnAuthenticationComplete
<1>4. CASE Reap \/ Reclaim
  BY <1>1, <1>2, <1>4 DEF Reap, Reclaim, promptVars
<1>5. CASE RefuseUnshown \/ \E c \in Clients : OnDisconnect(c)
  BY <1>1, <1>2, <1>5 DEF RefuseUnshown, OnDisconnect, promptVars
<1>6. CASE AddActive
  BY <1>6 DEF AddActive
<1>7. CASE Expire
  BY <1>7, Resets DEF Expire, Requests, Pending
<1>8. ASSUME NEW c \in Clients, NEW type \in Types, Publish(c, type) PROVE PromptType'
  <2>1. pool[c].link \in 0..MaxLinks
    BY <1>8 DEF Publish, NimbleType, Pools
  <2> QED BY <1>8, <2>1, Bounds DEF Publish, Requests
<1>9. CASE Answering
  <2> PICK t \in 0..MaxRequests, a \in BOOLEAN : Answer(t, a)
    BY <1>9, AnsweringIs
  <2> QED BY Resets DEF Answer
<1>10. Choose \/ HandOver \/ TakeDown \/ ArmDelete \/ RetireDeclined \/ Teardown
      \/ AbortBlockingConnect \/ Disconnect \/ ConnectReturns \/ CheckEvent \/ ClearConnected
      \/ Detach \/ UNCHANGED vars
      => UNCHANGED promptVars
  BY DEF Choose, HandOver, TakeDown, ArmDelete, RetireDeclined, Teardown,
         AbortBlockingConnect, Disconnect, ConnectReturns, CheckEvent, ClearConnected, Detach, vars
<1>11. EndDisconnect \/ (\E c \in Clients : LinkUp(c)) \/ Serve \/ Poll \/ ReadToken
      \/ ReadCode \/ ReadLatest \/ CloseStale \/ UseClient
      => UNCHANGED promptVars
  BY DEF EndDisconnect, LinkUp, Serve, Poll, ReadToken, ReadCode, ReadLatest, CloseStale, UseClient
<1> QED
  BY <1>2, <1>3, <1>4, <1>5, <1>6, <1>7, <1>8, <1>9, <1>10, <1>11
     DEF Next, Connecting, Session, Host, Prompt, Answering

LEMMA NimbleTypeStep == TypeOK /\ LinkInv /\ Using /\ [Next]_vars => NimbleType'
<1> SUFFICES ASSUME ControlType, CameraType, PromptType, NimbleType, UIType, LinkInv, Using,
                    [Next]_vars
             PROVE  NimbleType'
  BY TypeParts
<1> USE DEF NimbleType
<1>1. ASSUME pool' \in Pools, UNCHANGED <<host, hostStep, links>> PROVE NimbleType'
  BY <1>1
<1>2. CASE Create
  <2>1. ASSUME NEW c \in Clients,
               pool' = [pool EXCEPT ![c] = [Free EXCEPT !.status = "new", !.attached = TRUE]]
        PROVE  pool' \in Pools
    <3>1. [Free EXCEPT !.status = "new", !.attached = TRUE] \in Entries
      <4>1. 0 \in 0..MaxLinks
        BY Bounds
      <4>2. Free \in Entries
        BY <4>1 DEF Free, Entries
      <4> QED BY <4>2 DEF Entries
    <3> QED BY <2>1, <3>1 DEF Pools, Entries
  <2> QED BY <1>1, <1>2, <2>1 DEF Create
<1>3. CASE HandOver \/ ArmDelete
  <2>1. mClient \in Clients
    BY <1>3 DEF HandOver, ArmDelete, LinkInv, Held, Inside
  <2>2. pool' \in Pools
    BY <1>3, <2>1 DEF HandOver, ArmDelete, Pools
  <2> QED BY <1>1, <1>3, <2>2 DEF HandOver, ArmDelete
<1>4. CASE TakeDown \/ Disconnect
  <2>1. connected => mClient \in Clients
    BY DEF LinkInv, Alive
  <2> QED BY <1>1, <1>4, <2>1, TerminatedKeeps DEF TakeDown, Disconnect
<1>5. CASE AbortBlockingConnect
  BY <1>1, <1>5, TerminatedKeeps DEF AbortBlockingConnect, CameraType
<1>6. CASE Detach
  <2>1. mClient \in Clients
    BY <1>6 DEF Detach, LinkInv, Held, Inside
  <2>2. Deleted(Detached(mClient), mClient) \in Pools
    BY <2>1, DeletedKeeps
  <2> QED BY <1>1, <1>6, <2>2 DEF Detach
<1>7. CASE Reclaim
  <2>1. mClient # NoClient => Deleted(Detached(mClient), mClient) \in Pools
    BY DeletedKeeps DEF CameraType
  <2> QED BY <1>1, <1>7, <2>1 DEF Reclaim
<1>8. ASSUME NEW c \in Clients, LinkUp(c) PROVE NimbleType'
  <2>1. links' \in 0..MaxLinks /\ links' = links + 1
    BY <1>8, Bounds DEF LinkUp
  <2>2. pool' \in Pools
    <3> DEFINE e == [pool[c] EXCEPT !.status = "up", !.link = links + 1]
    <3>1. pool[c] \in Entries
      BY DEF Pools, Entries
    <3>2. e \in Entries
      BY <2>1, <3>1 DEF Entries
    <3>3. pool' = [pool EXCEPT ![c] = e]
      BY <1>8 DEF LinkUp, Pools
    <3> HIDE DEF e
    <3> QED BY <3>2, <3>3 DEF Pools, Entries
  <2> QED BY <1>8, <2>1, <2>2 DEF LinkUp
<1>9. ASSUME NEW c \in Clients, OnDisconnect(c) \/ \E type \in Types : Publish(c, type)
      PROVE  NimbleType'
  BY <1>9 DEF OnDisconnect, Publish
<1>10. CASE EndDisconnect
  <2>1. host \in Clients
    BY <1>10 DEF EndDisconnect, LinkInv, Ending
  <2>2. pool' \in Pools
    BY <1>10, <2>1, Bounds DEF EndDisconnect, Pools, Free
  <2> QED BY <1>10, <2>2 DEF EndDisconnect
<1>11. CASE RefuseUnshown
  <2>1. connected => mClient \in Clients
    BY DEF LinkInv, Alive
  <2>2. pool' \in Pools
    BY <1>11, <2>1, TerminatedKeeps DEF RefuseUnshown
  <2> QED BY <1>11, <2>2 DEF RefuseUnshown
<1>12. CASE UseClient
  <2>1. Drops => answer.client \in Clients
    BY DEF Drops, UIType, Replies
  <2> QED BY <1>1, <1>12, <2>1, TerminatedKeeps DEF UseClient
<1>13. CASE UNCHANGED nimbleVars
  BY <1>13 DEF nimbleVars
<1>14. Choose \/ ConnectReturns \/ CheckEvent \/ ClearConnected \/ RetireDeclined \/ Reap
      \/ AddActive \/ Teardown \/ OnAuthenticationComplete \/ Expire \/ UNCHANGED vars
      => UNCHANGED nimbleVars
  BY DEF Choose, ConnectReturns, CheckEvent, ClearConnected, RetireDeclined, Reap, AddActive,
         Teardown, OnAuthenticationComplete, Expire, vars
<1>15. Serve \/ Poll \/ ReadToken \/ ReadCode \/ ReadLatest \/ CancelLatest \/ CloseStale
      \/ Lapse \/ (\E accept \in BOOLEAN : Press(accept))
      => UNCHANGED nimbleVars
  BY DEF Serve, Poll, ReadToken, ReadCode, ReadLatest, CancelLatest, CloseStale, Lapse, Press,
         Answer
<1> QED
  BY <1>2, <1>3, <1>4, <1>5, <1>6, <1>7, <1>8, <1>9, <1>10, <1>11, <1>12, <1>13, <1>14, <1>15
     DEF Next, Connecting, Session, Host, Prompt

LEMMA UITypeStep == TypeOK /\ LinkInv /\ [Next]_vars => UIType'
<1> SUFFICES ASSUME ControlType, CameraType, PromptType, NimbleType, UIType, LinkInv, [Next]_vars
             PROVE  UIType'
  BY TypeParts
<1> USE DEF UIType
<1>1. ASSUME CloseDialog PROVE dialog' \in Dialogs /\ asked' \in BOOLEAN /\ polling' \in BOOLEAN
  BY <1>1, Resets DEF CloseDialog
<1>2. ASSUME ShowPrompt, Pending PROVE dialog' \in Dialogs /\ ui' \in {"latest", "token"}
  BY <1>2, Resets DEF ShowPrompt, PromptType, Requests, Pending, Dialogs
<1>3. CASE Serve \/ Poll
  BY <1>2, <1>3 DEF Serve, Poll
<1>4. CASE ReadToken \/ ReadCode
  <2>1. dialog' \in Dialogs
    BY <1>4, Bounds DEF ReadToken, ReadCode, Dialogs, PromptType, Requests, NoRequest
  <2> QED BY <1>4, <2>1 DEF ReadToken, ReadCode, timerVars
<1>5. CASE ReadLatest
  <2>1. answer' \in Replies
    BY <1>5, Resets DEF ReadLatest, Replies, PromptType
  <2> QED BY <1>5, <2>1 DEF ReadLatest, timerVars
<1>6. CASE CloseStale
  BY <1>1, <1>6 DEF CloseStale
<1>7. CASE Answering
  <2> PICK t \in 0..MaxRequests, a \in BOOLEAN : Answer(t, a)
    BY <1>7, AnsweringIs
  <2>1. connected => pool[mClient].link \in 0..MaxLinks
    BY DEF LinkInv, Alive, NimbleType, Pools
  <2>2. CASE Answers(t)
    <3>1. answer' \in Replies
      <4> DEFINE client == IF connected THEN mClient ELSE NoClient
                 link   == IF connected THEN pool[mClient].link ELSE 0
                 accept == a /\ ~request.due
      <4>1. link \in 0..MaxLinks
        BY <2>1, Bounds
      <4>2. client \in Clients \cup {NoClient} /\ accept \in BOOLEAN /\ request \in Requests
        BY DEF CameraType, PromptType
      <4>3. answer' = [token |-> t, accept |-> accept, of |-> request, client |-> client,
                       link |-> link]
        BY <2>2 DEF Answer
      <4> HIDE DEF client, link, accept
      <4> QED BY <4>1, <4>2, <4>3 DEF Replies
    <3> QED BY <2>2, <3>1 DEF Answer, timerVars
  <2>3. CASE ~Answers(t)
    BY <1>1, <2>3, Resets DEF Answer
  <2> QED BY <2>2, <2>3
<1>8. CASE UseClient
  BY <1>1, <1>8, Resets DEF UseClient
<1>9. ASSUME NEW c \in Clients, NEW type \in Types, Publish(c, type) PROVE UIType'
  BY <1>9 DEF Publish
<1>10. CASE UNCHANGED uiVars
  BY <1>10 DEF uiVars, timerVars
<1>11. Connecting \/ RetireDeclined \/ Reap \/ Reclaim \/ Session \/ Disconnect \/ UNCHANGED vars
      => UNCHANGED uiVars
  BY DEF Connecting, Choose, Create, ConnectReturns, HandOver, TakeDown, CheckEvent, ArmDelete,
         ClearConnected, Detach, RetireDeclined, Reap, Reclaim, Session, AddActive, Teardown,
         AbortBlockingConnect, Disconnect, vars
<1>12. EndDisconnect \/ RefuseUnshown \/ OnAuthenticationComplete \/ Expire
      \/ (\E c \in Clients : LinkUp(c) \/ OnDisconnect(c))
      => UNCHANGED uiVars
  BY DEF EndDisconnect, RefuseUnshown, OnAuthenticationComplete, Expire, LinkUp, OnDisconnect
<1> QED
  BY <1>3, <1>4, <1>5, <1>6, <1>7, <1>8, <1>9, <1>10, <1>11, <1>12
     DEF Next, Host, Prompt, Answering

LEMMA TypeStep == IInv /\ [Next]_vars => TypeOK'
BY TypeParts, ControlTypeStep, CameraTypeStep, PromptTypeStep, NimbleTypeStep, UITypeStep DEF IInv

-----------------------------------------------------------------------------
(***************************************************************************)
(* The pool: connect() allocates, a link comes up, an event ends.  Every   *)
(* other step leaves each client its link, and takes the camera out of the *)
(* callbacks only with no answer in progress and no camera connected.      *)
(***************************************************************************)
Calm ==
  \A d \in Clients :
    /\ Linked(d)' <=> Linked(d)
    /\ Linked(d) => pool'[d].link = pool[d].link
    /\ pool'[d].status = "new" => pool[d].status = "new" /\ pool'[d].attached
    /\ pool'[d].attached = pool[d].attached \/ (~Locked /\ ~connected')

LEMMA TerminatedCalm ==
  ASSUME TypeOK, LinkInv, NEW c \in Clients, pool' = Terminated(c)
  PROVE  Calm
BY TerminatedKeeps DEF TypeOK, LinkInv, Fresh, Calm, Linked

LEMMA DeletedCalm ==
  ASSUME TypeOK, LinkInv, NEW c \in Clients, pool' = Deleted(Detached(c), c), ~Locked, ~connected'
  PROVE  Calm
BY DeletedKeeps DEF TypeOK, LinkInv, Fresh, Calm, Linked

LEMMA PoolStep ==
  ASSUME TypeOK, LinkInv, Using, [Next]_vars
  PROVE  Create \/ (\E c \in Clients : LinkUp(c)) \/ EndDisconnect \/ Calm
<1>1. CASE UNCHANGED pool
  BY <1>1 DEF Calm, LinkInv, Fresh, Linked
<1>2. connected => mClient \in Clients
  BY DEF LinkInv, Alive
<1>3. CASE HandOver \/ ArmDelete
  <2>1. mClient \in Clients
    BY <1>3 DEF HandOver, ArmDelete, LinkInv, Held, Inside
  <2>2. \A d \in Clients : /\ pool'[d].status = pool[d].status /\ pool'[d].link = pool[d].link
                           /\ pool'[d].attached = pool[d].attached
    BY <1>3, <2>1 DEF HandOver, ArmDelete, TypeOK, Pools
  <2> QED BY <2>2 DEF Calm, LinkInv, Fresh, Linked
<1>4. CASE TakeDown \/ Disconnect \/ RefuseUnshown
  BY <1>1, <1>2, <1>4, TerminatedCalm DEF TakeDown, Disconnect, RefuseUnshown
<1>5. CASE AbortBlockingConnect
  BY <1>5, TerminatedCalm DEF AbortBlockingConnect, TypeOK
<1>6. CASE Detach
  <2>1. mClient \in Clients /\ ~connected' /\ ~Locked
    BY <1>6 DEF Detach, LinkInv, Held, Alive, Inside
  <2> QED BY <1>1, <1>6, <2>1, DeletedCalm DEF Detach
<1>7. CASE Reclaim
  <2>1. CASE mClient # NoClient
    BY <1>7, <2>1, DeletedCalm DEF Reclaim, TypeOK
  <2> QED BY <1>1, <1>7, <2>1 DEF Reclaim
<1>8. CASE UseClient
  <2>1. Drops => answer.client \in Clients
    BY DEF Drops, TypeOK
  <2> QED BY <1>1, <1>8, <2>1, TerminatedCalm DEF UseClient
<1>9. Choose \/ ConnectReturns \/ CheckEvent \/ ClearConnected \/ RetireDeclined \/ Reap
      \/ AddActive \/ Teardown \/ OnAuthenticationComplete \/ Expire \/ UNCHANGED vars
      \/ (\E c \in Clients : OnDisconnect(c) \/ \E type \in Types : Publish(c, type))
      => UNCHANGED pool
  BY DEF Choose, ConnectReturns, CheckEvent, ClearConnected, RetireDeclined, Reap, AddActive,
         Teardown, OnAuthenticationComplete, Expire, OnDisconnect, Publish, vars, nimbleVars
<1>10. Serve \/ Poll \/ ReadToken \/ ReadCode \/ ReadLatest \/ CancelLatest \/ CloseStale
      \/ Lapse \/ (\E accept \in BOOLEAN : Press(accept))
      => UNCHANGED pool
  BY DEF Serve, Poll, ReadToken, ReadCode, ReadLatest, CancelLatest, CloseStale, Lapse, Press,
         Answer, nimbleVars
<1> QED
  BY <1>1, <1>3, <1>4, <1>5, <1>6, <1>7, <1>8, <1>9, <1>10
     DEF Next, Connecting, Session, Host, Prompt

\* What the three other steps do.
LEMMA CreateIs ==
  ASSUME TypeOK, LinkInv, Create
  PROVE  /\ ~connected' /\ at' \in {"attempt", "rest"} /\ request' = NoRequest /\ ~Locked
         /\ at' = "attempt" => mClient' \in Clients
         /\ \A d \in Clients : \/ pool'[d] = pool[d]
                               \/ ~Linked(d) /\ pool'[d].attached
<1>1. /\ ~connected' /\ at' \in {"attempt", "rest"} /\ request' = NoRequest /\ ~Locked
      /\ at' = "attempt" => mClient' \in Clients
  BY DEF LinkInv, Alive, Create, ClearRequest
<1>2. ASSUME NEW d \in Clients PROVE pool'[d] = pool[d] \/ (~Linked(d) /\ pool'[d].attached)
  <2>1. CASE UNCHANGED pool
    BY <2>1
  <2>2. ASSUME NEW c \in Clients, pool[c].status = "free",
               pool' = [pool EXCEPT ![c] = [Free EXCEPT !.status = "new", !.attached = TRUE]]
        PROVE  pool'[d] = pool[d] \/ (~Linked(d) /\ pool'[d].attached)
    <3>1. [Free EXCEPT !.status = "new", !.attached = TRUE].attached
      BY DEF Free
    <3> QED BY <2>2, <3>1 DEF TypeOK, Pools, Linked
  <2> QED BY <2>1, <2>2 DEF Create
<1> QED BY <1>1, <1>2

LEMMA LinkUpIs ==
  ASSUME TypeOK, LinkInv, NEW c \in Clients, LinkUp(c)
  PROVE  /\ c = mClient' /\ at' = "attempt" /\ hostStep' = "rest"
         /\ pool[c].status = "new" /\ pool'[c].status = "up" /\ pool'[c].attached
         /\ \A d \in Clients \ {c} : pool'[d] = pool[d]
BY DEF TypeOK, LinkInv, Fresh, LinkUp, Pools, controlVars, HostRests

LEMMA EndDisconnectIs ==
  ASSUME TypeOK, LinkInv, EndDisconnect
  PROVE  /\ host \in Clients /\ hostStep = "ended" /\ hostStep' = "rest"
         /\ pool'[host].status \in {"free", "down"}
         /\ \A d \in Clients \ {host} : pool'[d] = pool[d]
<1>1. host \in Clients /\ hostStep = "ended"
  BY DEF EndDisconnect, LinkInv, Ending
<1>2. pool'[host].status \in {"free", "down"}
  <2>1. CASE pool[host].selfDelete
    BY <1>1, <2>1 DEF EndDisconnect, TypeOK, Pools, Free
  <2>2. CASE ~pool[host].selfDelete
    BY <1>1, <2>2 DEF EndDisconnect, TypeOK, Pools
  <2> QED BY <2>1, <2>2
<1>3. hostStep' = "rest" /\ \A d \in Clients \ {host} : pool'[d] = pool[d]
  BY <1>1 DEF EndDisconnect, TypeOK, Pools
<1> QED BY <1>1, <1>2, <1>3

-----------------------------------------------------------------------------
(***************************************************************************)
(* The link.                                                               *)
(***************************************************************************)
LEMMA HeldStep == TypeOK /\ LinkInv /\ [Next]_vars => Held'
<1> SUFFICES ASSUME TypeOK, Held, [Next]_vars PROVE Held'
  BY DEF LinkInv
<1> USE DEF Held, Inside
<1>1. CASE UNCHANGED <<at, mClient>>
  BY <1>1
<1>2. CASE Choose \/ ConnectReturns \/ HandOver \/ TakeDown \/ CheckEvent \/ ArmDelete
           \/ ClearConnected
  BY <1>2 DEF Choose, ConnectReturns, HandOver, TakeDown, CheckEvent, ArmDelete, ClearConnected,
              cameraVars
<1>3. CASE Create \/ Detach \/ Reap \/ Reclaim
  BY <1>3 DEF Create, Detach, Reap, Reclaim, cameraVars
<1>4. RetireDeclined \/ Session \/ Disconnect \/ Prompt \/ UNCHANGED vars
      \/ (\E accept \in BOOLEAN : Press(accept))
      => UNCHANGED <<at, mClient>>
  BY DEF RetireDeclined, Session, AddActive, Teardown, AbortBlockingConnect, Disconnect, Prompt,
         Serve, Poll, ReadToken, ReadCode, ReadLatest, CancelLatest, CloseStale, Lapse, UseClient,
         Press, Answer, controlVars, cameraVars, vars
<1>5. Host => UNCHANGED <<at, mClient>>
  BY DEF Host, LinkUp, OnDisconnect, Publish, EndDisconnect, RefuseUnshown,
         OnAuthenticationComplete, Expire, controlVars, cameraVars
<1> QED BY <1>1, <1>2, <1>3, <1>4, <1>5 DEF Next, Connecting

\* Only a link that comes up connects the camera, and only connect(), the failure
\* branch of it and the drain give it another client, none while it is connected.
LEMMA ConnectedFrame ==
  ASSUME TypeOK, LinkInv, [Next]_vars
  PROVE  \/ \E c \in Clients : LinkUp(c)
         \/ /\ connected' => connected /\ mClient' = mClient
            /\ at' \in {"create", "detach"} => ~connected'
<1> USE DEF LinkInv, Alive
<1>1. CASE UNCHANGED <<at, connected, mClient>>
  BY <1>1
<1>2. CASE Choose \/ ConnectReturns \/ HandOver \/ TakeDown \/ CheckEvent \/ ArmDelete
           \/ ClearConnected \/ Create \/ Detach
  BY <1>2 DEF Choose, ConnectReturns, HandOver, TakeDown, CheckEvent, ArmDelete, ClearConnected,
              Create, Detach, cameraVars
<1>3. CASE Reap \/ Reclaim \/ AddActive
  BY <1>3 DEF Reap, Reclaim, AddActive, cameraVars
<1>4. ASSUME NEW c \in Clients, OnDisconnect(c)
      PROVE  connected' => connected /\ mClient' = mClient /\ at' = at
  BY <1>4 DEF OnDisconnect, controlVars
<1>5. RetireDeclined \/ Teardown \/ AbortBlockingConnect \/ Disconnect \/ Prompt \/ UNCHANGED vars
      \/ (\E accept \in BOOLEAN : Press(accept))
      => UNCHANGED <<at, connected, mClient>>
  BY DEF RetireDeclined, Teardown, AbortBlockingConnect, Disconnect, Prompt,
         Serve, Poll, ReadToken, ReadCode, ReadLatest, CancelLatest, CloseStale, Lapse, UseClient,
         Press, Answer, controlVars, cameraVars, vars
<1>6. EndDisconnect \/ RefuseUnshown \/ OnAuthenticationComplete \/ Expire
      \/ (\E c \in Clients, type \in Types : Publish(c, type))
      => UNCHANGED <<at, connected, mClient>>
  BY DEF Publish, EndDisconnect, RefuseUnshown, OnAuthenticationComplete, Expire, controlVars,
         cameraVars
<1> QED BY <1>1, <1>2, <1>3, <1>4, <1>5, <1>6 DEF Next, Connecting, Session, Host

LEMMA AliveStep == TypeOK /\ LinkInv /\ Using /\ [Next]_vars => Alive'
<1> SUFFICES ASSUME TypeOK, LinkInv, Using, [Next]_vars PROVE Alive'
  OBVIOUS
<1>1. Alive
  BY DEF LinkInv
<1>2. ASSUME NEW c \in Clients, LinkUp(c) PROVE Alive'
  BY <1>2, LinkUpIs DEF Alive, Linked
<1>3. CASE ~connected'
  BY <1>3 DEF Alive
<1>4. CASE connected /\ mClient' = mClient /\ connected' /\ at' \notin {"create", "detach"}
  <2>1. mClient \in Clients /\ Linked(mClient) /\ pool[mClient].attached
    BY <1>1, <1>4 DEF Alive
  <2>2. CASE Create
    BY <1>4, <2>2, CreateIs
  <2>3. CASE EndDisconnect
    <3>1. host # mClient
      BY <1>4, <2>3, EndDisconnectIs DEF LinkInv, Ending
    <3>2. pool'[mClient] = pool[mClient]
      BY <2>1, <2>3, <3>1, EndDisconnectIs
    <3> QED BY <1>4, <2>1, <3>2 DEF Alive, Linked
  <2>4. CASE Calm
    BY <1>4, <2>1, <2>4 DEF Alive, Calm, Linked
  <2> QED BY <1>2, <2>2, <2>3, <2>4, PoolStep
<1> QED BY <1>2, <1>3, <1>4, ConnectedFrame

LEMMA EndingStep == TypeOK /\ LinkInv /\ Using /\ [Next]_vars => Ending'
<1> SUFFICES ASSUME TypeOK, LinkInv, Using, [Next]_vars PROVE Ending'
  OBVIOUS
<1>1. ASSUME NEW c \in Clients, LinkUp(c) PROVE Ending'
  BY <1>1, LinkUpIs DEF Ending
<1>2. ASSUME NEW c \in Clients, OnDisconnect(c) PROVE Ending'
  <2>1. host' = c /\ Linked(c)'
    BY <1>2 DEF OnDisconnect, Linked
  <2>2. connected' => mClient' # c
    BY <1>2 DEF OnDisconnect, LinkInv, Alive
  <2> QED BY <2>1, <2>2 DEF Ending
<1>3. CASE EndDisconnect
  BY <1>3, EndDisconnectIs DEF Ending
<1>4. CASE UNCHANGED <<host, hostStep>>
  <2>1. CASE Create
    BY <1>4, <2>1, CreateIs DEF LinkInv, Ending, Linked
  <2>2. CASE Calm
    BY <1>1, <1>4, <2>2, ConnectedFrame DEF LinkInv, Ending, Calm
  <2> QED BY <1>1, <1>3, <2>1, <2>2, PoolStep
<1>5. ASSUME NEW c \in Clients, NEW type \in Types, Publish(c, type) PROVE Ending'
  <2>1. hostStep' # "ended"
    BY <1>5 DEF Publish, HostRests
  <2> QED BY <2>1 DEF Ending
<1>6. CASE RefuseUnshown
  BY <1>6 DEF RefuseUnshown, Ending
<1>7. OnAuthenticationComplete \/ Expire \/ Connecting \/ RetireDeclined \/ Reap \/ Reclaim \/ Session
      \/ Disconnect \/ UNCHANGED vars
      => UNCHANGED <<host, hostStep>>
  BY DEF OnAuthenticationComplete, Expire, Connecting, Choose, Create, ConnectReturns, HandOver,
         TakeDown, CheckEvent, ArmDelete, ClearConnected, Detach, RetireDeclined, Reap, Reclaim, Session,
         AddActive, Teardown, AbortBlockingConnect, Disconnect, nimbleVars, vars
<1>8. Prompt \/ (\E accept \in BOOLEAN : Press(accept)) => UNCHANGED <<host, hostStep>>
  BY DEF Prompt, Serve, Poll, ReadToken, ReadCode, ReadLatest, CancelLatest, CloseStale, Lapse,
         UseClient, Press, Answer, nimbleVars
<1> QED BY <1>1, <1>2, <1>3, <1>4, <1>5, <1>6, <1>7, <1>8 DEF Next, Host

LEMMA FreshStep == TypeOK /\ LinkInv /\ Using /\ [Next]_vars => Fresh'
<1> SUFFICES ASSUME TypeOK, LinkInv, Using, [Next]_vars, NEW d \in Clients,
                    pool'[d].status = "new"
             PROVE  pool'[d].attached
  BY DEF Fresh
<1>1. pool[d].status = "new" => pool[d].attached
  BY DEF LinkInv, Fresh
<1> QED BY <1>1, PoolStep, CreateIs, LinkUpIs, EndDisconnectIs DEF Calm

LEMMA LinkStep == TypeOK /\ LinkInv /\ Using /\ [Next]_vars => LinkInv'
BY HeldStep, AliveStep, EndingStep, FreshStep DEF LinkInv

-----------------------------------------------------------------------------
(***************************************************************************)
(* The request.                                                            *)
(***************************************************************************)
\* Who touches the request: it is cleared, published, or its window ends.
LEMMA RequestFrame ==
  ASSUME TypeOK, [Next]_vars
  PROVE  \/ request' = NoRequest /\ token' = token
         \/ UNCHANGED <<request, token>>
         \/ Expire
         \/ \E c \in Clients, type \in Types : Publish(c, type)
<1>1. CASE Create \/ Reap \/ Reclaim \/ RefuseUnshown \/ OnAuthenticationComplete
           \/ \E c \in Clients : OnDisconnect(c)
  BY <1>1 DEF Create, Reap, Reclaim, RefuseUnshown, OnAuthenticationComplete, OnDisconnect,
              ClearRequest, promptVars
<1>2. CASE CancelLatest \/ Lapse \/ \E accept \in BOOLEAN : Press(accept)
  BY <1>2 DEF CancelLatest, Lapse, Press, Answer
<1>3. Choose \/ HandOver \/ TakeDown \/ ArmDelete \/ RetireDeclined \/ Teardown \/ AddActive
      \/ AbortBlockingConnect \/ Disconnect \/ ConnectReturns \/ CheckEvent \/ ClearConnected
      \/ Detach \/ UNCHANGED vars
      => UNCHANGED <<request, token>>
  BY DEF Choose, HandOver, TakeDown, ArmDelete, RetireDeclined, Teardown, AddActive,
         AbortBlockingConnect, Disconnect, ConnectReturns, CheckEvent, ClearConnected, Detach,
         promptVars, vars
<1>4. EndDisconnect \/ (\E c \in Clients : LinkUp(c)) \/ Serve \/ Poll \/ ReadToken
      \/ ReadCode \/ ReadLatest \/ CloseStale \/ UseClient
      => UNCHANGED <<request, token>>
  BY DEF EndDisconnect, LinkUp, Serve, Poll, ReadToken, ReadCode, ReadLatest, CloseStale, UseClient,
         promptVars
<1> QED BY <1>1, <1>2, <1>3, <1>4 DEF Next, Connecting, Session, Host, Prompt

LEMMA CurrentStep == TypeOK /\ LinkInv /\ Using /\ Current /\ [Next]_vars => Current'
<1> SUFFICES ASSUME TypeOK, LinkInv, Using, Current, [Next]_vars, Pending' PROVE Current'
  BY DEF Current
<1>1. ASSUME NEW c \in Clients, NEW type \in Types, Publish(c, type) PROVE Current'
  BY <1>1 DEF Publish, Current
<1>2. CASE Expire
  <2>1. request # NoRequest /\ request \in Requests /\ UNCHANGED <<token, pool>>
    BY <1>2 DEF Expire, Pending, nimbleVars, TypeOK
  <2>2. request'.token = request.token /\ request'.handle = request.handle
        /\ request'.link = request.link
    BY <1>2, <2>1 DEF Expire, Requests
  <2> QED BY <2>1, <2>2 DEF Current, Pending, Linked
<1>3. CASE UNCHANGED <<request, token>>
  <2>1. request # NoRequest /\ request.handle \in Clients
    BY <1>3 DEF Pending, TypeOK, Requests
  <2>2. /\ request.token = token /\ pool[request.handle].status # "new"
        /\ Linked(request.handle) => pool[request.handle].link = request.link
    BY <2>1 DEF Current, Pending
  <2> DEFINE Good == /\ pool'[request.handle].status # "new"
                     /\ pool'[request.handle].status \in {"up", "closing"}
                          => pool'[request.handle].link = request.link
  <2>3. Good
    <3>1. CASE Create
      BY <1>3, <2>1, <3>1, CreateIs
    <3>2. ASSUME NEW c \in Clients, LinkUp(c) PROVE Good
      BY <2>1, <2>2, <3>2, LinkUpIs DEF Linked
    <3>3. CASE EndDisconnect
      BY <2>1, <2>2, <3>3, EndDisconnectIs DEF Linked
    <3>4. CASE Calm
      BY <2>1, <2>2, <3>4 DEF Calm, Linked
    <3> QED BY <3>1, <3>2, <3>3, <3>4, PoolStep
  <2> QED BY <1>3, <2>2, <2>3 DEF Current, Linked
<1> QED BY <1>1, <1>2, <1>3, RequestFrame DEF Pending

(***************************************************************************)
(* The dialog and the answer.                                              *)
(***************************************************************************)
\* Who touches the dialog, the answer, and where the UI task is.
LEMMA DialogFrame ==
  ASSUME TypeOK, [Next]_vars
  PROVE  UNCHANGED <<ui, dialog, answer>> \/ Prompt \/ Answering
<1>1. Connecting \/ RetireDeclined \/ Reap \/ Reclaim \/ Session \/ Disconnect \/ UNCHANGED vars
      => UNCHANGED <<ui, dialog, answer>>
  BY DEF Connecting, Choose, Create, ConnectReturns, HandOver, TakeDown, CheckEvent, ArmDelete,
         ClearConnected, Detach, RetireDeclined, Reap, Reclaim, Session, AddActive, Teardown,
         AbortBlockingConnect, Disconnect, vars, uiVars
<1>2. Host => UNCHANGED <<ui, dialog, answer>>
  BY DEF Host, EndDisconnect, RefuseUnshown, OnAuthenticationComplete, Expire, LinkUp, OnDisconnect,
         Publish, uiVars
<1> QED BY <1>1, <1>2 DEF Next, Answering

LEMMA ShownStep == TypeOK /\ Current /\ Shown /\ [Next]_vars => Shown'
<1> SUFFICES ASSUME TypeOK, Current, Shown, [Next]_vars, dialog' # NoDialog PROVE Shown'
  BY DEF Shown
<1>1. token \in Nat /\ token' \in Nat /\ token <= token' /\ (token' = token \/ token' = token + 1)
  <2>1. CASE Expire
    BY <2>1 DEF Expire, TypeOK
  <2>2. ASSUME NEW c \in Clients, NEW type \in Types, Publish(c, type)
        PROVE  token' = token + 1
    BY <2>2 DEF Publish
  <2>3. token \in Nat
    BY Bounds DEF TypeOK
  <2> QED BY <2>1, <2>2, <2>3, RequestFrame DEF Expire
<1>2. CASE UNCHANGED <<ui, dialog, answer>>
  <2>1. dialog # NoDialog /\ dialog.token \in Nat /\ dialog.token <= token
    BY <1>2, Bounds DEF Shown, TypeOK
  <2>2. dialog.token <= token'
    BY <1>1, <2>1
  <2>3. ASSUME ui = "rest", Pending', dialog.token = token' PROVE dialog.shown = token'
    <3>1. token' = token
      BY <1>1, <2>1, <2>3
    <3>2. Pending
      <4>1. CASE Expire
        BY <4>1 DEF Expire
      <4>2. ASSUME NEW c \in Clients, NEW type \in Types PROVE ~Publish(c, type)
        BY <1>1, <3>1 DEF Publish
      <4> QED BY <2>3, <4>1, <4>2, RequestFrame DEF Pending
    <3> QED BY <2>1, <2>3, <3>1, <3>2 DEF Shown
  <2> QED BY <1>2, <2>1, <2>2, <2>3 DEF Shown
<1>3. CASE ShowPrompt /\ UNCHANGED token /\ ui = "rest"
  <2>1. CASE request.due
    BY <1>3, <2>1 DEF ShowPrompt, Shown
  <2>2. CASE ~request.due
    <3>1. dialog'.token = 0 /\ ui' = "token"
      BY <1>3, <2>2 DEF ShowPrompt, NoDialog
    <3> QED BY <1>1, <3>1 DEF Shown
  <2> QED BY <2>1, <2>2
<1>4. CASE Serve \/ Poll
  BY <1>2, <1>3, <1>4 DEF Serve, Poll, NoPrompt, promptVars
<1>5. CASE ReadToken
  <2>1. dialog'.token = token /\ ui' = "code" /\ token' = token
    BY <1>5 DEF ReadToken, TypeOK, promptVars
  <2> QED BY <1>1, <2>1 DEF Shown
<1>6. CASE ReadCode
  <2>1. /\ dialog'.token = dialog.token /\ dialog'.shown = request.token
        /\ UNCHANGED <<token, request>>
    BY <1>6 DEF ReadCode, TypeOK, promptVars
  <2>2. dialog.token <= token
    BY <1>1 DEF Shown, NoDialog
  <2>3. Pending => request.token = token
    BY DEF Current
  <2> QED BY <2>1, <2>2, <2>3 DEF Shown, Pending
<1>7. CASE ReadLatest
  BY <1>7 DEF ReadLatest, Shown, promptVars
<1>8. CASE Answering
  <2> PICK t \in 0..MaxRequests, a \in BOOLEAN : Answer(t, a)
    BY <1>8, AnsweringIs, TypeParts
  <2>1. Answers(t) /\ ui' = "using" /\ UNCHANGED <<token, dialog>>
    BY DEF Answer, CloseDialog
  <2> QED BY <2>1 DEF Shown
<1>9. CASE CloseStale \/ UseClient
  BY <1>9 DEF CloseStale, UseClient, CloseDialog
<1> QED BY <1>2, <1>4, <1>5, <1>6, <1>7, <1>8, <1>9, DialogFrame DEF Prompt, Answering

\* An event of a camera's own client waits for the answer in progress.
LEMMA HostFrame ==
  ASSUME TypeOK, [Next]_vars, Locked, hostStep' = "ended"
  PROVE  \/ hostStep = "ended" /\ host' = host
         \/ host' \in Clients /\ ~pool[host'].attached
<1>1. ASSUME NEW c \in Clients, OnDisconnect(c) PROVE host' \in Clients /\ ~pool[host'].attached
  BY <1>1 DEF OnDisconnect
<1>2. OnAuthenticationComplete \/ Expire \/ Connecting \/ RetireDeclined \/ Reap \/ Reclaim \/ Session
      \/ Disconnect \/ UNCHANGED vars \/ (\E c \in Clients : LinkUp(c))
      => host' = host /\ hostStep' = hostStep
  BY DEF OnAuthenticationComplete, Expire, Connecting, Choose, Create, ConnectReturns, HandOver,
         TakeDown, CheckEvent, ArmDelete, ClearConnected, Detach, RetireDeclined, Reap, Reclaim, Session,
         AddActive, Teardown, AbortBlockingConnect, Disconnect, LinkUp, nimbleVars, vars
<1>3. Prompt \/ (\E accept \in BOOLEAN : Press(accept)) => host' = host /\ hostStep' = hostStep
  BY DEF Prompt, Serve, Poll, ReadToken, ReadCode, ReadLatest, CancelLatest, CloseStale, Lapse,
         UseClient, Press, Answer, nimbleVars
<1>4. ~EndDisconnect /\ ~RefuseUnshown /\ ~\E c \in Clients, type \in Types : Publish(c, type)
  BY DEF EndDisconnect, RefuseUnshown, Publish, HostRests, Locked
<1> QED BY <1>1, <1>2, <1>3, <1>4 DEF Next, Host

LEMMA UsingStep == IInv /\ [Next]_vars => Using'
<1> SUFFICES ASSUME TypeOK, LinkInv, Current, Shown, Using, [Next]_vars, ui' = "using" PROVE Using'
  BY DEF IInv, Using
<1>1. CASE Answering
  <2> PICK t \in 0..MaxRequests, a \in BOOLEAN :
             Answer(t, a) /\ (a => HasPrompt /\ t = dialog.token)
    BY <1>1, AnsweringIs, TypeParts
  <2>1. /\ Pending /\ t = token /\ answer'.of = request
        /\ answer'.accept => a
        /\ answer'.client = IF connected THEN mClient ELSE NoClient
        /\ answer'.link = IF connected THEN pool[mClient].link ELSE 0
        /\ UNCHANGED <<dialog, host, hostStep, pool>>
    BY DEF Answer, Answers, CloseDialog, nimbleVars
  <2>2. /\ request # NoRequest /\ request.token = token
        /\ Linked(request.handle) => pool[request.handle].link = request.link
    BY <2>1 DEF Current, Pending
  <2>3. a => dialog.shown = token
    BY <2>1 DEF HasPrompt, Shown
  <2>4. connected => /\ mClient \in Clients /\ Linked(mClient) /\ pool[mClient].attached
                     /\ hostStep = "ended" => host # mClient
    BY DEF LinkInv, Alive, Ending
  <2> QED BY <2>1, <2>2, <2>3, <2>4 DEF Using, Linked
<1>2. CASE UNCHANGED <<ui, dialog, answer>>
  <2>1. Locked /\ Using
    BY <1>2 DEF Locked
  <2>2. ASSUME answer.client # NoClient
        PROVE  /\ pool'[answer.client].status \in {"up", "closing"}
               /\ pool'[answer.client].attached
               /\ pool'[answer.client].link = answer.link
               /\ hostStep' = "ended" => host' # answer.client
    <3>1. /\ answer.client \in Clients /\ Linked(answer.client) /\ pool[answer.client].attached
          /\ pool[answer.client].link = answer.link
          /\ hostStep = "ended" => host # answer.client
      BY <1>2, <2>1, <2>2 DEF Using, TypeOK
    <3>2. ~Create
      BY <2>1 DEF Create
    <3>3. ASSUME NEW c \in Clients, LinkUp(c) PROVE c # answer.client /\ hostStep' = "rest"
      BY <3>1, <3>3, LinkUpIs DEF Linked
    <3>4. CASE EndDisconnect
      BY <3>1, <3>4, EndDisconnectIs DEF Linked
    <3>5. CASE Calm
      <4>1. hostStep' = "ended" => host' # answer.client
        BY <2>1, <3>1, <1>2, HostFrame
      <4> QED BY <2>1, <3>1, <3>5, <4>1 DEF Calm, Linked
    <3> QED BY <3>1, <3>2, <3>3, <3>4, <3>5, PoolStep, LinkUpIs DEF Linked
  <2> QED BY <1>2, <2>1, <2>2 DEF Using, Linked
<1>3. Prompt => UNCHANGED <<ui, dialog, answer>> \/ Answering
  BY DEF Prompt, Serve, Poll, ShowPrompt, NoPrompt, ReadToken, ReadCode, ReadLatest, CloseStale,
         HasPrompt, UseClient, Answering
<1> QED BY <1>1, <1>2, <1>3, DialogFrame

-----------------------------------------------------------------------------
(***************************************************************************)
(* A request the user could see has somebody who will look at it: the UI   *)
(* was asked, its timer runs, the host task is about to refuse it, or the  *)
(* session was renewed around it and connect() has still to clear it.      *)
(***************************************************************************)
Looked  == asked \/ polling \/ hostStep = "refuse"
Renewed == at \in {"rest", "create"} /\ session /\ ~connected /\ ~cancelled

PromptIsWatched == Pending /\ Visible => Looked \/ Renewed

LEMMA WatchStep == TypeOK /\ PromptIsWatched /\ [Next]_vars => PromptIsWatched'
<1> SUFFICES ASSUME TypeOK, PromptIsWatched, [Next]_vars, Pending', Visible'
             PROVE  (Looked \/ Renewed)'
  BY DEF PromptIsWatched
<1> USE DEF Looked, Renewed, Visible
<1>1. ASSUME NEW c \in Clients, NEW type \in Types, Publish(c, type) PROVE Looked'
  BY <1>1 DEF Publish
<1>2. CASE Expire
  BY <1>2 DEF Expire, PromptIsWatched, controlVars, cameraVars, nimbleVars, uiVars, timerVars
<1>3. CASE Pending
  <2>1. Visible => Looked \/ Renewed
    BY <1>3 DEF PromptIsWatched
  <2>2. at \in Inside => Looked
    BY <2>1 DEF Inside
  <2> USE DEF controlVars, cameraVars, nimbleVars, promptVars, uiVars, timerVars
  <2>3. CASE Create \/ RefuseUnshown \/ OnAuthenticationComplete
    <3>1. request' = NoRequest
      BY <1>3, <2>3 DEF Create, RefuseUnshown, OnAuthenticationComplete, ClearRequest
    <3> QED BY <3>1 DEF Pending
  <2>4. CASE Choose \/ UNCHANGED vars
    BY <2>1, <2>4 DEF Choose, vars
  <2>5. CASE ConnectReturns \/ HandOver \/ TakeDown \/ CheckEvent \/ ArmDelete \/ ClearConnected
             \/ Detach \/ \E c \in Clients : LinkUp(c)
    <3>1. Looked
      BY <2>2, <2>5 DEF ConnectReturns, HandOver, TakeDown, CheckEvent, ArmDelete, ClearConnected,
                        Detach, LinkUp, Inside
    <3>2. UNCHANGED <<asked, polling, hostStep>>
      BY <2>5 DEF ConnectReturns, HandOver, TakeDown, CheckEvent, ArmDelete, ClearConnected,
                  Detach, LinkUp
    <3> QED BY <3>1, <3>2
  <2>6. CASE RetireDeclined \/ Teardown
    BY <2>2, <2>6 DEF RetireDeclined, Teardown
  <2>7. CASE Reap
    BY <2>1, <2>7 DEF Reap, Inside
  <2>7a. CASE Reclaim
    <3>1. mClient = NoClient
      BY <1>3, <2>7a DEF Reclaim, ClearRequest, Pending
    <3>2. Looked /\ UNCHANGED <<asked, polling, hostStep>>
      BY <2>1, <2>7a DEF Reclaim, Inside
    <3> QED BY <3>2
  <2>8. CASE AddActive
    BY <2>2, <2>8 DEF AddActive, Reaping, TypeOK
  <2>9. CASE AbortBlockingConnect \/ Disconnect
    BY <2>1, <2>9 DEF AbortBlockingConnect, Disconnect
  <2>10. ASSUME NEW c \in Clients, OnDisconnect(c) PROVE (Looked \/ Renewed)'
    <3>1. CASE pool[c].attached
      <4>1. request' = NoRequest
        BY <2>10, <3>1 DEF OnDisconnect, ClearRequest
      <4> QED BY <4>1 DEF Pending
    <3>2. CASE ~pool[c].attached
      BY <2>1, <2>10, <3>2 DEF OnDisconnect, HostRests
    <3> QED BY <3>1, <3>2
  <2>11. CASE EndDisconnect
    BY <2>1, <2>11 DEF EndDisconnect
  <2>12. CASE Serve
    BY <2>12 DEF Serve
  <2>13. CASE Poll
    <3>1. UNCHANGED <<at, session, connected, cancelled, hostStep, asked>>
      BY <2>13 DEF Poll
    <3>2. Visible
      BY <3>1
    <3>3. polling' = polling
      BY <1>3, <2>13, <3>2, Zenon DEF Poll
    <3> QED BY <2>1, <3>1, <3>3
  <2>14. CASE ReadToken \/ ReadCode \/ ReadLatest
    BY <2>1, <2>14 DEF ReadToken, ReadCode, ReadLatest
  <2>15. ASSUME CloseDialog, UNCHANGED <<at, session, connected, cancelled, hostStep>>
         PROVE  (Looked \/ Renewed)'
    <3>1. polling' = polling /\ asked' = asked
      BY <1>3, <2>15 DEF CloseDialog, TypeOK
    <3> QED BY <2>1, <2>15, <3>1
  <2>16. CASE CloseStale \/ UseClient
    BY <2>15, <2>16 DEF CloseStale, UseClient
  <2>17. ASSUME NEW t, NEW accept, Answer(t, accept) PROVE (Looked \/ Renewed)'
    <3>1. CASE Answers(t)
      <4>1. request' = NoRequest
        BY <2>17, <3>1 DEF Answer
      <4> QED BY <4>1 DEF Pending
    <3>2. CASE ~Answers(t)
      BY <2>15, <2>17, <3>2 DEF Answer
    <3> QED BY <3>1, <3>2
  <2>18. CASE CancelLatest \/ Lapse \/ \E accept \in BOOLEAN : Press(accept)
    BY <2>17, <2>18 DEF CancelLatest, Lapse, Press
  <2> QED BY <1>1, <1>2, <2>3, <2>4, <2>5, <2>6, <2>7, <2>8, <2>9, <2>10, <2>11, <2>12, <2>13,
             <2>14, <2>16, <2>18, <2>7a DEF Next, Connecting, Session, Host, Prompt
<1>4. CASE ~Pending
  <2>1. ~UNCHANGED <<request, token>> /\ request' # NoRequest
    BY <1>4 DEF Pending
  <2> QED BY <1>1, <1>2, <2>1, RequestFrame
<1> QED BY <1>3, <1>4

-----------------------------------------------------------------------------
LEMMA Invariance == Spec => []IInv
<1>1. IInv /\ [Next]_vars => IInv'
  BY TypeStep, LinkStep, CurrentStep, ShownStep, UsingStep DEF IInv
<1> QED BY InitHolds, <1>1, PTL DEF Spec

\* Every variable of the camera, of NimBLE's pool and of the prompt keeps its type.
THEOREM TypesHold == Spec => []TypeOK
<1>1. IInv => TypeOK
  BY DEF IInv
<1> QED BY Invariance, <1>1, PTL

\* m_Connected read without a lock (isConnected(), cancelPairing(), connectAll())
\* means an allocated client with a link or its callback still to come.
THEOREM ConnectedAreAlive == Spec => []ConnectedIsAlive
<1>1. IInv => ConnectedIsAlive
  BY DEF IInv, TypeOK, LinkInv, Alive, ConnectedIsAlive, NoClient, Clients
<1> QED BY Invariance, <1>1, PTL

\* m_PairingMutex keeps the client of answerPairing() in place: neither callback
\* nor connect() nor the drain frees or reuses it under the answer.
THEOREM AnswersHaveClients == Spec => []AnswerHasClient
<1>1. IInv => AnswerHasClient
  BY DEF IInv, TypeOK, Using, AnswerHasClient, Linked
<1> QED BY Invariance, <1>1, PTL

\* injectConfirmPasskey(true) is for the code the dialog shows and the link that
\* asked, however requests, links and dialogs follow each other.
THEOREM AcceptedWereShown == Spec => []AcceptedAsShown
<1>1. IInv => AcceptedAsShown
  <2> SUFFICES ASSUME IInv, ui = "using", Confirms
               PROVE  dialog.shown = answer.of.token /\ pool[answer.client].link = answer.of.link
    BY DEF AcceptedAsShown
  <2>1. answer.of # NoRequest /\ answer.of \in Requests /\ answer.accept
    BY DEF IInv, TypeOK, Using, Confirms
  <2>2. answer.client = answer.of.handle /\ answer.client # NoClient
    BY <2>1 DEF Confirms, OwnLink, Requests, Clients, NoClient
  <2> QED BY <2>1, <2>2 DEF IInv, Using
<1> QED BY Invariance, <1>1, PTL

\* No pairing request is lost between the tasks: while it can be seen, either the
\* prompt's code will come to it or an attempt to connect will clear it.
THEOREM PromptsAreWatched == Spec => []PromptIsWatched
<1>1. Init => PromptIsWatched
  BY DEF Init, PromptIsWatched, Pending
<1>2. IInv /\ PromptIsWatched /\ [Next]_vars => PromptIsWatched'
  BY WatchStep DEF IInv
<1> QED BY <1>1, <1>2, Invariance, PTL DEF Spec
=============================================================================
