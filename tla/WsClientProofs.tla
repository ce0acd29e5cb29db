--------------------------- MODULE WsClientProofs ---------------------------
(* Safety of the WebSocket client, for any tasks and number of sockets.    *)
EXTENDS ConnectionRefinement, TLAPS

Answered == {"accepted", "refused"}

\* The inductive invariant of the negotiation: what Casa answered on a socket is
\* final, so an answer recorded for it, or still waiting for the write lock,
\* agrees with Casa's side for good.
NegotiationInv ==
  /\ routeAck # None => /\ routeAck = ws
                        /\ routeAck \in Generations
                        /\ route[routeAck] \in Answered
                        /\ accepted = (route[routeAck] = "accepted")
  /\ reader \in [Generations -> {"none", "created", "reading", "ackWait", "cleanup", "done"}]
  /\ \A g \in Generations : reader[g] = "ackWait" => route[g] \in Answered
  /\ route \in [Generations -> {"unknown", "heard"} \cup Answered]

\* No generation is known before the first connect.
LEMMA NegotiationInit == WsInit => NegotiationInv
BY DEF WsInit, NegotiationInv

\* Cancelling readers makes none of them wait with an answer.
LEMMA CancelledReaders ==
  ASSUME NegotiationInv, NEW gs, CancelReaders(gs)
  PROVE  /\ reader' \in [Generations -> {"none", "created", "reading", "ackWait", "cleanup", "done"}]
         /\ \A g \in Generations : reader'[g] = "ackWait" => reader[g] = "ackWait"
<1>1. \A g \in Generations :
        /\ reader'[g] \in {"none", "created", "reading", "ackWait", "cleanup", "done"}
        /\ reader'[g] = "ackWait" => reader[g] = "ackWait"
  BY DEF CancelReaders, NegotiationInv
<1> QED BY <1>1 DEF CancelReaders

\* What a step must leave alone, or make smaller, to keep the invariant.
Quiet ==
  /\ UNCHANGED route
  /\ reader' \in [Generations -> {"none", "created", "reading", "ackWait", "cleanup", "done"}]
  /\ \A g \in Generations : reader'[g] = "ackWait" => reader[g] = "ackWait"
  /\ routeAck' = None \/ UNCHANGED <<routeAck, ws, accepted>>

\* A step that records no answer and replaces no socket keeps the invariant.
LEMMA QuietStep ==
  ASSUME NegotiationInv, Quiet
  PROVE  NegotiationInv'
BY DEF NegotiationInv, Quiet

\* A send that raises cancels at most the reader of the socket.
LEMMA RaisingIsQuiet ==
  ASSUME NegotiationInv, NEW t, SendRaises(t)
  PROVE  /\ reader' \in [Generations -> {"none", "created", "reading", "ackWait", "cleanup", "done"}]
         /\ \A g \in Generations : reader'[g] = "ackWait" => reader[g] = "ackWait"
<1>1. CASE CancelReaders({gen[t]})
  BY <1>1, CancelledReaders
<1>2. CASE UNCHANGED reader
  BY <1>2 DEF NegotiationInv
<1> QED BY <1>1, <1>2 DEF SendRaises, Undo, AbandonUtterance

\* The steps of _ensure_ws record no answer.
LEMMA ConnectKeepsNegotiation ==
  ASSUME NegotiationInv, NEW t \in Connectors, ConnectStep(t)
  PROVE  NegotiationInv'
<1> USE DEF Quiet
<1>1. CASE EnsureWs(t)
  BY <1>1, QuietStep DEF EnsureWs, clientVars, NegotiationInv
<1>2. CASE DialRefused(t)
  BY <1>2, QuietStep DEF DialRefused, NegotiationInv
<1>3. CASE DialFails(t)
  BY <1>3, QuietStep DEF DialFails, clientVars, NegotiationInv
<1>4. CASE DialSucceeds(t)
  BY <1>4, QuietStep DEF DialSucceeds, clientVars, NegotiationInv
<1>5. CASE Install(t)
  <2>1. CASE closed
    BY <1>5, <2>1, QuietStep DEF Install, NegotiationInv
  <2>2. CASE ~closed
    BY <1>5, <2>2, QuietStep DEF Install, ForgetNegotiation, NegotiationInv
  <2> QED BY <2>1, <2>2
<1>6. CASE Confirm(t)
  <2>1. CASE StillCurrent(t)
    BY <1>6, <2>1, QuietStep DEF Confirm, NegotiationInv
  <2>2. CASE ~StillCurrent(t)
    BY <1>6, <2>2, QuietStep, CancelledReaders DEF Confirm, Undo
  <2> QED BY <2>1, <2>2
<1>7. CASE ReaderJoined(t)
  BY <1>7, QuietStep DEF ReaderJoined, clientVars, NegotiationInv
<1>8. CASE Clear(t)
  BY <1>8, QuietStep DEF Clear, Disconnect, NegotiationInv
<1> QED BY <1>1, <1>2, <1>3, <1>4, <1>5, <1>6, <1>7, <1>8 DEF ConnectStep

\* Sends record no answer; a registration that is written was not answered yet.
LEMMA SendKeepsNegotiation ==
  ASSUME NegotiationInv, NEW t, SendStep(t)
  PROVE  NegotiationInv'
<1>1. CASE BeginSend(t)
  <2>1. CASE MaySend(t)
    BY <1>1, <2>1 DEF BeginSend, clientVars, NegotiationInv, Answered
  <2>2. CASE ~MaySend(t)
    <3>1. SendRaises(t) /\ UNCHANGED <<route, clientVars>>
      BY <1>1, <2>2 DEF BeginSend
    <3> QED BY <3>1, RaisingIsQuiet, QuietStep DEF Quiet, clientVars
  <2> QED BY <2>1, <2>2
<1>2. CASE EndSend(t)
  BY <1>2, QuietStep DEF EndSend, Quiet, NegotiationInv
<1>3. CASE BreakSend(t)
  BY <1>3, RaisingIsQuiet, QuietStep DEF BreakSend, Quiet, clientVars
<1> QED BY <1>1, <1>2, <1>3 DEF SendStep

\* An answer is recorded under the write lock, for the current socket only; the
\* end of a reader forgets it.
LEMMA ReaderKeepsNegotiation ==
  ASSUME NegotiationInv, NEW g \in Generations, ReaderStep(g) \/ RouteAnswered(g)
  PROVE  NegotiationInv'
<1>1. CASE ReaderStarts(g) \/ ReaderEnds(g)
  BY <1>1, QuietStep DEF ReaderStarts, ReaderEnds, Quiet, clientVars, NegotiationInv
<1>2. CASE HandleRouteAck(g)
  BY <1>2 DEF HandleRouteAck, RecordAck, Usable, NegotiationInv
<1>3. CASE Cleanup(g)
  BY <1>3, QuietStep DEF Cleanup, Disconnect, Quiet, NegotiationInv
<1>4. CASE RouteAnswered(g)
  BY <1>4 DEF RouteAnswered, clientVars, NegotiationInv, Answered
<1> QED BY <1>1, <1>2, <1>3, <1>4 DEF ReaderStep

\* Calls, cancellations and close() forget what was negotiated or leave it alone.
LEMMA OthersKeepNegotiation ==
  ASSUME NegotiationInv,
         \/ CallStep \/ Retire \/ Retired \/ SupervisorStep \/ CloseStep
         \/ \E g \in Generations : Drop(g)
         \/ \E u \in Utterances : UtteranceAnswered(u) \/ TakeFrame(u)
  PROVE  NegotiationInv'
<1> USE DEF Quiet, clientVars
<1>1. CASE StartBackground \/ \E s : SendJobFrame(s) \/ StreamUtterance(s) \/ RegisterSession(s)
  BY <1>1, QuietStep
     DEF StartBackground, SendJobFrame, StreamUtterance, RegisterSession, NegotiationInv
<1>2. ASSUME NEW t \in Cancellable, Cancel(t)
      PROVE  NegotiationInv'
  <2>1. UNCHANGED <<clientVars, route>>
    BY <1>2 DEF Cancel
  <2>2. CASE UNCHANGED reader
    BY <2>1, <2>2, QuietStep DEF NegotiationInv
  <2>3. CASE CancelReaders({gen[t]})
    BY <2>1, <2>3, CancelledReaders, QuietStep
  <2>4. CASE SendRaises(t)
    BY <2>1, <2>4, RaisingIsQuiet, QuietStep
  <2> QED BY <1>2, <2>2, <2>3, <2>4 DEF Cancel, Undo
<1>3. CASE CloseBegin
  BY <1>3, CancelledReaders, QuietStep DEF CloseBegin
<1>4. CASE Retire
  <2>1. CASE ws = gen[Setup]
    BY <1>4, <2>1, CancelledReaders, QuietStep DEF Retire, Disconnect
  <2>2. CASE ws # gen[Setup]
    BY <1>4, <2>2, QuietStep DEF Retire, NegotiationInv
  <2> QED BY <2>1, <2>2
<1>5. CASE Retired \/ SupervisorStep \/ CloseStep
  BY <1>5, QuietStep
     DEF Retired, SupervisorStep, LoopHead, WatchEnds, BackoffEnds, CloseStep, TasksStopped,
         CloseSocket, CloseEnd, NegotiationInv
<1>6. CASE \E g : Drop(g) \/ UtteranceAnswered(g) \/ TakeFrame(g)
  BY <1>6, QuietStep DEF Drop, UtteranceAnswered, TakeFrame, NegotiationInv
<1> QED BY <1>1, <1>2, <1>3, <1>4, <1>5, <1>6 DEF CallStep

\* Every step keeps it.
LEMMA NegotiationStep ==
  ASSUME NegotiationInv, [WsNext]_vars
  PROVE  NegotiationInv'
<1>1. CASE UNCHANGED vars
  BY <1>1 DEF vars, clientVars, NegotiationInv
<1>2. CASE WsNext
  BY <1>2, ConnectKeepsNegotiation, SendKeepsNegotiation, ReaderKeepsNegotiation,
     OthersKeepNegotiation
     DEF WsNext, NetworkStep, TaskStep
<1> QED BY <1>1, <1>2

\* For any number of tasks and connections: what the client takes for negotiated
\* is what Casa answered on the current socket.
THEOREM NegotiationStaysCurrent == WsSafety => []NegotiationIsCurrent
<1>1. NegotiationInv /\ [WsNext]_vars => NegotiationInv'
  BY NegotiationStep
<1>2. NegotiationInv => NegotiationIsCurrent
  BY DEF NegotiationInv, NegotiationIsCurrent
<1> QED BY <1>1, <1>2, NegotiationInit, PTL DEF WsSafety

-----------------------------------------------------------------------------
(* A rejected secret.                                                      *)

\* Task t is in the part of _ensure_ws that runs under _ws_lock.
Making == {"dialing", "installing", "confirming", "undoing", "clearing"}
Connecting(t) == at[t] \in Making \/ frame[t] = "route"

\* The inductive invariant: whoever is in there holds the lock, and nobody holds
\* it once the secret was rejected.
ConnectInv ==
  /\ at = [t \in Tasks |-> at[t]]
  /\ frame = [t \in Tasks |-> frame[t]]
  /\ \A t \in Tasks : Connecting(t) => connector = t
  /\ state = "auth_failed" => connector = None

\* Nobody but t begins to connect, and t does not either unless it holds the lock.
OnlyMoves(t) ==
  /\ at' = [x \in Tasks |-> at'[x]]
  /\ frame' = [x \in Tasks |-> frame'[x]]
  /\ \A u \in Tasks \ {t} : Connecting(u)' => Connecting(u)
  /\ Connecting(t)' => connector' = t

\* Nobody connects in the initial state.
LEMMA ConnectInit == WsInit => ConnectInv
BY WsConstants DEF WsInit, ConnectInv, Connecting, Making, Frames, Tasks

\* A step of t that gives the lock away at most from t keeps the invariant.
LEMMA MoveKeepsLock ==
  ASSUME ConnectInv, NEW t \in Tasks, OnlyMoves(t), t # None,
         connector' = connector \/ Leave(t),
         state' = "auth_failed" => state = "auth_failed" \/ connector' = None
  PROVE  ConnectInv'
BY DEF ConnectInv, OnlyMoves, Leave, Connecting

\* A task that ends, or returns to where it makes no socket, moves alone.
LEMMA EndMoves ==
  ASSUME ConnectInv, NEW t \in Tasks, NEW p, p \notin Making, End(t, p)
  PROVE  OnlyMoves(t) /\ ~Connecting(t)'
BY WsConstants DEF ConnectInv, OnlyMoves, Connecting, Making, End, Go, Frames

\* A task that sends a frame other than the registration moves alone.
LEMMA SendMoves ==
  ASSUME ConnectInv, NEW t \in Tasks, NEW g, NEW f, f # "route", Send(t, g, f)
  PROVE  OnlyMoves(t) /\ ~Connecting(t)'
BY DEF ConnectInv, OnlyMoves, Connecting, Making, Send, Go

\* A task that goes on with the lock, or without a need for it, moves alone.
LEMMA GoMoves ==
  ASSUME ConnectInv, NEW t \in Tasks, NEW p, Go(t, p),
         UNCHANGED frame \/ frame' = [frame EXCEPT ![t] = None],
         connector' = t \/ (p \notin Making /\ UNCHANGED connector)
  PROVE  OnlyMoves(t)
BY WsConstants DEF ConnectInv, OnlyMoves, Connecting, Making, Go, Frames

\* A task that begins to undo its socket holds the lock.
LEMMA UndoMoves ==
  ASSUME ConnectInv, NEW t \in Tasks, Undo(t), Connecting(t), UNCHANGED connector
  PROVE  OnlyMoves(t)
<1>1. connector' = t
  BY DEF ConnectInv
<1> QED BY <1>1, GoMoves DEF Undo

\* The end of start_background starts the supervisor; neither connects then.
LEMMA EndSetupIsOver ==
  ASSUME ConnectInv, EndSetup
  PROVE  OnlyMoves(Setup) /\ ~Connecting(Setup)'
<1> USE WsConstants DEF ConnectInv, OnlyMoves, Connecting, Making, Tasks, Connectors, Frames
<1>1. CASE closed
  BY <1>1 DEF EndSetup
<1>2. CASE ~closed
  BY <1>2 DEF EndSetup
<1> QED BY <1>1, <1>2

\* What a task does when _ensure_ws is over: it is not in there any more.
LEMMA EnsureWsIsOver ==
  ASSUME ConnectInv, NEW t \in Connectors, NEW g, NEW a \in BOOLEAN,
         Returned(t, g) \/ Raised(t, a)
  PROVE  OnlyMoves(t) /\ ~Connecting(t)'
<1> USE DEF Tasks, Making
<1>1. CASE t = Setup /\ EndSetup
  BY <1>1, EndSetupIsOver
<1>2. CASE t = Setup /\ ~EndSetup
  BY <1>2, EndMoves, SendMoves, WsConstants DEF Returned, Raised, Connectors
<1>3. CASE t = Supervisor
  BY <1>3, EndMoves, WsConstants DEF Returned, Raised, Connectors
<1>4. CASE t \in Senders
  BY <1>4, EndMoves, SendMoves, WsConstants DEF Returned, Raised, Connectors
<1>5. CASE t \in Utterances
  BY <1>5, EndMoves, SendMoves, WsConstants DEF Returned, Raised, Connectors
<1> QED BY <1>1, <1>2, <1>3, <1>4, <1>5 DEF Connectors

\* After a send that raises only a task that made a socket is still in there.
LEMMA RaisingMoves ==
  ASSUME ConnectInv, NEW t \in Tasks, SendRaises(t), UNCHANGED connector
  PROVE  OnlyMoves(t)
<1> USE DEF Making
<1>1. CASE frame[t] = "route" /\ Undo(t)
  BY <1>1, UndoMoves DEF Connecting
<1>2. CASE End(t, "idle") \/ End(t, "done")
  BY <1>2, EndMoves
<1>3. CASE Go(t, "retiring") /\ UNCHANGED frame
  BY <1>3, GoMoves
<1>4. CASE AbandonUtterance(t)
  BY <1>4, EndMoves, SendMoves DEF AbandonUtterance
<1> QED BY <1>1, <1>2, <1>3, <1>4 DEF SendRaises

\* What a step promises: the lock stays where it has to be, and a rejected
\* secret stays rejected.
Sticks == state = "auth_failed" =>
            (state' = "auth_failed" /\ generation' = generation) \/ closed'
ConnectKept == ConnectInv' /\ Sticks

\* A step of one task that changes neither state nor generation.
LEMMA MoveIsSafe ==
  ASSUME ConnectInv, NEW t \in Tasks, OnlyMoves(t), UNCHANGED connector \/ Leave(t),
         UNCHANGED <<state, generation>>
  PROVE  ConnectKept
<1>1. t # None /\ (state' = "auth_failed" => state = "auth_failed" \/ connector' = None)
  BY WsConstants DEF Tasks, Connectors
<1> QED BY <1>1, MoveKeepsLock DEF ConnectKept, Sticks

\* What moves no task keeps everything.
LEMMA StillIsSafe ==
  ASSUME ConnectInv, UNCHANGED <<at, frame, connector, generation>>,
         state' = state \/ (state' = "disconnected" /\ state # "auth_failed")
  PROVE  ConnectKept
BY DEF ConnectInv, Connecting, ConnectKept, Sticks

\* _ensure_ws: the state changes only in the hands of the lock's holder, and with
\* the rejection the lock is given back.
LEMMA ConnectIsSafe ==
  ASSUME ConnectInv, NEW t \in Connectors, ConnectStep(t)
  PROVE  ConnectKept
<1> t \in Tasks /\ t # None
  BY WsConstants DEF Tasks, Connectors
<1> USE DEF clientVars
<1>1. CASE EnsureWs(t)
  <2>1. CASE state # "auth_failed" /\ connector' = t /\ Go(t, "dialing") /\ UNCHANGED frame
    <3>1. connector = None /\ UNCHANGED <<state, generation>>
      BY <1>1 DEF EnsureWs, TakeConnectLock
    <3>2. OnlyMoves(t)
      BY <2>1, GoMoves
    <3>3. ConnectInv'
      BY <2>1, <3>1, <3>2, WsConstants DEF ConnectInv, OnlyMoves, Tasks, Connectors
    <3> QED BY <2>1, <3>1, <3>3 DEF ConnectKept, Sticks
  <2>2. CASE UNCHANGED connector /\ (Raised(t, TRUE) \/ Raised(t, FALSE) \/ Returned(t, ws))
    BY <1>1, <2>2, EnsureWsIsOver, MoveIsSafe DEF EnsureWs
  <2> QED BY <1>1, <2>1, <2>2 DEF EnsureWs, TakeConnectLock
<1>2. CASE DialRefused(t)
  <2>1. OnlyMoves(t)
    BY <1>2, EnsureWsIsOver DEF DialRefused
  <2>2. connector' = None
    BY <1>2 DEF DialRefused, Leave, ConnectInv, Connecting, Making
  <2>3. ConnectInv'
    BY <1>2, <2>1, <2>2, MoveKeepsLock DEF DialRefused
  <2> QED BY <1>2, <2>3 DEF DialRefused, Notify, ConnectKept, Sticks
<1>3. CASE DialFails(t)
  BY <1>3, EnsureWsIsOver, MoveIsSafe DEF DialFails
<1>4. CASE DialSucceeds(t)
  <2>1. connector = t
    BY <1>4 DEF DialSucceeds, ConnectInv, Connecting, Making
  <2>2. CASE closed
    BY <1>4, <2>2, EnsureWsIsOver, MoveIsSafe DEF DialSucceeds
  <2>3. CASE ~closed
    BY <1>4, <2>1, <2>3, GoMoves, MoveIsSafe DEF DialSucceeds
  <2> QED BY <2>2, <2>3
<1>5. CASE Install(t)
  <2>1. connector = t
    BY <1>5 DEF Install, ConnectInv, Connecting, Making
  <2>2. CASE closed
    BY <1>5, <2>2, EnsureWsIsOver, MoveIsSafe DEF Install
  <2>3. CASE ~closed
    <3>1. state # "auth_failed"
      BY <2>1 DEF ConnectInv
    <3>2. UNCHANGED <<state, connector>>
      BY <1>5, <2>3 DEF Install
    <3>3. OnlyMoves(t)
      <4>1. CASE Send(t, generation + 1, "route")
        BY <2>1, <3>2, <4>1 DEF ConnectInv, OnlyMoves, Connecting, Send, Go
      <4>2. CASE Go(t, "confirming") /\ UNCHANGED frame
        BY <2>1, <3>2, <4>2, GoMoves
      <4> QED BY <1>5, <2>3, <4>1, <4>2 DEF Install
    <3>4. ConnectInv'
      BY <3>1, <3>2, <3>3, MoveKeepsLock
    <3> QED BY <3>1, <3>4 DEF ConnectKept, Sticks
  <2> QED BY <2>2, <2>3
<1>6. CASE Confirm(t)
  <2>1. connector = t
    BY <1>6 DEF Confirm, ConnectInv, Connecting, Making
  <2>2. CASE StillCurrent(t)
    <3>1. state # "auth_failed" /\ state' # "auth_failed"
      BY <1>6, <2>1, <2>2 DEF Confirm, Notify, ConnectInv
    <3>2. OnlyMoves(t) /\ Leave(t)
      BY <1>6, <2>2, EnsureWsIsOver DEF Confirm
    <3>3. ConnectInv'
      BY <3>1, <3>2, MoveKeepsLock
    <3> QED BY <3>1, <3>3 DEF ConnectKept, Sticks
  <2>3. CASE ~StillCurrent(t)
    <3>1. Connecting(t) /\ Undo(t) /\ UNCHANGED <<state, connector, generation>>
      BY <1>6, <2>3 DEF Confirm, Connecting, Making
    <3> QED BY <3>1, UndoMoves, MoveIsSafe
  <2> QED BY <2>2, <2>3
<1>7. CASE ReaderJoined(t)
  <2>1. connector' = t /\ UNCHANGED connector
    BY <1>7 DEF ReaderJoined, lockVars, ConnectInv, Connecting, Making
  <2> QED BY <1>7, <2>1, GoMoves, MoveIsSafe DEF ReaderJoined
<1>8. CASE Clear(t)
  <2>1. connector = t /\ state # "auth_failed" /\ state' # "auth_failed"
    BY <1>8 DEF Clear, Disconnect, Notify, ConnectInv, Connecting, Making
  <2>2. OnlyMoves(t) /\ Leave(t)
    BY <1>8, EnsureWsIsOver DEF Clear
  <2> QED BY <2>1, <2>2, MoveKeepsLock DEF ConnectKept, Sticks
<1> QED BY <1>1, <1>2, <1>3, <1>4, <1>5, <1>6, <1>7, <1>8 DEF ConnectStep

\* Sends: the registration goes on in the hands of the lock's holder.
LEMMA SendIsSafe ==
  ASSUME ConnectInv, NEW t \in Connectors \cup Sessions, SendStep(t)
  PROVE  ConnectKept
<1> t \in Tasks
  BY DEF Tasks
<1> USE DEF clientVars, Making
<1>1. CASE BeginSend(t)
  <2>1. CASE MaySend(t)
    BY <1>1, <2>1, GoMoves, MoveIsSafe DEF BeginSend
  <2>2. CASE ~MaySend(t)
    BY <1>1, <2>2, RaisingMoves, MoveIsSafe DEF BeginSend
  <2> QED BY <2>1, <2>2
<1>2. CASE EndSend(t)
  <2>1. UNCHANGED <<connector, state, generation>>
    BY <1>2 DEF EndSend
  <2>2. CASE frame[t] = "route" /\ Go(t, "confirming") /\ frame' = [frame EXCEPT ![t] = None]
    <3>1. connector' = t
      BY <2>1, <2>2 DEF ConnectInv, Connecting
    <3> QED BY <2>1, <2>2, <3>1, GoMoves, MoveIsSafe
  <2>3. CASE EndSetup
    <3>1. Setup \in Tasks
      BY DEF Tasks, Connectors
    <3> QED BY <2>1, <2>3, <3>1, EndSetupIsOver, MoveIsSafe
  <2>4. CASE End(t, "idle") \/ End(t, "done")
    BY <2>1, <2>4, EndMoves, MoveIsSafe
  <2>5. CASE Go(t, "streaming") /\ UNCHANGED frame
    BY <2>1, <2>5, GoMoves, MoveIsSafe
  <2> QED BY <1>2, <2>2, <2>3, <2>4, <2>5 DEF EndSend
<1>3. CASE BreakSend(t)
  BY <1>3, RaisingMoves, MoveIsSafe DEF BreakSend
<1> QED BY <1>1, <1>2, <1>3 DEF SendStep

\* Readers and Casa move no task; a reader may publish DISCONNECTED, which does
\* not overwrite AUTH_FAILED.
LEMMA ReaderIsSafe ==
  ASSUME ConnectInv, NEW g, ReaderStep(g) \/ RouteAnswered(g) \/ Drop(g) \/ UtteranceAnswered(g)
  PROVE  ConnectKept
<1> USE DEF clientVars, lockVars, taskVars
<1>1. CASE Cleanup(g)
  BY <1>1, StillIsSafe DEF Cleanup, Disconnect, Notify
<1>2. CASE ~Cleanup(g)
  BY <1>2, StillIsSafe
     DEF ReaderStep, ReaderStarts, HandleRouteAck, ReaderEnds, RouteAnswered, Drop,
         UtteranceAnswered
<1> QED BY <1>1, <1>2

\* A cancelled task leaves the lock, or undoes its socket and keeps it.
LEMMA CancelIsSafe ==
  ASSUME ConnectInv, NEW t \in Cancellable, Cancel(t)
  PROVE  ConnectKept
<1> t \in Tasks
  BY DEF Tasks, Cancellable, Connectors
<1>1. UNCHANGED <<state, generation>>
  BY DEF Cancel, clientVars
<1>2. CASE Leave(t) /\ (End(t, "idle") \/ End(t, "done"))
  BY <1>1, <1>2, EndMoves, MoveIsSafe DEF Making
<1>3. CASE Registering(t) /\ Undo(t) /\ UNCHANGED connector
  BY <1>1, <1>3, UndoMoves, MoveIsSafe DEF Registering, Connecting, Making
<1>4. CASE SendRaises(t) /\ UNCHANGED connector
  BY <1>1, <1>4, RaisingMoves, MoveIsSafe
<1> QED BY <1>2, <1>3, <1>4 DEF Cancel

\* close() cancels the supervisor, which leaves the lock or undoes its socket.
LEMMA CloseBeginIsSafe ==
  ASSUME ConnectInv, CloseBegin
  PROVE  ConnectKept
<1>1. closed' /\ state' = "disconnected"
  BY DEF CloseBegin
<1>2. Supervisor \in Tasks /\ Closer \in Tasks /\ Supervisor # Closer
  BY WsConstants DEF Tasks, Connectors
<1>3. CASE Registering(Supervisor)
  <2>1. connector = Supervisor
    BY <1>2, <1>3 DEF ConnectInv, Registering, Connecting, Making
  <2>2. /\ connector' = connector
        /\ at' = [at EXCEPT ![Closer] = "stopping", ![Supervisor] = "undoing"]
        /\ frame' = [frame EXCEPT ![Supervisor] = None]
    BY <1>3 DEF CloseBegin
  <2>3. ConnectInv'
    BY <1>1, <1>2, <2>1, <2>2, WsConstants DEF ConnectInv, Connecting, Making, Frames
  <2> QED BY <1>1, <2>3 DEF ConnectKept, Sticks
<1>4. CASE ~Registering(Supervisor)
  <2>1. PICK p \in {"idle", "done"} :
          at' = [at EXCEPT ![Closer] = "stopping", ![Supervisor] = p]
    BY <1>4 DEF CloseBegin
  <2>2. /\ connector' = IF connector = Supervisor THEN None ELSE connector
        /\ frame' = [frame EXCEPT ![Supervisor] = None]
    BY <1>4 DEF CloseBegin
  <2>3. ConnectInv'
    BY <1>1, <1>2, <2>1, <2>2, WsConstants DEF ConnectInv, Connecting, Making, Frames
  <2> QED BY <1>1, <2>3 DEF ConnectKept, Sticks
<1> QED BY <1>3, <1>4

\* Calls, frames taken, the supervisor's loop and close() make no socket.
LEMMA OthersAreSafe ==
  ASSUME ConnectInv,
         \/ CallStep \/ Retire \/ Retired \/ SupervisorStep \/ CloseStep
         \/ \E u \in Utterances : TakeFrame(u)
  PROVE  ConnectKept
<1> USE DEF clientVars, lockVars, Making
<1> /\ {Setup, Supervisor, Closer} \subseteq Tasks
    /\ Senders \subseteq Tasks
    /\ Sessions \subseteq Tasks
    /\ Utterances \subseteq Tasks
  BY DEF Tasks, Connectors
<1>1. CASE StartBackground
  BY <1>1, GoMoves, MoveIsSafe DEF StartBackground
<1>2. ASSUME NEW s \in Senders, SendJobFrame(s) PROVE ConnectKept
  BY <1>2, GoMoves, MoveIsSafe DEF SendJobFrame
<1>3. ASSUME NEW u \in Utterances, StreamUtterance(u) PROVE ConnectKept
  BY <1>3, GoMoves, MoveIsSafe DEF StreamUtterance
<1>4. ASSUME NEW s \in Sessions, RegisterSession(s) PROVE ConnectKept
  BY <1>4, SendMoves, MoveIsSafe DEF RegisterSession
<1>5. ASSUME NEW u \in Utterances, TakeFrame(u) PROVE ConnectKept
  BY <1>5, SendMoves, EndMoves, MoveIsSafe DEF TakeFrame
<1>6. CASE Retire
  <2>1. CASE ws = gen[Setup]
    <3>1. OnlyMoves(Setup) /\ UNCHANGED <<connector, generation>>
      BY <1>6, <2>1, GoMoves DEF Retire
    <3>2. state' = "auth_failed" <=> state = "auth_failed"
      BY <1>6, <2>1 DEF Retire, Disconnect, Notify
    <3>3. Setup # None
      BY WsConstants
    <3> QED BY <3>1, <3>2, <3>3, MoveKeepsLock DEF ConnectKept, Sticks
  <2>2. CASE ws # gen[Setup]
    BY <1>6, <2>2, EndSetupIsOver, MoveIsSafe DEF Retire
  <2> QED BY <2>1, <2>2
<1>7. CASE Retired
  BY <1>7, EndSetupIsOver, MoveIsSafe DEF Retired
<1>8. CASE SupervisorStep
  <2>1. PICK p : Go(Supervisor, p) /\ p \notin Making
    BY <1>8 DEF SupervisorStep, LoopHead, WatchEnds, BackoffEnds, AfterLoopHead
  <2>2. UNCHANGED <<frame, connector, state, generation>>
    BY <1>8 DEF SupervisorStep, LoopHead, WatchEnds, BackoffEnds
  <2> QED BY <2>1, <2>2, GoMoves, MoveIsSafe
<1>9. CASE CloseStep
  BY <1>9, GoMoves, MoveIsSafe DEF CloseStep, TasksStopped, CloseSocket, CloseEnd
<1> QED BY <1>1, <1>2, <1>3, <1>4, <1>5, <1>6, <1>7, <1>8, <1>9, CancelIsSafe,
           CloseBeginIsSafe DEF CallStep

\* Every step keeps the invariant and does not forget a rejected secret.
LEMMA StepIsSafe ==
  ASSUME ConnectInv, [WsNext]_vars
  PROVE  ConnectKept
<1>1. CASE UNCHANGED vars
  BY <1>1, StillIsSafe DEF vars, clientVars, lockVars, taskVars
<1>2. CASE WsNext
  BY <1>2, ConnectIsSafe, SendIsSafe, ReaderIsSafe, OthersAreSafe
     DEF WsNext, NetworkStep, TaskStep
<1> QED BY <1>1, <1>2

\* For any tasks, calls and connections, a client whose
\* secret was rejected makes no further socket and stays rejected until close().
THEOREM RejectedSecretSticks == WsSafety => AuthFailureSticks
<1>1. ConnectInv /\ [WsNext]_vars => ConnectInv' /\ Sticks
  BY StepIsSafe DEF ConnectKept
<1>2. [][Sticks]_vars => AuthFailureSticks
  BY DEF Sticks, AuthFailureSticks
<1> QED BY <1>1, <1>2, ConnectInit, PTL DEF WsSafety

-----------------------------------------------------------------------------
(* Types, and where a task may be with what.                               *)

Places ==
  {"idle", "done", "lockWait", "dialing", "installing", "confirming", "undoing",
   "clearing", "sendWait", "sending", "retiring", "retired", "loop", "watching",
   "sleeping", "streaming", "stopping", "locking", "shutting"}

\* A task that works with no socket, in these places, and sends no frame.
Apart ==
  {"idle", "done", "lockWait", "dialing", "installing", "loop", "watching", "sleeping",
   "stopping", "locking", "shutting"}

Placed(t) ==
  /\ at[t] \in Apart => gen[t] = None /\ frame[t] = None
  /\ at[t] \notin Apart => gen[t] \in 1 .. generation
  /\ at[t] \in {"confirming", "undoing", "clearing"} => frame[t] = None
  /\ at[t] = "streaming" => frame[t] = "utterance"
  /\ frame[t] = "reroute" => t = Setup

\* WsTypeOK without the tasks.
ClientTypes ==
  /\ ws \in (1 .. generation) \cup {None}
  /\ generation \in 0 .. MaxGeneration
  /\ wsReader \in Generations \cup {None}
  /\ routeAck \in Generations \cup {None}
  /\ accepted \in BOOLEAN
  /\ registered \in Generations \cup {None}
  /\ routed \in BOOLEAN
  /\ state \in {"disconnected", "connected", "auth_failed"}
  /\ closed \in BOOLEAN
  /\ connector \in Connectors \cup {None}
  /\ writer \in Tasks \cup {None}
  /\ reader \in [Generations ->
                   {"none", "created", "reading", "ackWait", "cleanup", "done"}]
  /\ socket \in [Generations -> {"none", "open", "broken", "closed"}]
  /\ route \in [Generations -> {"unknown", "heard", "accepted", "refused"}]

TaskTypes ==
  /\ at \in [Tasks -> Places]
  /\ gen \in [Tasks -> Generations \cup {None}]
  /\ frame \in [Tasks -> Frames \cup {None}]

\* The inductive invariant of the tasks: each is in one of its places and holds a
\* generation only where it works with one; the supervisor runs only after
\* start_background, and close() only in a closed client.
TasksInv ==
  /\ ClientTypes
  /\ TaskTypes
  /\ \A t \in Tasks : Placed(t)
  /\ at[Supervisor] = "idle" \/ at[Setup] = "done"
  /\ at[Closer] # "idle" <=> closed
  /\ \A t \in Tasks : at[t] = "installing" => generation < MaxGeneration

\* Every task idles in the initial state.
LEMMA TasksInit == WsInit => TasksInv
<1> SUFFICES ASSUME WsInit PROVE TasksInv
  OBVIOUS
<1>1. generation = 0 /\ MaxGeneration \in Nat
  BY WsConstants DEF WsInit
<1>2. ClientTypes
  <2>1. accepted \in BOOLEAN /\ routed \in BOOLEAN /\ closed \in BOOLEAN
    BY DEF WsInit
  <2>2. generation \in 0 .. MaxGeneration
    BY <1>1
  <2>3. /\ reader \in [Generations ->
                   {"none", "created", "reading", "ackWait", "cleanup", "done"}]
        /\ socket \in [Generations -> {"none", "open", "broken", "closed"}]
        /\ route \in [Generations -> {"unknown", "heard", "accepted", "refused"}]
    BY DEF WsInit
  <2> QED BY <2>1, <2>2, <2>3 DEF WsInit, ClientTypes
<1>3. TaskTypes
  BY DEF WsInit, TaskTypes, Places
<1>4. \A t \in Tasks : at[t] = "idle" /\ gen[t] = None /\ frame[t] = None
  BY DEF WsInit
<1>5. Supervisor \in Tasks /\ Closer \in Tasks /\ ~closed
  BY DEF WsInit, Tasks, Connectors
<1> QED BY <1>2, <1>3, <1>4, <1>5, WsConstants DEF TasksInv, Placed, Apart, Frames

\* A step of t alone, but for the supervisor that the end of start_background starts.
Moved(t) ==
  /\ TaskTypes'
  /\ Placed(t)'
  /\ \A x \in Tasks \ {t} :
       /\ gen'[x] = gen[x]
       /\ frame'[x] = frame[x]
       /\ \/ at'[x] = at[x]
          \/ x = Supervisor /\ at[x] = "idle" /\ at'[x] = "loop" /\ ~closed
  /\ at'[Supervisor] = "idle" \/ at'[Setup] = "done"
  /\ at'[Closer] = at[Closer]

\* Who the tasks are.
LEMMA TaskNames ==
  /\ Connectors \subseteq Tasks /\ Sessions \subseteq Tasks
  /\ Senders \subseteq Connectors /\ Utterances \subseteq Connectors
  /\ Setup \in Connectors /\ Supervisor \in Connectors
  /\ Closer \in Tasks /\ Closer \notin Connectors \cup Sessions
  /\ Setup # Supervisor /\ None \notin Tasks
  /\ Setup \notin Senders \cup Sessions \cup Utterances
  /\ Supervisor \notin Senders \cup Sessions \cup Utterances
BY WsConstants DEF Tasks, Connectors

\* What starts the supervisor while start_background still runs: nothing.
LEMMA StartedLate ==
  ASSUME TasksInv
  PROVE  at[Setup] # "done" => at[Supervisor] = "idle"
BY DEF TasksInv

\* A task that goes to another place with the socket it works with.
LEMMA GoMoved ==
  ASSUME TasksInv, NEW t \in Connectors \cup Sessions, NEW p \in Places, Go(t, p),
         UNCHANGED <<gen, generation>>,
         UNCHANGED frame \/ frame' = [frame EXCEPT ![t] = None],
         p \in Apart <=> at[t] \in Apart,
         p = "streaming" => frame[t] = "utterance" /\ UNCHANGED frame,
         p \in {"confirming", "undoing", "clearing"} =>
           frame[t] = None \/ frame' = [frame EXCEPT ![t] = None],
         t = Setup => at[Setup] # "done",
         t = Supervisor => at[Supervisor] # "idle"
  PROVE  Moved(t)
<1>1. /\ t \in Tasks /\ t # Closer /\ Closer \in Tasks
      /\ Setup \in Tasks /\ Supervisor \in Tasks
  BY TaskNames
<1>2. at' = [at EXCEPT ![t] = p]
  BY DEF Go
<1>3. TaskTypes'
  BY <1>2 DEF TasksInv, TaskTypes
<1>4. at'[t] = p /\ gen'[t] = gen[t] /\ frame'[t] \in {frame[t], None}
  BY <1>1, <1>2 DEF TasksInv, TaskTypes
<1>5. Placed(t)'
  <2>1. p \in {"confirming", "undoing", "clearing"} => frame'[t] = None
    BY <1>1 DEF TasksInv, TaskTypes
  <2> QED BY <1>1, <1>4, <2>1, WsConstants DEF TasksInv, Placed, Frames
<1>6. \A x \in Tasks \ {t} : at'[x] = at[x] /\ gen'[x] = gen[x] /\ frame'[x] = frame[x]
  BY <1>2 DEF TasksInv, TaskTypes
<1>7. at'[Supervisor] = "idle" \/ at'[Setup] = "done"
  BY <1>1, <1>4, <1>6, StartedLate DEF TasksInv
<1> QED BY <1>1, <1>3, <1>5, <1>6, <1>7 DEF Moved

\* A coroutine that ends leaves its task without a socket.
LEMMA EndMoved ==
  ASSUME TasksInv, NEW t \in Connectors \cup Sessions, NEW p \in Apart, End(t, p),
         UNCHANGED generation,
         t = Setup => at[Setup] # "done",
         t = Supervisor => at[Supervisor] # "idle"
  PROVE  Moved(t) /\ at'[t] = p /\ gen'[t] = None /\ frame'[t] = None
<1>1. /\ t \in Tasks /\ t # Closer /\ Closer \in Tasks
      /\ Setup \in Tasks /\ Supervisor \in Tasks
  BY TaskNames
<1>2. /\ at' = [at EXCEPT ![t] = p]
      /\ gen' = [gen EXCEPT ![t] = None]
      /\ frame' = [frame EXCEPT ![t] = None]
  BY DEF End, Go
<1>3. TaskTypes'
  BY <1>2 DEF TasksInv, TaskTypes, Apart, Places
<1>4. at'[t] = p /\ gen'[t] = None /\ frame'[t] = None
  BY <1>1, <1>2 DEF TasksInv, TaskTypes
<1>5. Placed(t)'
  BY <1>4, WsConstants DEF Placed, Apart, Frames
<1>6. \A x \in Tasks \ {t} : at'[x] = at[x] /\ gen'[x] = gen[x] /\ frame'[x] = frame[x]
  BY <1>2 DEF TasksInv, TaskTypes
<1>7. at'[Supervisor] = "idle" \/ at'[Setup] = "done"
  BY <1>1, <1>4, <1>6, StartedLate DEF TasksInv
<1> QED BY <1>1, <1>3, <1>4, <1>5, <1>6, <1>7 DEF Moved

\* A task that is about to send a frame on a socket.
LEMMA SendMoved ==
  ASSUME TasksInv, NEW t \in Connectors \cup Sessions, NEW g \in (1 .. generation)',
         NEW f \in Frames, Send(t, g, f), generation' \in 0 .. MaxGeneration,
         f = "reroute" => t = Setup,
         t = Setup => at[Setup] # "done",
         t = Supervisor => at[Supervisor] # "idle"
  PROVE  Moved(t) /\ at'[t] = "sendWait" /\ gen'[t] = g /\ frame'[t] = f
<1>1. /\ t \in Tasks /\ t # Closer /\ Closer \in Tasks
      /\ Setup \in Tasks /\ Supervisor \in Tasks
  BY TaskNames
<1>2. /\ at' = [at EXCEPT ![t] = "sendWait"]
      /\ gen' = [gen EXCEPT ![t] = g]
      /\ frame' = [frame EXCEPT ![t] = f]
  BY DEF Send, Go
<1>3. g \in Generations
  BY WsConstants DEF Generations
<1>4. TaskTypes'
  BY <1>2, <1>3 DEF TasksInv, TaskTypes, Places
<1>5. at'[t] = "sendWait" /\ gen'[t] = g /\ frame'[t] = f
  BY <1>1, <1>2 DEF TasksInv, TaskTypes
<1>6. Placed(t)'
  BY <1>5 DEF Placed, Apart
<1>7. \A x \in Tasks \ {t} : at'[x] = at[x] /\ gen'[x] = gen[x] /\ frame'[x] = frame[x]
  BY <1>2 DEF TasksInv, TaskTypes
<1>8. at'[Supervisor] = "idle" \/ at'[Setup] = "done"
  BY <1>1, <1>5, <1>7, StartedLate DEF TasksInv
<1> QED BY <1>1, <1>4, <1>5, <1>6, <1>7, <1>8 DEF Moved

\* The end of start_background moves the supervisor too, which waited for it.
LEMMA EndSetupMoved ==
  ASSUME TasksInv, EndSetup, UNCHANGED generation, at[Setup] # "done"
  PROVE  Moved(Setup) /\ at'[Setup] = "done" /\ gen'[Setup] = None /\ frame'[Setup] = None
<1>1. /\ Setup # Supervisor /\ Setup # Closer /\ Supervisor # Closer
      /\ Setup \in Tasks /\ Supervisor \in Tasks /\ Closer \in Tasks
  BY TaskNames
<1>2. at[Supervisor] = "idle"
  BY StartedLate
<1>3. PICK p \in {"idle", "loop"} :
        /\ at' = [at EXCEPT ![Setup] = "done", ![Supervisor] = p]
        /\ closed => p = "idle"
  BY <1>1, <1>2 DEF EndSetup, TasksInv, TaskTypes
<1>4. /\ gen' = [gen EXCEPT ![Setup] = None]
      /\ frame' = [frame EXCEPT ![Setup] = None]
  BY DEF EndSetup
<1>5. TaskTypes'
  BY <1>3, <1>4 DEF TasksInv, TaskTypes, Places
<1>6. at'[Setup] = "done" /\ gen'[Setup] = None /\ frame'[Setup] = None
  BY <1>1, <1>3, <1>4 DEF TasksInv, TaskTypes
<1>7. Placed(Setup)'
  BY <1>6, WsConstants DEF Placed, Apart, Frames
<1>8. \A x \in Tasks \ {Setup} :
        /\ gen'[x] = gen[x]
        /\ frame'[x] = frame[x]
        /\ at'[x] = IF x = Supervisor THEN p ELSE at[x]
  BY <1>1, <1>3, <1>4 DEF TasksInv, TaskTypes
<1> QED BY <1>1, <1>2, <1>3, <1>5, <1>6, <1>7, <1>8 DEF Moved

\* Where the task is when _ensure_ws is over: it works with no socket, or is
\* about to send on the one it was given.
Freed(t) ==
  \/ at'[t] \in {"idle", "done", "loop", "sleeping"} /\ gen'[t] = None /\ frame'[t] = None
  \/ at'[t] = "sendWait" /\ frame'[t] \in Frames \ {"route"}

\* And when a send other than that of a registration in _ensure_ws raises.
FreedOrRetiring(t) ==
  \/ Freed(t)
  \/ t = Setup /\ at'[t] = "retiring" /\ gen'[t] = gen[t] /\ frame'[t] = frame[t]

\* _ensure_ws returns: its task is freed.
LEMMA ReturnedMoved ==
  ASSUME TasksInv, NEW t \in Connectors, NEW g \in 1 .. generation, Returned(t, g),
         UNCHANGED generation,
         at[t] \notin {"idle", "done"}
  PROVE  Moved(t) /\ Freed(t) /\ gen'[t] \in {g, None}
<1> USE DEF Freed, Apart, Frames
<1> generation' \in 0 .. MaxGeneration /\ g \in (1 .. generation)'
  BY DEF TasksInv, ClientTypes
<1>1. CASE EndSetup /\ t = Setup
  BY <1>1, EndSetupMoved
<1>2. CASE End(t, "loop")
  BY <1>2, EndMoved
<1>3. ASSUME NEW f \in Frames \ {"route"}, Send(t, g, f), f = "reroute" => t = Setup
      PROVE  Moved(t) /\ Freed(t) /\ gen'[t] = g
  BY <1>3, SendMoved
<1> QED BY <1>1, <1>2, <1>3 DEF Returned

\* _ensure_ws raises: its task is freed, and works with no socket.
LEMMA RaisedMoved ==
  ASSUME TasksInv, NEW t \in Connectors, NEW a \in BOOLEAN, Raised(t, a),
         UNCHANGED generation,
         at[t] \notin {"idle", "done"}
  PROVE  Moved(t) /\ Freed(t) /\ gen'[t] = None /\ frame'[t] = None
<1> USE DEF Freed, Apart
<1>1. CASE EndSetup /\ t = Setup
  BY <1>1, EndSetupMoved
<1>2. ASSUME NEW p \in {"idle", "done", "sleeping"}, End(t, p)
      PROVE  Moved(t) /\ Freed(t) /\ gen'[t] = None /\ frame'[t] = None
  BY <1>2, EndMoved
<1> QED BY <1>1, <1>2 DEF Raised

\* A task that begins to give up its socket keeps it until then.
LEMMA UndoMoved ==
  ASSUME TasksInv, NEW t \in Connectors \cup Sessions, Undo(t), UNCHANGED generation,
         at[t] \notin Apart
  PROVE  Moved(t) /\ at'[t] = "undoing" /\ gen'[t] = gen[t] /\ frame'[t] = None
<1>1. Moved(t)
  BY GoMoved DEF Undo, Apart, Places
<1>2. t \in Tasks
  BY TaskNames
<1> QED BY <1>1, <1>2 DEF Undo, Go, TasksInv, TaskTypes

\* A send that raises frees its task, or the task begins to undo its socket.
LEMMA SendRaisesMoved ==
  ASSUME TasksInv, NEW t \in Connectors \cup Sessions, SendRaises(t), UNCHANGED generation,
         at[t] \notin Apart
  PROVE  /\ Moved(t)
         /\ gen'[t] \in {gen[t], None}
         /\ \/ frame[t] = "route" /\ Undo(t) /\ at'[t] = "undoing" /\ gen'[t] = gen[t]
            \/ frame[t] # "route" /\ FreedOrRetiring(t)
<1> USE DEF Freed, FreedOrRetiring, Apart, Frames
<1> /\ generation' \in 0 .. MaxGeneration
    /\ t \in Tasks
    /\ gen[t] \in (1 .. generation)'
  BY TaskNames DEF TasksInv, ClientTypes, Placed
<1>1. CASE frame[t] = "route" /\ Undo(t)
  BY <1>1, UndoMoved
<1>2. CASE frame[t] # "route" /\ (End(t, "idle") \/ End(t, "done"))
  BY <1>2, EndMoved
<1>3. CASE frame[t] = "reroute" /\ Go(t, "retiring") /\ UNCHANGED <<gen, frame>>
  <2>1. Moved(t)
    BY <1>3, GoMoved DEF Places
  <2>2. at'[t] = "retiring" /\ gen'[t] = gen[t] /\ frame'[t] = "reroute"
    BY <1>3 DEF Go, TasksInv, TaskTypes
  <2>3. t = Setup
    BY <1>3 DEF TasksInv, Placed
  <2> QED BY <1>3, <2>1, <2>2, <2>3
<1>4. CASE frame[t] # "route" /\ Send(t, gen[t], "cancel")
  BY <1>4, SendMoved
<1> QED BY <1>1, <1>2, <1>3, <1>4 DEF SendRaises, AbandonUtterance

\* What the steps of _ensure_ws do to their task.
LEMMA ConnectMoves ==
  ASSUME TasksInv, NEW t \in Connectors
  PROVE  /\ EnsureWs(t) =>
              /\ Moved(t)
              /\ \/ Freed(t) /\ gen'[t] \in {ws, None} /\ UNCHANGED connector
                 \/ /\ at'[t] = "dialing" /\ gen'[t] = None /\ frame'[t] = None
                    /\ connector' = t
                    /\ ~HasSocket /\ ~closed
         /\ DialRefused(t) \/ DialFails(t) =>
              Moved(t) /\ Freed(t) /\ gen'[t] = None /\ frame'[t] = None
         /\ DialSucceeds(t) =>
              /\ Moved(t) /\ gen'[t] = None /\ frame'[t] = None
              /\ \/ closed /\ Freed(t) /\ Leave(t)
                 \/ ~closed /\ at'[t] = "installing" /\ UNCHANGED connector
         /\ Confirm(t) =>
              /\ Moved(t)
              /\ \/ StillCurrent(t) /\ Freed(t) /\ gen'[t] \in {gen[t], None}
                 \/ ~StillCurrent(t) /\ at'[t] = "undoing" /\ gen'[t] = gen[t] /\ frame'[t] = None
         /\ ReaderJoined(t) =>
              Moved(t) /\ at'[t] = "clearing" /\ gen'[t] = gen[t] /\ frame'[t] = frame[t]
         /\ Clear(t) => Moved(t) /\ Freed(t) /\ gen'[t] = None /\ frame'[t] = None
<1> USE DEF clientVars, lockVars
<1> t \in Tasks
  BY TaskNames
<1>1. ASSUME NEW p \in Places, Go(t, p), UNCHANGED <<gen, frame>>
      PROVE  at'[t] = p /\ gen'[t] = gen[t] /\ frame'[t] = frame[t]
  BY <1>1 DEF Go, TasksInv, TaskTypes
<1>2. EnsureWs(t) =>
        /\ Moved(t)
        /\ \/ Freed(t) /\ gen'[t] \in {ws, None} /\ UNCHANGED connector
           \/ /\ at'[t] = "dialing" /\ gen'[t] = None /\ frame'[t] = None
              /\ connector' = t
              /\ ~HasSocket /\ ~closed
  <2> SUFFICES ASSUME EnsureWs(t)
               PROVE  /\ Moved(t)
                      /\ \/ Freed(t) /\ gen'[t] \in {ws, None} /\ UNCHANGED connector
                         \/ /\ at'[t] = "dialing" /\ gen'[t] = None /\ frame'[t] = None
                            /\ connector' = t
                            /\ ~HasSocket /\ ~closed
    OBVIOUS
  <2>1. at[t] = "lockWait" /\ UNCHANGED generation
    BY DEF EnsureWs, TakeConnectLock
  <2>2. ASSUME NEW a \in BOOLEAN, Raised(t, a) PROVE Moved(t) /\ Freed(t) /\ gen'[t] = None
    BY <2>1, <2>2, RaisedMoved
  <2>3. CASE UNCHANGED connector /\ (Raised(t, FALSE) \/ Raised(t, TRUE))
    BY <2>2, <2>3
  <2>4. CASE UNCHANGED connector /\ HasSocket /\ Returned(t, ws)
    <3>1. ws \in 1 .. generation
      BY <2>4 DEF TasksInv, ClientTypes, HasSocket
    <3> QED BY <2>1, <2>4, <3>1, ReturnedMoved
  <2>5. CASE ~HasSocket /\ ~closed /\ connector' = t /\ Go(t, "dialing") /\ UNCHANGED <<gen, frame>>
    <3>1. Moved(t)
      BY <2>1, <2>5, GoMoved DEF Apart, Places
    <3>2. gen[t] = None /\ frame[t] = None
      BY <2>1 DEF TasksInv, Placed, Apart
    <3> QED BY <1>1, <2>5, <3>1, <3>2 DEF Places
  <2> QED BY <2>3, <2>4, <2>5 DEF EnsureWs, TakeConnectLock
<1>3. DialRefused(t) \/ DialFails(t) =>
        Moved(t) /\ Freed(t) /\ gen'[t] = None /\ frame'[t] = None
  BY RaisedMoved DEF DialRefused, DialFails
<1>4. DialSucceeds(t) =>
        /\ Moved(t) /\ gen'[t] = None /\ frame'[t] = None
        /\ \/ closed /\ Freed(t) /\ Leave(t)
           \/ ~closed /\ at'[t] = "installing" /\ UNCHANGED connector
  <2> SUFFICES ASSUME DialSucceeds(t)
               PROVE  /\ Moved(t) /\ gen'[t] = None /\ frame'[t] = None
                      /\ \/ closed /\ Freed(t) /\ Leave(t)
                         \/ ~closed /\ at'[t] = "installing" /\ UNCHANGED connector
    OBVIOUS
  <2>1. at[t] = "dialing" /\ UNCHANGED generation
    BY DEF DialSucceeds
  <2>2. CASE closed
    BY <2>1, <2>2, RaisedMoved DEF DialSucceeds
  <2>3. CASE ~closed
    <3>1. Go(t, "installing") /\ UNCHANGED <<gen, frame, connector>>
      BY <2>3 DEF DialSucceeds
    <3>2. Moved(t)
      BY <2>1, <3>1, GoMoved DEF Apart, Places
    <3>3. gen[t] = None /\ frame[t] = None
      BY <2>1 DEF TasksInv, Placed, Apart
    <3> QED BY <1>1, <2>3, <3>1, <3>2, <3>3 DEF Places
  <2> QED BY <2>2, <2>3
<1>5. Confirm(t) =>
        /\ Moved(t)
        /\ \/ StillCurrent(t) /\ Freed(t) /\ gen'[t] \in {gen[t], None}
           \/ ~StillCurrent(t) /\ at'[t] = "undoing" /\ gen'[t] = gen[t] /\ frame'[t] = None
  <2> SUFFICES ASSUME Confirm(t)
               PROVE  /\ Moved(t)
                      /\ \/ StillCurrent(t) /\ Freed(t) /\ gen'[t] \in {gen[t], None}
                         \/ /\ ~StillCurrent(t) /\ at'[t] = "undoing" /\ gen'[t] = gen[t]
                            /\ frame'[t] = None
    OBVIOUS
  <2>1. at[t] = "confirming" /\ UNCHANGED generation
    BY DEF Confirm
  <2>2. CASE StillCurrent(t)
    <3>1. gen[t] \in 1 .. generation
      BY <2>1 DEF TasksInv, Placed, Apart
    <3> QED BY <2>1, <2>2, <3>1, ReturnedMoved DEF Confirm
  <2>3. CASE ~StillCurrent(t)
    BY <2>1, <2>3, UndoMoved DEF Confirm, Apart
  <2> QED BY <2>2, <2>3
<1>6. ReaderJoined(t) =>
        Moved(t) /\ at'[t] = "clearing" /\ gen'[t] = gen[t] /\ frame'[t] = frame[t]
  <2> SUFFICES ASSUME ReaderJoined(t)
               PROVE  /\ Moved(t) /\ at'[t] = "clearing"
                      /\ gen'[t] = gen[t] /\ frame'[t] = frame[t]
    OBVIOUS
  <2>1. at[t] = "undoing" /\ Go(t, "clearing") /\ UNCHANGED <<gen, frame, generation>>
    BY DEF ReaderJoined
  <2>2. frame[t] = None
    BY <2>1 DEF TasksInv, Placed
  <2> QED BY <1>1, <2>1, <2>2, GoMoved DEF Apart, Places
<1>7. Clear(t) => Moved(t) /\ Freed(t) /\ gen'[t] = None /\ frame'[t] = None
  BY RaisedMoved DEF Clear
<1> QED BY <1>2, <1>3, <1>4, <1>5, <1>6, <1>7

\* The socket is installed by a task that then registers or confirms it.
LEMMA InstallMoves ==
  ASSUME TasksInv, NEW t \in Connectors, Install(t)
  PROVE  /\ Moved(t)
         /\ \/ closed /\ Freed(t) /\ gen'[t] = None /\ UNCHANGED generation
            \/ /\ ~closed /\ generation' = generation + 1 /\ gen'[t] = generation + 1
               /\ \/ at'[t] = "sendWait" /\ frame'[t] = "route"
                  \/ at'[t] = "confirming" /\ frame'[t] = None
<1>0. t \in Tasks /\ Closer \in Tasks /\ t # Closer /\ Setup \in Tasks /\ Supervisor \in Tasks
  BY TaskNames
<1>1. at[t] = "installing" /\ generation < MaxGeneration /\ generation \in Nat
  BY <1>0, WsConstants DEF Install, TasksInv, ClientTypes
<1>2. CASE closed
  BY <1>1, <1>2, RaisedMoved DEF Install
<1>3. CASE ~closed
  <2>1. generation' = generation + 1
    BY <1>3 DEF Install
  <2>2. generation' \in 0 .. MaxGeneration /\ generation + 1 \in (1 .. generation)'
    BY <1>1, <2>1, WsConstants
  <2>3. CASE routed
    <3>1. Send(t, generation + 1, "route")
      BY <1>3, <2>3 DEF Install
    <3> QED BY <1>1, <1>3, <2>1, <2>2, <3>1, SendMoved DEF Frames
  <2>4. CASE ~routed
    <3>1. /\ at' = [at EXCEPT ![t] = "confirming"]
          /\ gen' = [gen EXCEPT ![t] = generation + 1]
          /\ frame' = frame
      BY <1>3, <2>4 DEF Install, Go
    <3>2. generation + 1 \in Generations
      BY <1>1, WsConstants DEF Generations
    <3>3. TaskTypes'
      BY <3>1, <3>2 DEF TasksInv, TaskTypes, Places
    <3>4. at'[t] = "confirming" /\ gen'[t] = generation + 1 /\ frame'[t] = None
      BY <1>0, <1>1, <3>1 DEF TasksInv, TaskTypes, Placed, Apart
    <3>5. Placed(t)'
      BY <2>2, <3>4, WsConstants DEF Placed, Apart, Frames
    <3>6. \A x \in Tasks \ {t} : at'[x] = at[x] /\ gen'[x] = gen[x] /\ frame'[x] = frame[x]
      BY <3>1 DEF TasksInv, TaskTypes
    <3>7. at'[Supervisor] = "idle" \/ at'[Setup] = "done"
      BY <1>0, <1>1, <3>4, <3>6 DEF TasksInv
    <3> QED BY <1>0, <1>3, <2>1, <3>3, <3>4, <3>5, <3>6, <3>7 DEF Moved
  <2> QED BY <2>3, <2>4
<1> QED BY <1>2, <1>3

\* The steps of _send_json free their task, or leave it in _ensure_ws.
LEMMA FrameMoves ==
  ASSUME TasksInv, NEW t \in Connectors \cup Sessions
  PROVE  /\ BeginSend(t) =>
              /\ Moved(t)
              /\ gen'[t] \in {gen[t], None}
              /\ \/ /\ MaySend(t) /\ at'[t] = "sending"
                    /\ gen'[t] = gen[t] /\ frame'[t] = frame[t]
                 \/ ~MaySend(t) /\ frame[t] = "route" /\ at'[t] = "undoing" /\ gen'[t] = gen[t]
                 \/ ~MaySend(t) /\ frame[t] # "route" /\ FreedOrRetiring(t)
         /\ EndSend(t) =>
              /\ Moved(t)
              /\ \/ frame[t] = "route" /\ at'[t] = "confirming" /\ gen'[t] = gen[t]
                 \/ frame[t] # "route" /\ Freed(t) /\ gen'[t] = None
                 \/ /\ frame[t] = "utterance" /\ at'[t] = "streaming"
                    /\ gen'[t] = gen[t] /\ frame'[t] = frame[t]
         /\ BreakSend(t) =>
              /\ Moved(t)
              /\ gen'[t] \in {gen[t], None}
              /\ \/ frame[t] = "route" /\ at'[t] = "undoing" /\ gen'[t] = gen[t]
                 \/ frame[t] # "route" /\ FreedOrRetiring(t)
<1> USE DEF clientVars, lockVars, Apart, Places
<1> t \in Tasks
  BY TaskNames
<1>1. BeginSend(t) =>
        /\ Moved(t)
        /\ gen'[t] \in {gen[t], None}
        /\ \/ /\ MaySend(t) /\ at'[t] = "sending"
              /\ gen'[t] = gen[t] /\ frame'[t] = frame[t]
           \/ ~MaySend(t) /\ frame[t] = "route" /\ at'[t] = "undoing" /\ gen'[t] = gen[t]
           \/ ~MaySend(t) /\ frame[t] # "route" /\ FreedOrRetiring(t)
  <2>1. CASE BeginSend(t) /\ MaySend(t)
    <3>1. Go(t, "sending") /\ UNCHANGED <<gen, frame, generation>> /\ at[t] = "sendWait"
      BY <2>1 DEF BeginSend
    <3>2. Moved(t)
      BY <3>1, GoMoved
    <3>3. at'[t] = "sending" /\ gen'[t] = gen[t] /\ frame'[t] = frame[t]
      BY <3>1 DEF Go, TasksInv, TaskTypes
    <3> QED BY <2>1, <3>2, <3>3
  <2>2. CASE BeginSend(t) /\ ~MaySend(t)
    <3>1. SendRaises(t) /\ UNCHANGED generation /\ at[t] = "sendWait"
      BY <2>2 DEF BeginSend
    <3> QED BY <2>2, <3>1, SendRaisesMoved
  <2> QED BY <2>1, <2>2
<1>2. EndSend(t) =>
        /\ Moved(t)
        /\ \/ frame[t] = "route" /\ at'[t] = "confirming" /\ gen'[t] = gen[t]
           \/ frame[t] # "route" /\ Freed(t) /\ gen'[t] = None
           \/ /\ frame[t] = "utterance" /\ at'[t] = "streaming"
              /\ gen'[t] = gen[t] /\ frame'[t] = frame[t]
  <2> SUFFICES ASSUME EndSend(t)
               PROVE  /\ Moved(t)
                      /\ \/ frame[t] = "route" /\ at'[t] = "confirming" /\ gen'[t] = gen[t]
                         \/ frame[t] # "route" /\ Freed(t) /\ gen'[t] = None
                         \/ /\ frame[t] = "utterance" /\ at'[t] = "streaming"
                            /\ gen'[t] = gen[t] /\ frame'[t] = frame[t]
    OBVIOUS
  <2>1. at[t] = "sending" /\ UNCHANGED generation
    BY DEF EndSend
  <2>2. CASE /\ frame[t] = "route" /\ Go(t, "confirming")
             /\ frame' = [frame EXCEPT ![t] = None] /\ UNCHANGED gen
    <3>1. Moved(t)
      BY <2>1, <2>2, GoMoved
    <3> QED BY <2>2, <3>1 DEF Go, TasksInv, TaskTypes
  <2>3. CASE frame[t] = "reroute" /\ EndSetup
    <3>1. t = Setup
      BY <2>3 DEF TasksInv, Placed
    <3> QED BY <2>1, <2>3, <3>1, EndSetupMoved DEF Freed
  <2>4. CASE frame[t] # "route" /\ (End(t, "idle") \/ End(t, "done"))
    BY <2>1, <2>4, EndMoved DEF Freed
  <2>5. CASE frame[t] = "utterance" /\ Go(t, "streaming") /\ UNCHANGED <<gen, frame>>
    <3>1. Moved(t)
      BY <2>1, <2>5, GoMoved
    <3> QED BY <2>5, <3>1 DEF Go, TasksInv, TaskTypes
  <2> QED BY <2>2, <2>3, <2>4, <2>5 DEF EndSend
<1>3. BreakSend(t) =>
        /\ Moved(t)
        /\ gen'[t] \in {gen[t], None}
        /\ \/ frame[t] = "route" /\ at'[t] = "undoing" /\ gen'[t] = gen[t]
           \/ frame[t] # "route" /\ FreedOrRetiring(t)
  <2> SUFFICES ASSUME BreakSend(t)
               PROVE  /\ Moved(t)
                      /\ gen'[t] \in {gen[t], None}
                      /\ \/ frame[t] = "route" /\ at'[t] = "undoing" /\ gen'[t] = gen[t]
                         \/ frame[t] # "route" /\ FreedOrRetiring(t)
    OBVIOUS
  <2>1. SendRaises(t) /\ UNCHANGED generation /\ at[t] = "sending"
    BY DEF BreakSend
  <2> QED BY <2>1, SendRaisesMoved
<1> QED BY <1>1, <1>2, <1>3

\* A cancelled task is free, or undoes its socket.
LEMMA CancelMoves ==
  ASSUME TasksInv, NEW t \in Cancellable, Cancel(t)
  PROVE  /\ Moved(t)
         /\ gen'[t] \in {gen[t], None}
         /\ \/ /\ at[t] \in {"lockWait", "dialing", "installing", "clearing", "undoing"}
               /\ Leave(t) /\ gen'[t] = None /\ Freed(t)
            \/ Registering(t) /\ Undo(t) /\ UNCHANGED connector /\ at'[t] = "undoing"
               /\ gen'[t] = gen[t] /\ frame'[t] = None
            \/ /\ at[t] \in {"sendWait", "sending", "streaming"}
               /\ ~Registering(t) /\ SendRaises(t) /\ UNCHANGED connector /\ Freed(t)
<1> USE DEF clientVars, Apart
<1> t \in Connectors \cup Sessions /\ t \in Tasks
  BY TaskNames DEF Cancellable
<1> t # Setup /\ t # Supervisor
  BY TaskNames DEF Cancellable
<1>1. UNCHANGED generation
  BY DEF Cancel
<1>2. CASE /\ at[t] \in {"lockWait", "dialing", "installing", "clearing", "undoing"}
           /\ Leave(t) /\ (End(t, "idle") \/ End(t, "done"))
  BY <1>1, <1>2, EndMoved DEF Freed
<1>3. CASE Registering(t) /\ Undo(t) /\ UNCHANGED connector
  <2>1. CASE at[t] \notin Apart
    BY <1>1, <1>3, <2>1, UndoMoved
  <2>2. CASE at[t] \in Apart
    <3>1. frame[t] = None
      BY <2>2 DEF TasksInv, Placed
    <3> QED BY <1>3, <2>2, <3>1, WsConstants DEF Registering, Frames
  <2> QED BY <2>1, <2>2
<1>4. CASE /\ at[t] \in {"sendWait", "sending", "streaming"}
           /\ ~Registering(t) /\ SendRaises(t) /\ UNCHANGED connector
  BY <1>1, <1>4, SendRaisesMoved DEF Registering, FreedOrRetiring
<1> QED BY <1>2, <1>3, <1>4 DEF Cancel

\* The end of start_background, of a streamed utterance, and the supervisor.
LEMMA OtherMoves ==
  ASSUME TasksInv
  PROVE  /\ Retire => /\ Moved(Setup)
                      /\ at'[Setup] \in {"done", "retired"}
                      /\ frame'[Setup] \in {frame[Setup], None}
                      /\ gen'[Setup] \in {gen[Setup], None}
         /\ Retired => Moved(Setup) /\ at'[Setup] = "done" /\ gen'[Setup] = None
         /\ SupervisorStep =>
              /\ Moved(Supervisor)
              /\ at'[Supervisor] \in {"done", "watching", "lockWait", "loop"}
              /\ gen'[Supervisor] = None /\ frame'[Supervisor] = None
         /\ \A u \in Utterances : TakeFrame(u) =>
              /\ Moved(u) /\ Freed(u)
              /\ frame'[u] \in {"receipt", None}
              /\ gen'[u] \in {gen[u], None}
<1> USE DEF clientVars, Apart, Places
<1> /\ Setup \in Connectors /\ Supervisor \in Connectors /\ Setup # Supervisor
    /\ Setup \in Tasks /\ Supervisor \in Tasks /\ Utterances \subseteq Connectors
    /\ Setup \notin Utterances /\ Supervisor \notin Utterances
    /\ Utterances \subseteq Tasks
  BY TaskNames
<1>1. ASSUME Retire
      PROVE  /\ Moved(Setup)
             /\ at'[Setup] \in {"done", "retired"}
             /\ frame'[Setup] \in {frame[Setup], None}
             /\ gen'[Setup] \in {gen[Setup], None}
  <2>1. at[Setup] = "retiring" /\ UNCHANGED generation
    BY <1>1 DEF Retire
  <2>2. CASE EndSetup
    BY <2>1, <2>2, EndSetupMoved
  <2>3. CASE Go(Setup, "retired") /\ UNCHANGED <<gen, frame>>
    <3>1. Moved(Setup)
      BY <2>1, <2>3, GoMoved
    <3> QED BY <2>3, <3>1 DEF Go, TasksInv, TaskTypes
  <2> QED BY <1>1, <2>2, <2>3 DEF Retire
<1>2. ASSUME Retired PROVE Moved(Setup) /\ at'[Setup] = "done" /\ gen'[Setup] = None
  <2>1. at[Setup] = "retired" /\ UNCHANGED generation /\ EndSetup
    BY <1>2 DEF Retired
  <2> QED BY <2>1, EndSetupMoved
<1>3. ASSUME SupervisorStep
      PROVE  /\ Moved(Supervisor)
             /\ at'[Supervisor] \in {"done", "watching", "lockWait", "loop"}
             /\ gen'[Supervisor] = None /\ frame'[Supervisor] = None
  <2>1. /\ at[Supervisor] \in {"loop", "watching", "sleeping"}
        /\ UNCHANGED <<gen, frame, generation>>
    BY <1>3 DEF SupervisorStep, LoopHead, WatchEnds, BackoffEnds
  <2>2. PICK p \in {"done", "watching", "lockWait", "loop"} : Go(Supervisor, p)
    BY <1>3 DEF SupervisorStep, LoopHead, WatchEnds, BackoffEnds, AfterLoopHead
  <2>3. Moved(Supervisor)
    BY <2>1, <2>2, GoMoved
  <2>4. gen[Supervisor] = None /\ frame[Supervisor] = None
    BY <2>1 DEF TasksInv, Placed
  <2> QED BY <2>1, <2>2, <2>3, <2>4 DEF Go, TasksInv, TaskTypes
<1>4. ASSUME NEW u \in Utterances, TakeFrame(u)
      PROVE  /\ Moved(u) /\ Freed(u)
             /\ frame'[u] \in {"receipt", None}
             /\ gen'[u] \in {gen[u], None}
  <2>1. at[u] = "streaming" /\ UNCHANGED generation
    BY <1>4 DEF TakeFrame
  <2>2. CASE End(u, "done")
    BY <2>1, <2>2, EndMoved DEF Freed
  <2>3. CASE Send(u, gen[u], "receipt")
    <3>1. gen[u] \in (1 .. generation)' /\ generation' \in 0 .. MaxGeneration
      BY <2>1 DEF TasksInv, ClientTypes, Placed
    <3> QED BY <2>1, <2>3, <3>1, SendMoved DEF Freed, Frames
  <2> QED BY <1>4, <2>2, <2>3 DEF TakeFrame
<1> QED BY <1>1, <1>2, <1>3, <1>4

\* Calls move the task that makes them.
LEMMA CallMoves ==
  ASSUME TasksInv
  PROVE  /\ StartBackground => Moved(Setup) /\ at'[Setup] = "lockWait"
         /\ \A s \in Senders : SendJobFrame(s) => Moved(s) /\ at'[s] = "lockWait"
         /\ \A u \in Utterances : StreamUtterance(u) => Moved(u) /\ at'[u] = "lockWait"
         /\ \A s \in Sessions : RegisterSession(s) =>
              Moved(s) /\ at'[s] = "sendWait" /\ gen'[s] = ws /\ frame'[s] = "session"
<1> USE DEF clientVars, Apart, Places
<1> /\ Setup \in Connectors /\ Setup # Supervisor /\ Connectors \subseteq Tasks
    /\ Utterances \subseteq Connectors /\ Senders \subseteq Connectors
    /\ Setup \notin Utterances \cup Senders \cup Sessions
    /\ Supervisor \notin Utterances \cup Senders \cup Sessions
  BY TaskNames
<1>1. ASSUME NEW t \in Connectors, t # Supervisor, at[t] = "idle", Go(t, "lockWait"),
             UNCHANGED <<gen, frame, generation>>
      PROVE  Moved(t) /\ at'[t] = "lockWait"
  <2>1. Moved(t)
    BY <1>1, GoMoved
  <2> QED BY <1>1, <2>1 DEF Go, TasksInv, TaskTypes
<1>2. StartBackground => Moved(Setup) /\ at'[Setup] = "lockWait"
  BY <1>1 DEF StartBackground
<1>3. \A s \in Senders : SendJobFrame(s) => Moved(s) /\ at'[s] = "lockWait"
  BY <1>1 DEF SendJobFrame
<1>4. \A u \in Utterances : StreamUtterance(u) => Moved(u) /\ at'[u] = "lockWait"
  BY <1>1 DEF StreamUtterance
<1>5. ASSUME NEW s \in Sessions, RegisterSession(s)
      PROVE  Moved(s) /\ at'[s] = "sendWait" /\ gen'[s] = ws /\ frame'[s] = "session"
  <2>1. ws \in (1 .. generation)' /\ generation' \in 0 .. MaxGeneration
    BY <1>5 DEF RegisterSession, HasSocket, TasksInv, ClientTypes
  <2> QED BY <1>5, <2>1, SendMoved DEF RegisterSession, Frames
<1> QED BY <1>2, <1>3, <1>4, <1>5

\* Cancelled readers are in one of their states.
LEMMA CancelTypes ==
  ASSUME ClientTypes, NEW gs, CancelReaders(gs)
  PROVE  reader' \in [Generations ->
                        {"none", "created", "reading", "ackWait", "cleanup", "done"}]
BY DEF CancelReaders, ClientTypes

\* What a send that raises does to the client: it cancels a reader at most.
LEMMA RaisingTypes ==
  ASSUME ClientTypes, NEW t, SendRaises(t)
  PROVE  reader' \in [Generations ->
                        {"none", "created", "reading", "ackWait", "cleanup", "done"}]
<1>1. CASE CancelReaders({gen[t]})
  BY <1>1, CancelTypes
<1>2. CASE UNCHANGED reader
  BY <1>2 DEF ClientTypes
<1> QED BY <1>1, <1>2 DEF SendRaises, Undo, AbandonUtterance

\* The socket is given up with what was negotiated on it.
LEMMA DisconnectTypes ==
  ASSUME ClientTypes, Disconnect
  PROVE  /\ ws' = None /\ routeAck' = None /\ accepted' \in BOOLEAN
         /\ state' \in {"disconnected", "connected", "auth_failed"}
BY DEF ClientTypes, Disconnect, Notify

\* The steps of _ensure_ws keep the types of the client.
LEMMA ConnectTypes ==
  ASSUME TasksInv, NEW t \in Connectors, ConnectStep(t)
  PROVE  ClientTypes'
<1> USE DEF clientVars, lockVars
<1>0. ClientTypes
  BY DEF TasksInv
<1>1. CASE EnsureWs(t) \/ DialFails(t) \/ DialSucceeds(t)
  BY <1>0, <1>1
     DEF ClientTypes, EnsureWs, TakeConnectLock, DialFails, DialSucceeds, Leave
<1>2. CASE DialRefused(t)
  BY <1>0, <1>2 DEF ClientTypes, DialRefused, Notify, Leave
<1>3. CASE Install(t)
  <2>1. t \in Tasks
    BY TaskNames
  <2>2. generation + 1 \in Generations /\ generation \in Nat /\ MaxGeneration \in Nat
    BY <1>3, <2>1, WsConstants DEF Install, TasksInv, ClientTypes, Generations
  <2>3. CASE closed
    BY <1>0, <1>3, <2>3 DEF ClientTypes, Install, Leave
  <2>4. CASE ~closed
    <3>1. /\ ws' = generation + 1 /\ generation' = generation + 1 /\ wsReader' = generation + 1
          /\ routeAck' = None /\ accepted' = FALSE /\ registered' = None
          /\ reader' = [reader EXCEPT ![generation + 1] = "created"]
          /\ socket' = [socket EXCEPT ![generation + 1] = "open"]
          /\ UNCHANGED <<routed, state, closed, connector, writer, route>>
      BY <1>3, <2>4 DEF Install, ForgetNegotiation
    <3>2. generation' \in 0 .. MaxGeneration /\ ws' \in 1 .. generation'
      BY <2>2, <3>1 DEF Generations
    <3>3. /\ reader' \in [Generations ->
                   {"none", "created", "reading", "ackWait", "cleanup", "done"}]
          /\ socket' \in [Generations -> {"none", "open", "broken", "closed"}]
      BY <1>0, <3>1 DEF ClientTypes
    <3>4. accepted' \in BOOLEAN /\ routed' \in BOOLEAN /\ closed' \in BOOLEAN
      BY <1>0, <3>1 DEF ClientTypes
    <3> QED BY <1>0, <2>2, <3>1, <3>2, <3>3, <3>4 DEF ClientTypes
  <2> QED BY <2>3, <2>4
<1>4. CASE Confirm(t)
  <2>1. CASE StillCurrent(t)
    BY <1>0, <1>4, <2>1 DEF ClientTypes, Confirm, Notify, Leave
  <2>2. CASE ~StillCurrent(t)
    BY <1>0, <1>4, <2>2, CancelTypes DEF ClientTypes, Confirm, Undo
  <2> QED BY <2>1, <2>2
<1>5. CASE ReaderJoined(t)
  <2>1. UNCHANGED <<clientVars, lockVars, reader, route>>
    BY <1>5 DEF ReaderJoined
  <2>2. socket' \in [Generations -> {"none", "open", "broken", "closed"}]
    BY <1>0, <1>5 DEF ClientTypes, ReaderJoined
  <2> QED BY <1>0, <2>1, <2>2 DEF ClientTypes
<1>6. CASE Clear(t)
  <2>1. CASE ws = gen[t]
    BY <1>0, <1>6, <2>1, DisconnectTypes DEF ClientTypes, Clear, Leave
  <2>2. CASE ws # gen[t]
    BY <1>0, <1>6, <2>2 DEF ClientTypes, Clear, Leave
  <2> QED BY <2>1, <2>2
<1> QED BY <1>1, <1>2, <1>3, <1>4, <1>5, <1>6 DEF ConnectStep

\* So do those of _send_json.
LEMMA SendTypes ==
  ASSUME TasksInv, NEW t \in Connectors \cup Sessions, SendStep(t)
  PROVE  ClientTypes'
<1> USE DEF clientVars, lockVars
<1>0. ClientTypes /\ t \in Tasks /\ gen[t] \in Generations \cup {None}
  BY TaskNames DEF TasksInv, TaskTypes
<1>1. CASE BeginSend(t)
  <2>1. CASE MaySend(t)
    <3>1. /\ writer' = t
          /\ route' = [route EXCEPT ![gen[t]] =
                         IF frame[t] \in {"route", "reroute"} /\ @ = "unknown" THEN "heard" ELSE @]
          /\ UNCHANGED <<clientVars, connector, reader, socket>>
      BY <1>1, <2>1 DEF BeginSend
    <3>2. route' \in [Generations -> {"unknown", "heard", "accepted", "refused"}]
      BY <1>0, <3>1 DEF ClientTypes
    <3> QED BY <1>0, <3>1, <3>2 DEF ClientTypes
  <2>2. CASE ~MaySend(t)
    BY <1>0, <1>1, <2>2, RaisingTypes DEF BeginSend, ClientTypes
  <2> QED BY <2>1, <2>2
<1>2. CASE EndSend(t)
  BY <1>0, <1>2 DEF EndSend, Unlock, ClientTypes
<1>3. CASE BreakSend(t)
  <2>1. /\ socket' = [socket EXCEPT ![gen[t]] = IF @ = "open" THEN "broken" ELSE @]
        /\ Unlock(t)
        /\ UNCHANGED <<clientVars, connector, route>>
    BY <1>3 DEF BreakSend
  <2>2. socket' \in [Generations -> {"none", "open", "broken", "closed"}]
    BY <1>0, <2>1 DEF ClientTypes
  <2>3. reader' \in [Generations ->
                       {"none", "created", "reading", "ackWait", "cleanup", "done"}]
    BY <1>0, <1>3, RaisingTypes DEF BreakSend
  <2> QED BY <1>0, <2>1, <2>2, <2>3 DEF ClientTypes, Unlock
<1> QED BY <1>1, <1>2, <1>3 DEF SendStep

\* And the readers and Casa.
LEMMA ReaderTypes ==
  ASSUME TasksInv, NEW g \in Generations, ReaderStep(g) \/ RouteAnswered(g) \/ Drop(g)
  PROVE  ClientTypes'
<1> USE DEF clientVars, lockVars
<1>0. ClientTypes
  BY DEF TasksInv
<1>1. CASE ReaderStarts(g) \/ ReaderEnds(g) \/ Drop(g)
  BY <1>0, <1>1 DEF ClientTypes, ReaderStarts, ReaderEnds, Drop
<1>2. CASE HandleRouteAck(g)
  BY <1>0, <1>2 DEF ClientTypes, HandleRouteAck, RecordAck
<1>3. CASE Cleanup(g)
  <2>1. CASE OwnsCurrent(g)
    BY <1>0, <1>3, <2>1, DisconnectTypes DEF ClientTypes, Cleanup
  <2>2. CASE ~OwnsCurrent(g)
    BY <1>0, <1>3, <2>2 DEF ClientTypes, Cleanup
  <2> QED BY <2>1, <2>2
<1>4. CASE RouteAnswered(g)
  BY <1>0, <1>4 DEF ClientTypes, RouteAnswered
<1> QED BY <1>1, <1>2, <1>3, <1>4 DEF ReaderStep

\* And everything else.
LEMMA OtherTypes ==
  ASSUME TasksInv,
         \/ CallStep \/ Retire \/ Retired \/ SupervisorStep \/ CloseStep
         \/ \E u \in Utterances : TakeFrame(u) \/ UtteranceAnswered(u)
  PROVE  ClientTypes'
<1> USE DEF clientVars, lockVars
<1>0. ClientTypes /\ Closer \in Tasks
  BY TaskNames DEF TasksInv
<1>1. CASE StartBackground \/ \E s : SendJobFrame(s) \/ StreamUtterance(s) \/ RegisterSession(s)
  <2>1. UNCHANGED <<ws, generation, wsReader, routeAck, accepted, registered, state, closed>>
    BY <1>1 DEF StartBackground, SendJobFrame, StreamUtterance, RegisterSession
  <2>2. UNCHANGED <<lockVars, reader, socket, route>> /\ routed' \in {routed, TRUE}
    BY <1>1 DEF StartBackground, SendJobFrame, StreamUtterance, RegisterSession
  <2>3. routed' \in BOOLEAN
    BY <1>0, <2>2 DEF ClientTypes
  <2> QED BY <1>0, <2>1, <2>2, <2>3 DEF ClientTypes
<1>2. ASSUME NEW t \in Cancellable, Cancel(t) PROVE ClientTypes'
  <2>1. reader' \in [Generations ->
                       {"none", "created", "reading", "ackWait", "cleanup", "done"}]
    <3>1. CASE UNCHANGED reader
      BY <1>0, <3>1 DEF ClientTypes
    <3>2. CASE CancelReaders({gen[t]})
      BY <1>0, <3>2, CancelTypes
    <3>3. CASE SendRaises(t)
      BY <1>0, <3>3, RaisingTypes
    <3> QED BY <1>2, <3>1, <3>2, <3>3 DEF Cancel, Undo
  <2>2. connector' \in {connector, None} /\ writer' \in {writer, None}
    BY <1>2 DEF Cancel, Leave, Unlock
  <2>3. UNCHANGED <<clientVars, socket, route>>
    BY <1>2 DEF Cancel
  <2> QED BY <1>0, <2>1, <2>2, <2>3 DEF ClientTypes
<1>3. CASE CloseBegin
  <2>1. reader' \in [Generations ->
                       {"none", "created", "reading", "ackWait", "cleanup", "done"}]
    BY <1>0, <1>3, CancelTypes DEF CloseBegin
  <2>2. connector' \in {connector, None} /\ writer' \in {writer, None}
    BY <1>3 DEF CloseBegin, Unlock
  <2>3. /\ closed' = TRUE /\ state' = "disconnected"
        /\ UNCHANGED <<ws, generation, wsReader, routeAck, accepted, registered, routed,
                       socket, route>>
    BY <1>3 DEF CloseBegin
  <2>4. closed' \in BOOLEAN
    BY <2>3
  <2> QED BY <1>0, <2>1, <2>2, <2>3, <2>4 DEF ClientTypes
<1>4. CASE Retire
  <2>1. CASE ws = gen[Setup]
    <3>1. reader' \in [Generations ->
                         {"none", "created", "reading", "ackWait", "cleanup", "done"}]
      BY <1>0, <1>4, <2>1, CancelTypes DEF Retire
    <3> QED BY <1>0, <1>4, <2>1, <3>1, DisconnectTypes DEF ClientTypes, Retire
  <2>2. CASE ws # gen[Setup]
    BY <1>0, <1>4, <2>2 DEF ClientTypes, Retire
  <2> QED BY <2>1, <2>2
<1>5. CASE Retired \/ SupervisorStep \/ TasksStopped
  BY <1>0, <1>5
     DEF ClientTypes, Retired, SupervisorStep, LoopHead, WatchEnds, BackoffEnds, TasksStopped
<1>6. CASE CloseSocket
  BY <1>0, <1>6 DEF ClientTypes, CloseSocket, ShutSocket
<1>7. CASE CloseEnd
  <2>1. accepted' \in BOOLEAN
    BY <1>7 DEF CloseEnd
  <2> QED BY <1>0, <1>7, <2>1 DEF ClientTypes, CloseEnd, Unlock
<1>8. CASE \E u \in Utterances : TakeFrame(u) \/ UtteranceAnswered(u)
  BY <1>0, <1>8 DEF ClientTypes, TakeFrame, UtteranceAnswered
<1> QED BY <1>1, <1>2, <1>3, <1>4, <1>5, <1>6, <1>7, <1>8 DEF CallStep, CloseStep

\* A step of one task keeps the invariant of the tasks.
LEMMA MovedKeepsTasks ==
  ASSUME TasksInv, NEW t \in Tasks, Moved(t), ClientTypes', UNCHANGED closed,
         generation' \in {generation, generation + 1},
         \A x \in Tasks : at'[x] = "installing" => generation' < MaxGeneration
  PROVE  TasksInv'
<1>1. generation \in Nat /\ Closer \in Tasks
  BY TaskNames, WsConstants DEF TasksInv, ClientTypes
<1>2. \A x \in Tasks : Placed(x)'
  <2> SUFFICES ASSUME NEW x \in Tasks, x # t PROVE Placed(x)'
    BY DEF Moved
  <2>1. Placed(x) /\ gen'[x] = gen[x] /\ frame'[x] = frame[x]
    BY DEF Moved, TasksInv
  <2>2. CASE at'[x] = at[x]
    <3>1. gen[x] \in 1 .. generation => gen[x] \in 1 .. generation'
      BY <1>1
    <3> QED BY <2>1, <2>2, <3>1 DEF Placed
  <2>3. CASE at[x] = "idle" /\ at'[x] = "loop"
    BY <2>1, <2>3 DEF Placed, Apart
  <2> QED BY <2>2, <2>3 DEF Moved
<1>3. (at[Closer] # "idle" <=> closed)'
  BY DEF Moved, TasksInv
<1> QED BY <1>2, <1>3 DEF Moved, TasksInv

\* A step that makes no socket lets no more tasks install one.
LEMMA MovedElsewhere ==
  ASSUME TasksInv, NEW t \in Tasks, Moved(t), ClientTypes', UNCHANGED <<closed, generation>>,
         at'[t] # "installing"
  PROVE  TasksInv'
<1>1. \A x \in Tasks : at'[x] = "installing" => generation' < MaxGeneration
  <2> SUFFICES ASSUME NEW x \in Tasks, at'[x] = "installing" PROVE generation < MaxGeneration
    OBVIOUS
  <2>1. x # t /\ at[x] = "installing"
    BY DEF Moved
  <2> QED BY <2>1 DEF TasksInv
<1> QED BY <1>1, MovedKeepsTasks

\* A step that moves no task keeps the invariant of the tasks.
LEMMA StillKeepsTasks ==
  ASSUME TasksInv, ClientTypes', UNCHANGED <<at, gen, frame, closed, generation>>
  PROVE  TasksInv'
BY DEF TasksInv, TaskTypes, Placed

\* close() and its parts keep it as well.
LEMMA CloseKeepsTasks ==
  ASSUME TasksInv, ClientTypes', CloseBegin \/ CloseStep
  PROVE  TasksInv'
<1> USE DEF clientVars, lockVars
<1>0. /\ Closer \in Tasks /\ Supervisor \in Tasks /\ Setup \in Tasks
      /\ Closer # Supervisor /\ Closer # Setup /\ Setup # Supervisor
  BY TaskNames
<1>1. CASE CloseBegin
  <2>1. PICK p \in {"idle", "done", "undoing"}, g \in Generations \cup {None} :
          /\ at' = [at EXCEPT ![Closer] = "stopping", ![Supervisor] = p]
          /\ gen' = [gen EXCEPT ![Supervisor] = g]
          /\ frame' = [frame EXCEPT ![Supervisor] = None]
          /\ p = "idle" => at[Supervisor] = "idle"
          /\ p = "undoing" => Registering(Supervisor) /\ g = gen[Supervisor]
          /\ p # "undoing" => g = None
    <3>1. CASE Registering(Supervisor)
      BY <1>0, <1>1, <3>1 DEF CloseBegin, TasksInv, TaskTypes
    <3>2. CASE ~Registering(Supervisor) /\ at[Supervisor] = "idle"
      BY <1>0, <1>1, <3>2 DEF CloseBegin, TasksInv, TaskTypes
    <3>3. CASE ~Registering(Supervisor) /\ at[Supervisor] # "idle"
      BY <1>0, <1>1, <3>3 DEF CloseBegin, TasksInv, TaskTypes
    <3> QED BY <3>1, <3>2, <3>3
  <2>2. closed' /\ generation' = generation
    BY <1>1 DEF CloseBegin
  <2>3. at[Closer] = "idle"
    BY <1>1 DEF CloseBegin, TasksInv
  <2>4. TaskTypes'
    BY <2>1 DEF TasksInv, TaskTypes, Places
  <2>5. /\ at'[Closer] = "stopping" /\ gen'[Closer] = gen[Closer] /\ frame'[Closer] = frame[Closer]
        /\ at'[Supervisor] = p /\ gen'[Supervisor] = g /\ frame'[Supervisor] = None
        /\ \A x \in Tasks \ {Closer, Supervisor} :
             at'[x] = at[x] /\ gen'[x] = gen[x] /\ frame'[x] = frame[x]
    BY <1>0, <2>1 DEF TasksInv, TaskTypes
  <2>6. Registering(Supervisor) => gen[Supervisor] \in 1 .. generation
    BY <1>0, WsConstants DEF Registering, TasksInv, Placed, Apart, Frames
  <2>7. \A x \in Tasks : Placed(x)'
    <3>1. Placed(Closer)'
      BY <1>0, <2>3, <2>5, WsConstants DEF TasksInv, Placed, Apart
    <3>2. Placed(Supervisor)'
      BY <1>0, <2>1, <2>2, <2>5, <2>6, WsConstants DEF Placed, Apart, Frames
    <3>3. \A x \in Tasks \ {Closer, Supervisor} : Placed(x)'
      BY <2>2, <2>5 DEF TasksInv, Placed
    <3> QED BY <3>1, <3>2, <3>3
  <2>8. at'[Supervisor] = "idle" \/ at'[Setup] = "done"
    <3>1. p # "idle" => at[Supervisor] # "idle"
      <4>1. Registering(Supervisor) => at[Supervisor] # "idle"
        BY <1>0, WsConstants DEF Registering, TasksInv, Placed, Apart, Frames
      <4> QED BY <1>0, <1>1, <2>5, <4>1 DEF CloseBegin, TasksInv, TaskTypes
    <3> QED BY <1>0, <2>5, <3>1 DEF TasksInv
  <2>9. \A x \in Tasks : at'[x] = "installing" => generation' < MaxGeneration
    BY <2>1, <2>2, <2>5 DEF TasksInv
  <2> QED BY <2>2, <2>4, <2>5, <2>7, <2>8, <2>9 DEF TasksInv
<1>2. CASE CloseStep
  <2>1. /\ at[Closer] \in {"stopping", "locking", "shutting"}
        /\ UNCHANGED <<gen, frame, generation, closed>>
    BY <1>2 DEF CloseStep, TasksStopped, CloseSocket, CloseEnd
  <2>2. PICK p \in {"locking", "shutting", "done"} : at' = [at EXCEPT ![Closer] = p]
    BY <1>2 DEF CloseStep, TasksStopped, CloseSocket, CloseEnd, Go
  <2>3. TaskTypes'
    BY <2>1, <2>2 DEF TasksInv, TaskTypes, Places
  <2>4. at'[Closer] = p /\ \A x \in Tasks \ {Closer} : at'[x] = at[x]
    BY <1>0, <2>2 DEF TasksInv, TaskTypes
  <2>5. \A x \in Tasks : Placed(x)'
    BY <2>1, <2>4 DEF TasksInv, Placed, Apart
  <2>6. \A x \in Tasks : at'[x] = "installing" => generation' < MaxGeneration
    BY <2>1, <2>4 DEF TasksInv
  <2>7. (at[Closer] # "idle" <=> closed)'
    BY <2>1, <2>4 DEF TasksInv
  <2> QED BY <1>0, <2>3, <2>4, <2>5, <2>6, <2>7 DEF TasksInv
<1> QED BY <1>1, <1>2

\* Every step keeps the invariant of the tasks.
LEMMA TasksStep ==
  ASSUME TasksInv, ConnectInv, [WsNext]_vars
  PROVE  TasksInv'
<1> USE DEF clientVars, lockVars, taskVars
<1> /\ Connectors \subseteq Tasks /\ Sessions \subseteq Tasks
    /\ Setup \in Connectors /\ Supervisor \in Connectors
    /\ Senders \subseteq Connectors /\ Utterances \subseteq Connectors
  BY TaskNames
<1>1. ASSUME NEW t \in Connectors, ConnectStep(t) PROVE TasksInv'
  <2>0. ClientTypes' /\ t \in Tasks
    BY <1>1, ConnectTypes
  <2>1. CASE DialSucceeds(t)
    <3>1. Moved(t) /\ UNCHANGED <<closed, generation>>
      BY <2>1, ConnectMoves DEF DialSucceeds
    <3>2. ASSUME NEW x \in Tasks, at'[x] = "installing" PROVE generation' < MaxGeneration
      <4>1. CASE x = t
        <5>1. ~closed
          BY <2>1, <3>2, <4>1, ConnectMoves DEF Freed
        <5> QED BY <2>1, <3>1, <5>1 DEF DialSucceeds
      <4>2. CASE x # t
        BY <3>1, <3>2, <4>2 DEF Moved, TasksInv
      <4> QED BY <4>1, <4>2
    <3> QED BY <2>0, <3>1, <3>2, MovedKeepsTasks
  <2>2. CASE Install(t)
    <3>1. connector = t
      BY <2>0, <2>2 DEF Install, ConnectInv, Connecting, Making
    <3>2. Moved(t) /\ UNCHANGED closed /\ generation' \in {generation, generation + 1}
      BY <2>2, InstallMoves DEF Install
    <3>3. ASSUME NEW x \in Tasks PROVE at'[x] # "installing"
      <4>1. CASE x = t
        BY <2>2, <4>1, InstallMoves DEF Freed
      <4>2. CASE x # t
        <5>1. at[x] # "installing"
          BY <3>1, <4>2 DEF ConnectInv, Connecting, Making
        <5> QED BY <3>2, <4>2, <5>1 DEF Moved
      <4> QED BY <4>1, <4>2
    <3> QED BY <2>0, <3>2, <3>3, MovedKeepsTasks
  <2>3. CASE EnsureWs(t) \/ DialRefused(t) \/ DialFails(t) \/ Confirm(t) \/ ReaderJoined(t) \/ Clear(t)
    <3>1. Moved(t) /\ at'[t] # "installing"
      BY <2>3, ConnectMoves DEF Freed
    <3>2. UNCHANGED <<closed, generation>>
      BY <2>3 DEF EnsureWs, DialRefused, DialFails, Confirm, ReaderJoined, Clear
    <3> QED BY <2>0, <3>1, <3>2, MovedElsewhere
  <2> QED BY <1>1, <2>1, <2>2, <2>3 DEF ConnectStep
<1>2. ASSUME NEW t \in Connectors \cup Sessions, SendStep(t) PROVE TasksInv'
  <2>1. ClientTypes' /\ t \in Tasks
    BY <1>2, SendTypes
  <2>2. Moved(t) /\ at'[t] # "installing"
    BY <1>2, FrameMoves DEF SendStep, Freed, FreedOrRetiring
  <2>3. UNCHANGED <<closed, generation>>
    BY <1>2 DEF SendStep, BeginSend, EndSend, BreakSend
  <2> QED BY <2>1, <2>2, <2>3, MovedElsewhere
<1>3. ASSUME NEW g \in Generations, ReaderStep(g) \/ RouteAnswered(g) \/ Drop(g) PROVE TasksInv'
  <2>1. ClientTypes'
    BY <1>3, ReaderTypes
  <2>2. UNCHANGED <<at, gen, frame, closed, generation>>
    BY <1>3
       DEF ReaderStep, ReaderStarts, HandleRouteAck, ReaderEnds, Cleanup, RouteAnswered, Drop
  <2> QED BY <2>1, <2>2, StillKeepsTasks
<1>4. ASSUME NEW u \in Utterances, UtteranceAnswered(u) PROVE TasksInv'
  BY <1>4, OtherTypes, StillKeepsTasks DEF UtteranceAnswered
<1>5. ASSUME NEW u \in Utterances, TakeFrame(u) PROVE TasksInv'
  <2>1. Moved(u) /\ at'[u] # "installing" /\ UNCHANGED <<closed, generation>>
    BY <1>5, OtherMoves DEF TakeFrame, Freed
  <2> QED BY <1>5, <2>1, OtherTypes, MovedElsewhere
<1>6. CASE Retire \/ Retired
  <2>1. Moved(Setup) /\ at'[Setup] # "installing" /\ UNCHANGED <<closed, generation>>
    BY <1>6, OtherMoves DEF Retire, Retired
  <2> QED BY <1>6, <2>1, OtherTypes, MovedElsewhere
<1>7. CASE SupervisorStep
  <2>1. Moved(Supervisor) /\ at'[Supervisor] # "installing" /\ UNCHANGED <<closed, generation>>
    BY <1>7, OtherMoves DEF SupervisorStep, LoopHead, WatchEnds, BackoffEnds
  <2> QED BY <1>7, <2>1, OtherTypes, MovedElsewhere
<1>8. CASE CloseBegin \/ CloseStep
  BY <1>8, OtherTypes, CloseKeepsTasks DEF CallStep
<1>9. CASE StartBackground
  <2>1. Moved(Setup) /\ at'[Setup] # "installing" /\ UNCHANGED <<closed, generation>>
    BY <1>9, CallMoves DEF StartBackground
  <2> QED BY <1>9, <2>1, OtherTypes, MovedElsewhere DEF CallStep
<1>10. ASSUME NEW s \in Senders, SendJobFrame(s) PROVE TasksInv'
  <2>1. Moved(s) /\ at'[s] # "installing" /\ UNCHANGED <<closed, generation>>
    BY <1>10, CallMoves DEF SendJobFrame
  <2> QED BY <1>10, <2>1, OtherTypes, MovedElsewhere DEF CallStep
<1>11. ASSUME NEW u \in Utterances, StreamUtterance(u) PROVE TasksInv'
  <2>1. Moved(u) /\ at'[u] # "installing" /\ UNCHANGED <<closed, generation>>
    BY <1>11, CallMoves DEF StreamUtterance
  <2> QED BY <1>11, <2>1, OtherTypes, MovedElsewhere DEF CallStep
<1>12. ASSUME NEW s \in Sessions, RegisterSession(s) PROVE TasksInv'
  <2>1. Moved(s) /\ at'[s] # "installing" /\ UNCHANGED <<closed, generation>>
    BY <1>12, CallMoves DEF RegisterSession
  <2> QED BY <1>12, <2>1, OtherTypes, MovedElsewhere DEF CallStep
<1>13. ASSUME NEW t \in Cancellable, Cancel(t) PROVE TasksInv'
  <2>1. Moved(t) /\ at'[t] # "installing" /\ UNCHANGED <<closed, generation>> /\ t \in Tasks
    BY <1>13, CancelMoves DEF Cancel, Freed, Cancellable
  <2> QED BY <1>13, <2>1, OtherTypes, MovedElsewhere DEF CallStep
<1>14. CASE UNCHANGED vars
  BY <1>14 DEF vars, TasksInv, ClientTypes, TaskTypes, Placed
<1> QED BY <1>1, <1>2, <1>3, <1>4, <1>5, <1>6, <1>7, <1>8, <1>9, <1>10, <1>11, <1>12, <1>13,
           <1>14 DEF WsNext, CallStep, NetworkStep, TaskStep

\* For any tasks and number of sockets: whatever order calls, losses and
\* cancellations come in, the state of the client stays within its types.
THEOREM ClientTypesHold == WsSafety => []WsTypeOK
<1>1. ConnectInv /\ [WsNext]_vars => ConnectInv'
  BY StepIsSafe DEF ConnectKept
<1>2. TasksInv /\ ConnectInv /\ [WsNext]_vars => TasksInv'
  BY TasksStep
<1>3. TasksInv => WsTypeOK
  <2> SUFFICES ASSUME TasksInv PROVE WsTypeOK
    OBVIOUS
  <2>1. ws \in Generations \cup {None}
    <3>1. generation \in 0 .. MaxGeneration /\ MaxGeneration \in Nat
      BY WsConstants DEF TasksInv, ClientTypes
    <3>2. 1 .. generation \subseteq Generations
      BY <3>1 DEF Generations
    <3> QED BY <3>2 DEF TasksInv, ClientTypes
  <2> QED BY <2>1 DEF TasksInv, ClientTypes, TaskTypes, WsTypeOK
<1> QED BY <1>1, <1>2, <1>3, ConnectInit, TasksInit, PTL DEF WsSafety

-----------------------------------------------------------------------------
(* Job frames.                                                             *)

\* What a step of one task leaves of the others.
LEMMA OthersStay ==
  ASSUME TasksInv, NEW t \in Tasks, Moved(t), NEW x \in Tasks, x # t
  PROVE  /\ gen'[x] = gen[x]
         /\ frame'[x] = frame[x]
         /\ \/ at'[x] = at[x]
            \/ x = Supervisor /\ at[x] = "idle" /\ at'[x] = "loop" /\ ~closed
BY DEF Moved

\* A frame is being written only by a task that was found to be allowed to.
LEMMA SendingBegins ==
  ASSUME TasksInv, WsNext, NEW s \in Connectors \cup Sessions, at'[s] = "sending"
  PROVE  /\ gen'[s] = gen[s] /\ frame'[s] = frame[s]
         /\ at[s] = "sending" \/ (BeginSend(s) /\ MaySend(s))
<1> USE DEF clientVars, lockVars, taskVars, Freed, FreedOrRetiring
<1>0. /\ Connectors \subseteq Tasks /\ Sessions \subseteq Tasks
      /\ Setup \in Connectors /\ Supervisor \in Connectors /\ s # Closer /\ s \in Tasks
      /\ Senders \subseteq Connectors /\ Utterances \subseteq Connectors
  BY TaskNames
<1>1. ASSUME NEW t \in Tasks, Moved(t), at'[t] # "sending"
      PROVE  gen'[s] = gen[s] /\ frame'[s] = frame[s] /\ at[s] = "sending"
  <2>1. s # t
    BY <1>1
  <2> QED BY <1>0, <1>1, <2>1, OthersStay
<1>2. ASSUME NEW t \in Connectors, ConnectStep(t)
      PROVE  gen'[s] = gen[s] /\ frame'[s] = frame[s] /\ at[s] = "sending"
  <2>1. Moved(t) /\ at'[t] # "sending"
    BY <1>2, ConnectMoves, InstallMoves DEF ConnectStep
  <2> QED BY <1>0, <1>1, <2>1
<1>3. ASSUME NEW t \in Connectors \cup Sessions, SendStep(t)
      PROVE  /\ gen'[s] = gen[s] /\ frame'[s] = frame[s]
             /\ at[s] = "sending" \/ (BeginSend(s) /\ MaySend(s))
  <2>1. CASE at'[t] # "sending"
    <3>1. Moved(t)
      BY <1>3, FrameMoves DEF SendStep
    <3> QED BY <1>0, <1>1, <2>1, <3>1
  <2>2. CASE at'[t] = "sending"
    <3>1. BeginSend(t) /\ MaySend(t) /\ Moved(t) /\ gen'[t] = gen[t] /\ frame'[t] = frame[t]
      BY <1>3, <2>2, FrameMoves DEF SendStep
    <3>2. CASE s = t
      BY <3>1, <3>2
    <3>3. CASE s # t
      BY <1>0, <3>1, <3>3, OthersStay
    <3> QED BY <3>2, <3>3
  <2> QED BY <2>1, <2>2
<1>4. CASE \/ \E g \in Generations : ReaderStep(g) \/ RouteAnswered(g) \/ Drop(g)
           \/ \E u \in Utterances : UtteranceAnswered(u)
  <2>1. UNCHANGED taskVars
    BY <1>4
       DEF ReaderStep, ReaderStarts, HandleRouteAck, ReaderEnds, Cleanup, RouteAnswered, Drop,
           UtteranceAnswered
  <2> QED BY <2>1
<1>5. CASE Retire \/ Retired \/ SupervisorStep \/ \E u \in Utterances : TakeFrame(u)
  <2>1. PICK t \in Tasks : Moved(t) /\ at'[t] # "sending"
    BY <1>0, <1>5, OtherMoves
  <2> QED BY <1>1, <2>1
<1>6. CASE StartBackground \/ \E x \in Senders : SendJobFrame(x)
  <2>1. PICK t \in Tasks : Moved(t) /\ at'[t] # "sending"
    BY <1>0, <1>6, CallMoves
  <2> QED BY <1>1, <2>1
<1>7. CASE (\E u \in Utterances : StreamUtterance(u)) \/ \E x \in Sessions : RegisterSession(x)
  <2>1. PICK t \in Tasks : Moved(t) /\ at'[t] # "sending"
    BY <1>0, <1>7, CallMoves
  <2> QED BY <1>1, <2>1
<1>8. ASSUME NEW t \in Cancellable, Cancel(t)
      PROVE  gen'[s] = gen[s] /\ frame'[s] = frame[s] /\ at[s] = "sending"
  <2>1. Moved(t) /\ at'[t] # "sending" /\ t \in Tasks
    BY <1>0, <1>8, CancelMoves DEF Cancellable
  <2> QED BY <1>1, <2>1
<1>9. CASE CloseBegin
  <2>1. at'[s] = at[s] /\ s # Supervisor
    BY <1>0, <1>9 DEF CloseBegin, TasksInv, TaskTypes
  <2> QED BY <1>0, <1>9, <2>1 DEF CloseBegin, TasksInv, TaskTypes
<1>10. CASE CloseStep
  <2>1. at'[s] = at[s]
    BY <1>0, <1>10 DEF CloseStep, TasksStopped, CloseSocket, CloseEnd, Go, TasksInv, TaskTypes
  <2> QED BY <1>10, <2>1 DEF CloseStep, TasksStopped, CloseSocket, CloseEnd
<1> QED BY <1>2, <1>3, <1>4, <1>5, <1>6, <1>7, <1>8, <1>9, <1>10
        DEF WsNext, CallStep, NetworkStep, TaskStep

\* What Casa answered on a socket is final.
LEMMA AnswersAreFinal ==
  ASSUME TasksInv, WsNext, NEW g \in Generations, route[g] = "accepted"
  PROVE  route'[g] = "accepted"
<1> USE DEF clientVars, lockVars, taskVars
<1>1. CASE UNCHANGED route
  BY <1>1
<1>2. ASSUME NEW t, BeginSend(t) PROVE route'[g] = "accepted"
  BY <1>2 DEF BeginSend, TasksInv, ClientTypes
<1>3. ASSUME NEW h, RouteAnswered(h) PROVE route'[g] = "accepted"
  BY <1>3 DEF RouteAnswered, TasksInv, ClientTypes
<1>4. ASSUME NEW t, ConnectStep(t) PROVE UNCHANGED route
  BY <1>4
     DEF ConnectStep, EnsureWs, DialRefused, DialFails, DialSucceeds, Install, Confirm,
         ReaderJoined, Clear
<1>5. ASSUME NEW t, EndSend(t) \/ BreakSend(t) PROVE UNCHANGED route
  BY <1>5 DEF EndSend, BreakSend
<1>6. CASE \E h : ReaderStep(h) \/ Drop(h) \/ UtteranceAnswered(h) \/ TakeFrame(h)
  BY <1>1, <1>6
     DEF ReaderStep, ReaderStarts, HandleRouteAck, ReaderEnds, Cleanup, Drop,
         UtteranceAnswered, TakeFrame
<1>7. CASE Retire \/ Retired \/ SupervisorStep \/ CloseStep
  BY <1>1, <1>7
     DEF Retire, Retired, SupervisorStep, LoopHead, WatchEnds, BackoffEnds, CloseStep,
         TasksStopped, CloseSocket, CloseEnd
<1>8. CASE CallStep
  BY <1>1, <1>8
     DEF CallStep, StartBackground, SendJobFrame, StreamUtterance, RegisterSession, Cancel,
         CloseBegin
<1> QED BY <1>1, <1>2, <1>3, <1>4, <1>5, <1>6, <1>7, <1>8
        DEF WsNext, NetworkStep, TaskStep, SendStep

\* For any tasks, sockets and managers: however often the connection was replaced
\* since a manager was given its job, its frames are written only where Casa has
\* accepted the route.
THEOREM JobsAreSentWhereAccepted == WsSafety => []JobFramesAfterAcceptance
<1> DEFINE Inv == NegotiationInv /\ ConnectInv /\ TasksInv
<1>1. Inv /\ [WsNext]_vars => Inv'
  BY NegotiationStep, StepIsSafe, TasksStep DEF ConnectKept
<1>2. WsInit => JobFramesAfterAcceptance
  BY TaskNames DEF WsInit, JobFramesAfterAcceptance
<1>3. Inv /\ JobFramesAfterAcceptance /\ [WsNext]_vars => JobFramesAfterAcceptance'
  <2> SUFFICES ASSUME Inv, JobFramesAfterAcceptance, [WsNext]_vars,
                      NEW s \in Senders, at'[s] = "sending", frame'[s] = "job"
               PROVE  route'[gen'[s]] = "accepted"
    BY DEF JobFramesAfterAcceptance
  <2>1. CASE UNCHANGED vars
    BY <2>1 DEF vars, taskVars, JobFramesAfterAcceptance
  <2>2. CASE WsNext
    <3>1. /\ gen'[s] = gen[s] /\ frame[s] = "job"
          /\ at[s] = "sending" \/ (BeginSend(s) /\ MaySend(s))
      BY <2>2, SendingBegins, TaskNames
    <3>2. route[gen[s]] = "accepted"
      <4>1. CASE at[s] = "sending"
        BY <3>1, <4>1 DEF JobFramesAfterAcceptance
      <4>2. CASE MaySend(s)
        BY <3>1, <4>2 DEF MaySend, Usable, Background, NegotiationInv
      <4> QED BY <3>1, <4>1, <4>2
    <3>3. gen[s] \in Generations
      BY <3>1, <3>2, WsConstants, TaskNames
         DEF TasksInv, TaskTypes, ClientTypes, Placed, BeginSend, Apart, Generations
    <3> QED BY <2>2, <3>1, <3>2, <3>3, AnswersAreFinal
  <2> QED BY <2>1, <2>2
<1> QED BY <1>1, <1>2, <1>3, ConnectInit, TasksInit, NegotiationInit, PTL DEF WsSafety

-----------------------------------------------------------------------------
(* Sockets and their readers.                                              *)

Undoing(t) == at[t] \in {"undoing", "clearing"}

\* The inductive invariant: a current socket has a reader that lives, or the task
\* that made it is about to give it up; CONNECTED means that there is one.
Watched ==
  /\ state = "connected" => ws # None /\ ~closed
  /\ ws # None => closed \/ Alive(ws) \/ \E t \in Connectors : Undoing(t) /\ gen[t] = ws

\* A step that takes from the current socket neither its reader nor the task that
\* gives it up, unless it gives the socket up itself.
LEMMA WatchMoves ==
  ASSUME TasksInv, Watched, NEW t \in Tasks, Moved(t), UNCHANGED closed,
         state' \in {state, "disconnected", "auth_failed"},
         \/ UNCHANGED ws
         \/ ws' = None /\ (closed \/ state' # "connected"),
         ws' # None => \/ UNCHANGED reader
                       \/ Alive(ws) => Alive(ws)',
         Undoing(t) /\ gen[t] = ws /\ ws' # None => Undoing(t)' /\ gen'[t] = gen[t]
  PROVE  Watched'
<1>1. (state = "connected" => ws # None /\ ~closed)'
  BY DEF Watched
<1>2. ASSUME ws' # None
      PROVE  closed' \/ Alive(ws)' \/ \E x \in Connectors : Undoing(x)' /\ gen'[x] = ws'
  <2>1. ws' = ws /\ ws # None
    BY <1>2
  <2>2. CASE closed \/ Alive(ws)
    BY <1>2, <2>1, <2>2 DEF Alive
  <2>3. ASSUME NEW x \in Connectors, Undoing(x), gen[x] = ws
        PROVE  Undoing(x)' /\ gen'[x] = ws'
    <3>1. CASE x = t
      BY <1>2, <2>1, <2>3, <3>1
    <3>2. CASE x # t
      <4>1. x \in Tasks
        BY TaskNames
      <4> QED BY <2>1, <2>3, <3>2, <4>1, OthersStay DEF Undoing
    <3> QED BY <3>1, <3>2
  <2> QED BY <2>1, <2>2, <2>3 DEF Watched
<1> QED BY <1>1, <1>2 DEF Watched

\* A step of t that leaves socket, state and readers alone.
LEMMA PlainMoves ==
  ASSUME TasksInv, Watched, NEW t \in Tasks, Moved(t), ~Undoing(t),
         UNCHANGED <<closed, state, ws, reader>>
  PROVE  Watched'
BY WatchMoves

\* A task that begins to undo its socket is the one that gives it up.
LEMMA UndoWatched ==
  ASSUME TasksInv, Watched, NEW t \in Connectors, Moved(t), ~Undoing(t),
         at'[t] = "undoing", gen'[t] = gen[t], CancelReaders({gen[t]}),
         UNCHANGED <<closed, state, ws>>
  PROVE  Watched'
<1> t \in Tasks
  BY TaskNames
<1>1. CASE gen[t] = ws
  BY <1>1 DEF Watched, Undoing
<1>2. CASE gen[t] # ws /\ ws # None
  <2>1. ws \in Generations
    <3>1. generation \in 0 .. MaxGeneration /\ MaxGeneration \in Nat
      BY WsConstants DEF TasksInv, ClientTypes
    <3> QED BY <1>2, <3>1 DEF TasksInv, ClientTypes, Generations
  <2>2. reader'[ws] = reader[ws]
    BY <1>2, <2>1 DEF CancelReaders
  <2> QED BY <1>2, <2>2, WatchMoves DEF Alive
<1>3. CASE ws = None
  BY <1>3, WatchMoves
<1> QED BY <1>1, <1>2, <1>3

\* A socket that is given up is current no more.
LEMMA DisconnectWatched ==
  ASSUME Watched, TasksInv, Disconnect, UNCHANGED closed
  PROVE  Watched'
<1>1. closed => state' # "connected"
  BY DEF Watched, Disconnect, Notify
<1>2. ~closed => state' # "connected"
  BY DEF Disconnect, Notify
<1> QED BY <1>1, <1>2 DEF Watched, Disconnect

\* _ensure_ws: a new socket has its reader.
LEMMA ConnectWatched ==
  ASSUME TasksInv, Watched, NEW t \in Connectors, ConnectStep(t)
  PROVE  Watched'
<1> USE DEF clientVars, lockVars
<1>0. t \in Tasks
  BY TaskNames
<1>1. CASE EnsureWs(t) \/ DialFails(t) \/ DialSucceeds(t)
  <2>1. Moved(t)
    BY <1>1, ConnectMoves
  <2>2. ~Undoing(t) /\ UNCHANGED <<closed, state, ws, reader>>
    BY <1>1 DEF EnsureWs, TakeConnectLock, DialFails, DialSucceeds, Undoing
  <2> QED BY <1>0, <2>1, <2>2, PlainMoves
<1>2. CASE DialRefused(t)
  <2>1. Moved(t)
    BY <1>2, ConnectMoves
  <2>2. ~Undoing(t) /\ UNCHANGED <<closed, ws, reader>> /\ state' \in {state, "auth_failed"}
    BY <1>2 DEF DialRefused, Notify, Undoing
  <2> QED BY <1>0, <2>1, <2>2, WatchMoves
<1>3. CASE Install(t)
  <2>1. CASE closed
    <3>1. Moved(t)
      BY <1>3, InstallMoves
    <3>2. ~Undoing(t) /\ UNCHANGED <<closed, state, ws, reader>>
      BY <1>3, <2>1 DEF Install, Undoing
    <3> QED BY <1>0, <3>1, <3>2, PlainMoves
  <2>2. CASE ~closed
    <3>1. /\ ws' = generation + 1 /\ closed' = closed
          /\ reader' = [reader EXCEPT ![generation + 1] = "created"]
      BY <1>3, <2>2 DEF Install
    <3>2. generation + 1 \in Generations
      BY <1>0, <1>3, WsConstants DEF Install, TasksInv, ClientTypes, Generations
    <3>3. reader'[ws'] = "created"
      BY <3>1, <3>2 DEF TasksInv, ClientTypes
    <3>4. ws' # None
      BY <3>1, <3>2, WsConstants DEF Generations
    <3> QED BY <2>2, <3>1, <3>3, <3>4 DEF Watched, Alive
  <2> QED BY <2>1, <2>2
<1>4. CASE Confirm(t)
  <2>1. Moved(t) /\ ~Undoing(t)
    BY <1>4, ConnectMoves DEF Confirm, Undoing
  <2>2. CASE StillCurrent(t)
    <3>1. ws # None /\ ~closed
      BY <1>0, <1>4, <2>2, WsConstants
         DEF Confirm, StillCurrent, Usable, TasksInv, Placed, Apart
    <3>2. UNCHANGED <<closed, ws, reader>>
      BY <1>4, <2>2 DEF Confirm
    <3>3. ASSUME NEW x \in Connectors, Undoing(x), gen[x] = ws PROVE Undoing(x)' /\ gen'[x] = ws
      <4>1. x # t /\ x \in Tasks
        BY <2>1, <3>3, TaskNames
      <4> QED BY <1>0, <2>1, <3>3, <4>1, OthersStay DEF Undoing
    <3>4. Alive(ws) <=> Alive(ws)'
      BY <3>2 DEF Alive
    <3>5. \/ Alive(ws)'
          \/ \E x \in Connectors : Undoing(x)' /\ gen'[x] = ws'
      BY <3>1, <3>2, <3>3, <3>4 DEF Watched
    <3> QED BY <3>1, <3>2, <3>5 DEF Watched
  <2>3. CASE ~StillCurrent(t)
    <3>1. at'[t] = "undoing" /\ gen'[t] = gen[t]
      BY <1>4, <2>3, ConnectMoves
    <3> QED BY <1>4, <2>1, <2>3, <3>1, UndoWatched DEF Confirm, Undo
  <2> QED BY <2>2, <2>3
<1>5. CASE ReaderJoined(t)
  <2>1. Moved(t) /\ Undoing(t)' /\ gen'[t] = gen[t]
    BY <1>5, ConnectMoves DEF Undoing
  <2> QED BY <1>0, <1>5, <2>1, WatchMoves DEF ReaderJoined
<1>6. CASE Clear(t)
  <2>1. CASE ws = gen[t]
    BY <1>6, <2>1, DisconnectWatched DEF Clear
  <2>2. CASE ws # gen[t]
    BY <1>0, <1>6, <2>2, ConnectMoves, WatchMoves DEF Clear
  <2> QED BY <2>1, <2>2
<1> QED BY <1>1, <1>2, <1>3, <1>4, <1>5, <1>6 DEF ConnectStep

\* _send_json: only a registration that fails begins to undo a socket.
LEMMA SendWatched ==
  ASSUME TasksInv, ConnectInv, Watched, NEW t \in Connectors \cup Sessions, SendStep(t)
  PROVE  Watched'
<1> USE DEF clientVars, lockVars
<1>0. t \in Tasks /\ ~Undoing(t) /\ Moved(t) /\ UNCHANGED <<closed, state, ws>>
  BY TaskNames, FrameMoves DEF SendStep, BeginSend, EndSend, BreakSend, Undoing
<1>1. CASE UNCHANGED reader
  BY <1>0, <1>1, PlainMoves
<1>2. CASE frame[t] = "route" /\ at'[t] = "undoing" /\ gen'[t] = gen[t] /\ CancelReaders({gen[t]})
  <2>1. t \in Connectors
    <3>1. connector = t
      BY <1>0, <1>2 DEF ConnectInv, Connecting
    <3> QED BY <1>0, <3>1, TaskNames DEF TasksInv, ClientTypes
  <2> QED BY <1>0, <1>2, <2>1, UndoWatched
<1>3. CASE BeginSend(t) /\ MaySend(t)
  BY <1>1, <1>3 DEF BeginSend
<1>4. CASE EndSend(t)
  BY <1>1, <1>4 DEF EndSend
<1>5. CASE SendRaises(t) /\ (BeginSend(t) \/ BreakSend(t)) /\ ~EndSend(t)
  <2>1. CASE frame[t] = "route"
    <3>1. CancelReaders({gen[t]})
      BY <1>5, <2>1 DEF SendRaises, Undo
    <3>2. CASE at'[t] = "undoing" /\ gen'[t] = gen[t]
      BY <1>2, <2>1, <3>1, <3>2
    <3>3. CASE at'[t] = "sending"
      BY <1>0, <1>5, <2>1, <3>3 DEF SendRaises, Undo, Go, TasksInv, TaskTypes
    <3> QED BY <1>5, <2>1, <3>2, <3>3, FrameMoves
  <2>2. CASE frame[t] # "route"
    BY <1>1, <1>5, <2>2 DEF SendRaises, AbandonUtterance
  <2> QED BY <2>1, <2>2
<1> QED BY <1>3, <1>4, <1>5 DEF SendStep, BeginSend, BreakSend

\* A reader lives until its finally block, which gives up the socket it owns.
LEMMA ReaderWatched ==
  ASSUME TasksInv, Watched, NEW g \in Generations,
         ReaderStep(g) \/ RouteAnswered(g) \/ Drop(g) \/ \E u \in Utterances : UtteranceAnswered(u)
  PROVE  Watched'
<1> USE DEF clientVars, lockVars, taskVars
<1>1. CASE Cleanup(g) /\ OwnsCurrent(g)
  BY <1>1, DisconnectWatched DEF Cleanup
<1>2. CASE ~(Cleanup(g) /\ OwnsCurrent(g))
  <2>1. UNCHANGED <<at, gen, ws, state, closed>>
    BY <1>2
       DEF ReaderStep, ReaderStarts, HandleRouteAck, ReaderEnds, Cleanup, RouteAnswered, Drop,
           UtteranceAnswered
  <2>2. ws # None => ws \in Generations
    <3>1. generation \in 0 .. MaxGeneration /\ MaxGeneration \in Nat
      BY WsConstants DEF TasksInv, ClientTypes
    <3> QED BY <3>1 DEF TasksInv, ClientTypes, Generations
  <2>3. ws # None /\ Alive(ws) => Alive(ws)'
    <3>1. CASE UNCHANGED reader
      BY <2>1, <3>1 DEF Alive
    <3>2. ASSUME NEW s \in {"reading", "ackWait", "cleanup"}, reader' = [reader EXCEPT ![g] = s]
          PROVE  ws # None /\ Alive(ws) => Alive(ws)'
      BY <2>1, <2>2, <3>2 DEF Alive, TasksInv, ClientTypes
    <3>3. CASE reader' = [reader EXCEPT ![g] = "done"] /\ ws # g
      BY <2>1, <2>2, <3>3 DEF Alive, TasksInv, ClientTypes
    <3> QED BY <1>2, <3>1, <3>2, <3>3
            DEF ReaderStep, ReaderStarts, HandleRouteAck, ReaderEnds, Cleanup, RouteAnswered,
                Drop, UtteranceAnswered, OwnsCurrent
  <2> QED BY <2>1, <2>3 DEF Watched, Undoing
<1> QED BY <1>1, <1>2

\* The rest: a task that is cancelled undoes the socket it made or, by assumption,
\* was not undoing one already.
LEMMA OthersWatched ==
  ASSUME TasksInv, ConnectInv, Watched, ~CancelCleanup,
         \/ CallStep \/ Retire \/ Retired \/ SupervisorStep \/ CloseStep
         \/ \E u \in Utterances : TakeFrame(u)
  PROVE  Watched'
<1> USE DEF clientVars, lockVars
<1>0. /\ Connectors \subseteq Tasks /\ Sessions \subseteq Tasks
      /\ Setup \in Connectors /\ Supervisor \in Connectors /\ Closer \in Tasks
      /\ Senders \subseteq Connectors /\ Utterances \subseteq Connectors
  BY TaskNames
<1>1. CASE StartBackground \/ \E s \in Senders : SendJobFrame(s)
  <2>1. PICK t \in Connectors : Moved(t) /\ at[t] = "idle"
    BY <1>0, <1>1, CallMoves DEF StartBackground, SendJobFrame
  <2>2. UNCHANGED <<closed, state, ws, reader>>
    BY <1>1 DEF StartBackground, SendJobFrame
  <2> QED BY <1>0, <2>1, <2>2, PlainMoves DEF Undoing
<1>2. CASE (\E u \in Utterances : StreamUtterance(u)) \/ \E s \in Sessions : RegisterSession(s)
  <2>1. PICK t \in Tasks : Moved(t) /\ at[t] = "idle"
    BY <1>0, <1>2, CallMoves DEF StreamUtterance, RegisterSession
  <2>2. UNCHANGED <<closed, state, ws, reader>>
    BY <1>2 DEF StreamUtterance, RegisterSession
  <2> QED BY <2>1, <2>2, PlainMoves DEF Undoing
<1>3. ASSUME NEW t \in Cancellable, Cancel(t) PROVE Watched'
  <2>1. t \in Tasks /\ Moved(t) /\ UNCHANGED <<closed, state, ws>> /\ ~Undoing(t)
    BY <1>0, <1>3, CancelMoves DEF Cancel, Cancellable, Undoing
  <2>2. CASE UNCHANGED reader
    BY <2>1, <2>2, PlainMoves
  <2>3. CASE Registering(t) /\ Undo(t) /\ at'[t] = "undoing" /\ gen'[t] = gen[t]
    <3>1. connector = t
      BY <2>1, <2>3 DEF ConnectInv, Connecting, Registering, Making
    <3>2. t \in Connectors
      BY <2>1, <3>1, TaskNames DEF TasksInv, ClientTypes
    <3> QED BY <2>1, <2>3, <3>2, UndoWatched DEF Undo
  <2>4. CASE ~Registering(t) /\ SendRaises(t)
    BY <2>2, <2>4 DEF SendRaises, AbandonUtterance, Registering
  <2>5. CASE Leave(t) /\ at[t] \in {"lockWait", "dialing", "installing", "clearing", "undoing"}
    <3>1. ~Registering(t)
      BY <2>1, <2>5, WsConstants
         DEF Registering, TasksInv, Placed, Apart, Frames, Undoing
    <3> QED BY <1>3, <2>1, <2>2, <2>5, <3>1 DEF Cancel, Undoing
  <2> QED BY <1>3, <2>3, <2>4, <2>5, CancelMoves
<1>4. CASE CloseBegin
  BY <1>4 DEF CloseBegin, Watched
<1>5. CASE CloseStep
  <2>1. closed
    BY <1>5 DEF CloseStep, TasksStopped, CloseSocket, CloseEnd, TasksInv
  <2>2. UNCHANGED <<closed, state>>
    BY <1>5 DEF CloseStep, TasksStopped, CloseSocket, CloseEnd
  <2> QED BY <2>1, <2>2 DEF Watched
<1>6. CASE Retire
  <2>1. CASE ws = gen[Setup]
    BY <1>6, <2>1, DisconnectWatched DEF Retire
  <2>2. CASE ws # gen[Setup]
    BY <1>0, <1>6, <2>2, OtherMoves, PlainMoves DEF Retire, Undoing
  <2> QED BY <2>1, <2>2
<1>7. CASE Retired \/ SupervisorStep
  <2>1. PICK t \in Tasks : Moved(t) /\ ~Undoing(t)
    BY <1>0, <1>7, OtherMoves
       DEF Retired, SupervisorStep, LoopHead, WatchEnds, BackoffEnds, Undoing
  <2>2. UNCHANGED <<closed, state, ws, reader>>
    BY <1>7 DEF Retired, SupervisorStep, LoopHead, WatchEnds, BackoffEnds
  <2> QED BY <2>1, <2>2, PlainMoves
<1>8. ASSUME NEW u \in Utterances, TakeFrame(u) PROVE Watched'
  <2>1. Moved(u) /\ ~Undoing(u) /\ UNCHANGED <<closed, state, ws, reader>> /\ u \in Tasks
    BY <1>0, <1>8, OtherMoves DEF TakeFrame, Undoing
  <2> QED BY <2>1, PlainMoves
<1> QED BY <1>1, <1>2, <1>3, <1>4, <1>5, <1>6, <1>7, <1>8 DEF CallStep

\* Every step keeps the watch, if no task is cancelled while it gives up a socket.
LEMMA WatchStep ==
  ASSUME TasksInv, ConnectInv, Watched, ~CancelCleanup, [WsNext]_vars
  PROVE  Watched'
<1>1. CASE UNCHANGED vars
  BY <1>1 DEF vars, clientVars, taskVars, Watched, Alive, Undoing
<1>2. CASE WsNext
  <2>1. 1 \in Generations
    BY WsConstants DEF Generations
  <2> QED BY <1>2, <2>1, ConnectWatched, SendWatched, ReaderWatched, OthersWatched
          DEF WsNext, NetworkStep, TaskStep
<1> QED BY <1>1, <1>2

\* There is no socket in the initial state.
LEMMA WatchInit == WsInit => Watched
BY DEF WsInit, Watched

\* For any tasks and sockets, if no task is cancelled while it gives up a socket:
\* an agent is shown as available only while the end of its socket will be noticed.
THEOREM ConnectedStaysWatched ==
  ASSUME ~CancelCleanup PROVE WsSafety => []ConnectedIsWatched
<1>1. ConnectInv /\ [WsNext]_vars => ConnectInv'
  BY StepIsSafe DEF ConnectKept
<1>2. TasksInv /\ ConnectInv /\ [WsNext]_vars => TasksInv'
  BY TasksStep
<1>3. TasksInv /\ ConnectInv /\ Watched /\ [WsNext]_vars => Watched'
  BY WatchStep
<1>4. TasksInv /\ ConnectInv /\ Watched => ConnectedIsWatched
  BY TaskNames DEF Watched, Undoing, ConnectInv, Connecting, Making, ConnectedIsWatched
<1> QED BY <1>1, <1>2, <1>3, <1>4, ConnectInit, TasksInit, WatchInit, PTL DEF WsSafety

\* On the same assumption a socket that would be handed out has a reader, or a
\* task that replaces it, until the client is closed.
THEOREM HandedOutSocketsAreRead ==
  ASSUME ~CancelCleanup PROVE WsSafety => []SocketsAreRead
<1>1. ConnectInv /\ [WsNext]_vars => ConnectInv'
  BY StepIsSafe DEF ConnectKept
<1>2. TasksInv /\ ConnectInv /\ [WsNext]_vars => TasksInv'
  BY TasksStep
<1>3. TasksInv /\ ConnectInv /\ Watched /\ [WsNext]_vars => Watched'
  BY WatchStep
<1>4. TasksInv /\ ConnectInv /\ Watched => SocketsAreRead
  BY TaskNames DEF Watched, Undoing, ConnectInv, Connecting, Making, SocketsAreRead, HasSocket
<1> QED BY <1>1, <1>2, <1>3, <1>4, ConnectInit, TasksInit, WatchInit, PTL DEF WsSafety

-----------------------------------------------------------------------------
(* After close().                                                          *)

\* Some task is about to give socket g up.
GivenUp(g) == \E t \in Connectors : Undoing(t) /\ gen[t] = g

Broken(g) == socket[g] # "open"

\* The inductive invariant of an open client: who makes a socket found none, an
\* open socket is current or about to be given up, and so is one whose reader was
\* cancelled; what start_background and the supervisor give up is broken.
Owned ==
  /\ \A t \in Connectors : at[t] \in {"dialing", "installing"} => ~HasSocket
  /\ \A g \in Generations : ~Broken(g) => ws = g \/ GivenUp(g)
  /\ \A g \in Generations : reader[g] = "cleanup" /\ ws = g => Broken(g) \/ GivenUp(g)
  /\ at[Setup] = "retiring" /\ ws = gen[Setup] => Broken(gen[Setup])
  /\ Undoing(Supervisor) => Broken(gen[Supervisor])

\* A task that clears a generation has closed its socket.
SocketsInv ==
  /\ \A t \in Connectors : at[t] = "clearing" => socket[gen[t]] = "closed"
  /\ closed \/ Owned

\* No socket is opened again.
Shrinks ==
  \A g \in Generations : /\ Broken(g) => Broken(g)'
                         /\ socket[g] = "closed" => socket'[g] = "closed"
                         /\ Open(g)' => Open(g)

\* No socket was made, and no task runs, in the initial state.
LEMMA SocketsInit == WsInit => SocketsInv
BY TaskNames DEF WsInit, SocketsInv, Owned, HasSocket, Broken, Undoing

\* A step of t, which was not giving up a socket, that keeps the current socket.
LEMMA OwnedMoves ==
  ASSUME TasksInv, SocketsInv, NEW t \in Tasks, Moved(t), ~Undoing(t),
         UNCHANGED <<closed, ws>>, Shrinks, at'[t] # "clearing",
         ~closed /\ at'[t] \in {"dialing", "installing"} => ~HasSocket,
         \A g \in Generations : reader'[g] = "cleanup" =>
           \/ reader[g] = "cleanup"
           \/ Broken(g)'
           \/ t \in Connectors /\ at'[t] = "undoing" /\ gen'[t] = g,
         ~closed /\ t = Setup /\ at'[t] = "retiring" /\ ws = gen'[t] => Broken(gen[t])',
         ~closed /\ t = Supervisor /\ at'[t] = "undoing" => Broken(gen[t])'
  PROVE  SocketsInv'
<1>0. /\ Connectors \subseteq Tasks /\ Setup \in Connectors /\ Supervisor \in Connectors
      /\ Setup # Supervisor
  BY TaskNames
<1>1. \A x \in Tasks : Undoing(x) => Undoing(x)' /\ gen'[x] = gen[x]
  BY OthersStay DEF Undoing
<1>2. \A g \in Generations : GivenUp(g) => GivenUp(g)'
  BY <1>0, <1>1 DEF GivenUp
<1>3. \A x \in Tasks : Undoing(x) => gen[x] \in Generations
  <2>1. generation \in 0 .. MaxGeneration /\ MaxGeneration \in Nat
    BY WsConstants DEF TasksInv, ClientTypes
  <2> QED BY <2>1 DEF TasksInv, Placed, Apart, Undoing, Generations
<1>4. ASSUME NEW x \in Connectors, at'[x] = "clearing" PROVE socket'[gen'[x]] = "closed"
  <2>1. x # t /\ x \in Tasks
    BY <1>0, <1>4
  <2>2. at[x] = "clearing" /\ gen'[x] = gen[x]
    BY <1>4, <2>1, OthersStay
  <2> QED BY <1>3, <2>1, <2>2 DEF SocketsInv, Shrinks, Undoing
<1>5. ASSUME ~closed PROVE Owned'
  <2> USE <1>5
  <2>0. Owned
    BY DEF SocketsInv
  <2>1. ASSUME NEW x \in Connectors, at'[x] \in {"dialing", "installing"} PROVE ~HasSocket'
    <3>1. ~HasSocket
      <4>1. CASE x = t
        BY <2>1, <4>1
      <4>2. CASE x # t
        BY <1>0, <2>0, <2>1, <4>2, OthersStay DEF Owned
      <4> QED BY <4>1, <4>2
    <3>2. ws # None => ws \in Generations
      <4>1. generation \in 0 .. MaxGeneration /\ MaxGeneration \in Nat
        BY WsConstants DEF TasksInv, ClientTypes
      <4> QED BY <4>1 DEF TasksInv, ClientTypes, Generations
    <3> QED BY <3>1, <3>2 DEF HasSocket, Shrinks
  <2>2. ASSUME NEW g \in Generations, ~Broken(g)' PROVE ws' = g \/ GivenUp(g)'
    BY <1>2, <2>0, <2>2 DEF Owned, Shrinks
  <2>3. ASSUME NEW g \in Generations, reader'[g] = "cleanup", ws' = g
        PROVE  Broken(g)' \/ GivenUp(g)'
    <3>1. CASE reader[g] = "cleanup"
      BY <1>2, <2>0, <2>3, <3>1 DEF Owned, Shrinks
    <3>2. CASE t \in Connectors /\ at'[t] = "undoing" /\ gen'[t] = g
      BY <3>2 DEF GivenUp, Undoing
    <3> QED BY <2>3, <3>1, <3>2
  <2>4. ASSUME at'[Setup] = "retiring", ws' = gen'[Setup] PROVE Broken(gen[Setup])'
    <3>1. CASE t = Setup
      BY <2>4, <3>1
    <3>2. CASE t # Setup
      <4>1. at[Setup] = "retiring" /\ gen'[Setup] = gen[Setup]
        BY <1>0, <2>4, <3>2, OthersStay
      <4>2. gen[Setup] \in Generations
        <5>1. generation \in 0 .. MaxGeneration /\ MaxGeneration \in Nat
          BY WsConstants DEF TasksInv, ClientTypes
        <5> QED BY <1>0, <4>1, <5>1 DEF TasksInv, Placed, Apart, Generations
      <4>3. Broken(gen[Setup])
        BY <2>0, <2>4, <4>1 DEF Owned
      <4> QED BY <4>1, <4>2, <4>3 DEF Shrinks, Broken
    <3> QED BY <3>1, <3>2
  <2>5. ASSUME Undoing(Supervisor)' PROVE Broken(gen[Supervisor])'
    <3>1. CASE t = Supervisor
      BY <2>5, <3>1 DEF Undoing
    <3>2. CASE t # Supervisor
      <4>1. Undoing(Supervisor) /\ gen'[Supervisor] = gen[Supervisor]
        BY <1>0, <2>5, <3>2, OthersStay DEF Undoing
      <4>2. gen[Supervisor] \in Generations /\ Broken(gen[Supervisor])
        BY <1>0, <1>3, <2>0, <4>1 DEF Owned
      <4> QED BY <4>1, <4>2 DEF Shrinks, Broken
    <3> QED BY <3>1, <3>2
  <2> QED BY <2>1, <2>2, <2>3, <2>4, <2>5 DEF Owned
<1> QED BY <1>4, <1>5 DEF SocketsInv

\* A step of t that leaves all sockets and readers alone.
LEMMA PlainOwned ==
  ASSUME TasksInv, SocketsInv, NEW t \in Tasks, Moved(t), ~Undoing(t),
         UNCHANGED <<closed, ws, socket, reader>>,
         at'[t] \notin {"clearing", "dialing", "installing", "retiring", "undoing"}
  PROVE  SocketsInv'
<1>1. Shrinks
  BY DEF Shrinks, Broken, Open
<1> QED BY <1>1, OwnedMoves

\* A generation that a task has, or a current one, is one of the bounded set.
LEMMA KnownGenerations ==
  ASSUME TasksInv
  PROVE  /\ ws # None => ws \in Generations
         /\ \A t \in Tasks : at[t] \notin Apart => gen[t] \in Generations
<1>1. generation \in 0 .. MaxGeneration /\ MaxGeneration \in Nat
  BY WsConstants DEF TasksInv, ClientTypes
<1> QED BY <1>1 DEF TasksInv, ClientTypes, Placed, Generations

\* Only the task that makes a socket gives one up.
LEMMA OneMaker ==
  ASSUME TasksInv, ConnectInv, NEW t \in Tasks, Connecting(t), ~Undoing(t)
  PROVE  \A x \in Connectors : ~Undoing(x)
BY TaskNames DEF ConnectInv, Connecting, Making, Undoing

\* The socket of the task that makes one is current while it is not broken.
LEMMA MakerHasSocket ==
  ASSUME TasksInv, ConnectInv, Owned, NEW t \in Tasks, Connecting(t), ~Undoing(t),
         gen[t] \in Generations
  PROVE  Broken(gen[t]) \/ (ws = gen[t] /\ Usable(gen[t]))
<1>1. ~GivenUp(gen[t])
  BY OneMaker DEF GivenUp
<1> QED BY <1>1 DEF Owned, Broken, Usable, Open

\* Cancelling the reader of a socket that is being given up.
LEMMA CancelledByUndo ==
  ASSUME NEW h, CancelReaders({h})
  PROVE  \A g \in Generations : reader'[g] = "cleanup" => reader[g] = "cleanup" \/ g = h
BY DEF CancelReaders

\* A task that goes on giving up its socket, having closed it.
LEMMA UndoerMoves ==
  ASSUME TasksInv, SocketsInv, NEW t \in Connectors, Moved(t), Undoing(t), Undoing(t)',
         gen'[t] = gen[t], UNCHANGED <<closed, ws, reader>>, Shrinks, socket'[gen[t]] = "closed"
  PROVE  SocketsInv'
<1>0. /\ t \in Tasks /\ Connectors \subseteq Tasks
      /\ Setup \in Connectors /\ Supervisor \in Connectors /\ Setup # Supervisor
  BY TaskNames
<1>1. \A x \in Tasks : Undoing(x) => Undoing(x)' /\ gen'[x] = gen[x]
  BY <1>0, OthersStay DEF Undoing
<1>2. \A g \in Generations : GivenUp(g) => GivenUp(g)'
  BY <1>0, <1>1 DEF GivenUp
<1>3. ASSUME NEW x \in Connectors, at'[x] = "clearing" PROVE socket'[gen'[x]] = "closed"
  <2>1. CASE x = t
    BY <2>1
  <2>2. CASE x # t
    <3>1. at[x] = "clearing" /\ gen'[x] = gen[x]
      BY <1>0, <1>3, <2>2, OthersStay
    <3>2. gen[x] \in Generations
      BY <1>0, <3>1, KnownGenerations DEF Apart
    <3> QED BY <3>1, <3>2 DEF SocketsInv, Shrinks
  <2> QED BY <2>1, <2>2
<1>4. ASSUME ~closed PROVE Owned'
  <2>0. Owned
    BY <1>4 DEF SocketsInv
  <2>1. ASSUME NEW x \in Connectors, at'[x] \in {"dialing", "installing"} PROVE ~HasSocket'
    <3>1. ~HasSocket
      BY <1>0, <2>0, <2>1, OthersStay DEF Owned, Undoing
    <3> QED BY <3>1, KnownGenerations DEF HasSocket, Shrinks
  <2>2. ASSUME NEW g \in Generations, ~Broken(g)' PROVE ws' = g \/ GivenUp(g)'
    BY <1>2, <2>0, <2>2 DEF Owned, Shrinks
  <2>3. ASSUME NEW g \in Generations, reader'[g] = "cleanup", ws' = g
        PROVE  Broken(g)' \/ GivenUp(g)'
    BY <1>2, <2>0, <2>3 DEF Owned, Shrinks
  <2>4. ASSUME at'[Setup] = "retiring", ws' = gen'[Setup] PROVE Broken(gen[Setup])'
    <3>1. t # Setup
      BY <2>4 DEF Undoing
    <3>2. at[Setup] = "retiring" /\ gen'[Setup] = gen[Setup]
      BY <1>0, <2>4, <3>1, OthersStay
    <3>3. gen[Setup] \in Generations /\ Broken(gen[Setup])
      BY <1>0, <2>0, <2>4, <3>2, KnownGenerations DEF Owned, Apart
    <3> QED BY <3>2, <3>3 DEF Shrinks, Broken
  <2>5. ASSUME Undoing(Supervisor)' PROVE Broken(gen[Supervisor])'
    <3>1. CASE t = Supervisor
      BY <3>1 DEF Broken
    <3>2. CASE t # Supervisor
      <4>1. Undoing(Supervisor) /\ gen'[Supervisor] = gen[Supervisor]
        BY <1>0, <2>5, <3>2, OthersStay DEF Undoing
      <4>2. gen[Supervisor] \in Generations /\ Broken(gen[Supervisor])
        BY <1>0, <2>0, <4>1, KnownGenerations DEF Owned, Undoing, Apart
      <4> QED BY <4>1, <4>2 DEF Shrinks, Broken
    <3> QED BY <3>1, <3>2
  <2> QED BY <2>1, <2>2, <2>3, <2>4, <2>5 DEF Owned
<1> QED BY <1>3, <1>4 DEF SocketsInv

\* A task that is done with giving up its socket, which is current no more.
LEMMA ClearerMoves ==
  ASSUME TasksInv, SocketsInv, NEW t \in Connectors, Moved(t), Freed(t),
         UNCHANGED <<closed, socket, reader>>, socket[gen[t]] = "closed",
         IF ws = gen[t] THEN ws' = None ELSE ws' = ws
  PROVE  SocketsInv'
<1>0. /\ t \in Tasks /\ Connectors \subseteq Tasks
      /\ Setup \in Connectors /\ Supervisor \in Connectors /\ Setup # Supervisor
  BY TaskNames
<1>1. \A x \in Tasks : Undoing(x) /\ x # t => Undoing(x)' /\ gen'[x] = gen[x]
  BY <1>0, OthersStay DEF Undoing
<1>2. \A g \in Generations : ~Broken(g) /\ GivenUp(g) => GivenUp(g)'
  BY <1>0, <1>1 DEF GivenUp, Broken
<1>3. ASSUME NEW x \in Connectors, at'[x] = "clearing" PROVE socket'[gen'[x]] = "closed"
  <2>1. x # t
    BY <1>3 DEF Freed
  <2> QED BY <1>0, <1>3, <2>1, OthersStay DEF SocketsInv
<1>4. ASSUME ~closed PROVE Owned'
  <2>0. Owned
    BY <1>4 DEF SocketsInv
  <2>1. ASSUME NEW x \in Connectors, at'[x] \in {"dialing", "installing"} PROVE ~HasSocket'
    <3>1. x # t
      BY <2>1 DEF Freed
    <3> QED BY <1>0, <2>0, <2>1, <3>1, OthersStay DEF Owned, HasSocket, Open
  <2>2. ASSUME NEW g \in Generations, ~Broken(g)' PROVE ws' = g \/ GivenUp(g)'
    <3>1. ~Broken(g) /\ g # gen[t]
      BY <2>2 DEF Broken
    <3>2. CASE GivenUp(g)
      BY <1>2, <3>1, <3>2
    <3>3. CASE ws = g
      BY <3>1, <3>3
    <3> QED BY <2>0, <3>1, <3>2, <3>3 DEF Owned
  <2>3. ASSUME NEW g \in Generations, reader'[g] = "cleanup", ws' = g
        PROVE  Broken(g)' \/ GivenUp(g)'
    <3>1. ws = g
      BY <2>3, WsConstants DEF Generations
    <3>2. Broken(g) \/ GivenUp(g)
      BY <2>0, <2>3, <3>1 DEF Owned
    <3> QED BY <1>2, <3>2 DEF Broken
  <2>4. ASSUME at'[Setup] = "retiring", ws' = gen'[Setup] PROVE Broken(gen[Setup])'
    <3>1. t # Setup
      BY <2>4 DEF Freed
    <3>2. at[Setup] = "retiring" /\ gen'[Setup] = gen[Setup]
      BY <1>0, <2>4, <3>1, OthersStay
    <3>3. gen[Setup] \in Generations
      BY <1>0, <3>2, KnownGenerations DEF Apart
    <3>4. ws = gen[Setup]
      BY <2>4, <3>2, <3>3, WsConstants DEF Generations
    <3> QED BY <2>0, <3>2, <3>4 DEF Owned, Broken
  <2>5. ASSUME Undoing(Supervisor)' PROVE Broken(gen[Supervisor])'
    <3>1. t # Supervisor
      BY <2>5 DEF Freed, Undoing
    <3>2. Undoing(Supervisor) /\ gen'[Supervisor] = gen[Supervisor]
      BY <1>0, <2>5, <3>1, OthersStay DEF Undoing
    <3> QED BY <2>0, <3>2 DEF Owned, Broken
  <2> QED BY <2>1, <2>2, <2>3, <2>4, <2>5 DEF Owned
<1> QED BY <1>3, <1>4 DEF SocketsInv

\* _ensure_ws keeps the invariant of the sockets.
LEMMA ConnectOwned ==
  ASSUME TasksInv, ConnectInv, SocketsInv, NEW t \in Connectors, ConnectStep(t)
  PROVE  SocketsInv'
<1> USE DEF clientVars, lockVars
<1>0. /\ t \in Tasks /\ Connectors \subseteq Tasks
      /\ Setup \in Connectors /\ Supervisor \in Connectors /\ Setup # Supervisor
  BY TaskNames
<1>1. CASE EnsureWs(t)
  <2>1. Moved(t) /\ ~Undoing(t) /\ UNCHANGED <<closed, ws, socket, reader>>
    BY <1>1, ConnectMoves DEF EnsureWs, TakeConnectLock, Undoing
  <2>2. CASE Freed(t)
    BY <1>0, <2>1, <2>2, PlainOwned DEF Freed
  <2>3. CASE at'[t] = "dialing" /\ ~HasSocket
    <3>1. Shrinks
      BY <2>1 DEF Shrinks, Broken, Open
    <3> QED BY <1>0, <2>1, <2>3, <3>1, OwnedMoves
  <2> QED BY <1>1, <2>2, <2>3, ConnectMoves
<1>2. CASE DialRefused(t) \/ DialFails(t)
  <2>1. Moved(t) /\ Freed(t) /\ ~Undoing(t) /\ UNCHANGED <<closed, ws, socket, reader>>
    BY <1>2, ConnectMoves DEF DialRefused, DialFails, Undoing
  <2> QED BY <1>0, <2>1, PlainOwned DEF Freed
<1>3. CASE DialSucceeds(t)
  <2>1. Moved(t) /\ ~Undoing(t) /\ UNCHANGED <<closed, ws, socket, reader>>
    BY <1>3, ConnectMoves DEF DialSucceeds, Undoing
  <2>2. CASE Freed(t)
    BY <1>0, <2>1, <2>2, PlainOwned DEF Freed
  <2>3. CASE at'[t] = "installing" /\ ~closed
    <3>1. Shrinks
      BY <2>1 DEF Shrinks, Broken, Open
    <3>2. ~HasSocket
      BY <1>3, <2>3 DEF DialSucceeds, SocketsInv, Owned
    <3> QED BY <1>0, <2>1, <2>3, <3>1, <3>2, OwnedMoves
  <2> QED BY <1>3, <2>2, <2>3, ConnectMoves
<1>4. CASE Install(t)
  <2>1. Moved(t) /\ ~Undoing(t) /\ closed' = closed /\ at[t] = "installing"
    BY <1>4, InstallMoves DEF Install, Undoing
  <2>2. CASE closed
    <3>1. UNCHANGED <<ws, socket, reader>> /\ Freed(t)
      BY <1>4, <2>2, InstallMoves DEF Install
    <3> QED BY <1>0, <2>1, <3>1, PlainOwned DEF Freed
  <2>3. CASE ~closed
    <3> DEFINE new == generation + 1
    <3>1. /\ ws' = new
          /\ reader' = [reader EXCEPT ![new] = "created"]
          /\ socket' = [socket EXCEPT ![new] = "open"]
          /\ at'[t] \in {"sendWait", "confirming"}
      BY <1>4, <2>3, InstallMoves DEF Install
    <3>2. new \in Generations /\ generation \in Nat
      BY <1>0, <2>1, WsConstants DEF TasksInv, ClientTypes, Generations
    <3>3. \A x \in Tasks : gen[x] # new
      <4>1. new \notin (1 .. generation) \cup {None}
        BY <3>2, WsConstants
      <4> HIDE DEF new
      <4> QED BY <4>1 DEF TasksInv, Placed
    <3> HIDE DEF new
    <3>4. Owned /\ ~HasSocket
      BY <1>0, <2>1, <2>3 DEF SocketsInv, Owned
    <3>5. \A x \in Connectors : ~Undoing(x) /\ ~Undoing(x)'
      <4>1. Connecting(t)
        BY <2>1 DEF Connecting, Making
      <4>2. \A x \in Connectors : ~Undoing(x)
        BY <1>0, <2>1, <4>1, OneMaker
      <4> QED BY <1>0, <2>1, <3>1, <4>2, OthersStay DEF Undoing
    <3>6. \A x \in Connectors \ {t} : at'[x] \notin {"dialing", "installing"}
      <4>1. connector = t
        BY <1>0, <2>1 DEF ConnectInv, Connecting, Making
      <4>2. \A x \in Connectors \ {t} : at[x] \notin {"dialing", "installing"}
        BY <1>0, <4>1 DEF ConnectInv, Connecting, Making
      <4> QED BY <1>0, <2>1, <4>2, OthersStay
    <3>7. \A g \in Generations \ {new} : Broken(g) /\ Broken(g)'
      <4>1. ASSUME NEW g \in Generations \ {new} PROVE Broken(g)
        <5>1. g # None
          BY WsConstants DEF Generations
        <5>2. ~GivenUp(g)
          BY <3>5 DEF GivenUp
        <5> QED BY <3>4, <5>1, <5>2 DEF Owned, HasSocket, Open, Broken
      <4> QED BY <3>1, <4>1 DEF Broken, TasksInv, ClientTypes
    <3>8. reader'[new] = "created"
      BY <3>1, <3>2 DEF TasksInv, ClientTypes
    <3>9. at'[Setup] = "retiring" => gen'[Setup] # new
      BY <1>0, <2>1, <3>1, <3>3, OthersStay
    <3>10. Owned'
      BY <1>0, <3>1, <3>5, <3>6, <3>7, <3>8, <3>9 DEF Owned
    <3> QED BY <3>5, <3>10 DEF SocketsInv, Undoing
  <2> QED BY <2>2, <2>3
<1>5. CASE Confirm(t)
  <2>1. Moved(t) /\ ~Undoing(t) /\ UNCHANGED <<closed, ws, socket>> /\ at[t] = "confirming"
    BY <1>5, ConnectMoves DEF Confirm, Undoing
  <2>2. CASE StillCurrent(t)
    BY <1>0, <1>5, <2>1, <2>2, ConnectMoves, PlainOwned DEF Confirm, Freed
  <2>3. CASE ~StillCurrent(t)
    <3>1. at'[t] = "undoing" /\ gen'[t] = gen[t] /\ CancelReaders({gen[t]})
      BY <1>5, <2>3, ConnectMoves DEF Confirm, Undo
    <3>2. Shrinks
      BY <2>1 DEF Shrinks, Broken, Open
    <3>3. ~closed => Broken(gen[t])'
      <4>1. gen[t] \in Generations /\ Connecting(t)
        BY <1>0, <2>1, KnownGenerations DEF Apart, Connecting, Making
      <4> QED BY <1>0, <2>1, <2>3, <3>1, <4>1, MakerHasSocket
              DEF StillCurrent, SocketsInv, Broken
    <3>4. \A g \in Generations : reader'[g] = "cleanup" => reader[g] = "cleanup" \/ g = gen[t]
      BY <3>1, CancelledByUndo
    <3>5. at'[t] \notin {"clearing", "dialing", "installing", "retiring"}
      BY <3>1
    <3> QED BY <1>0, <2>1, <3>1, <3>2, <3>3, <3>4, <3>5, OwnedMoves
  <2> QED BY <2>2, <2>3
<1>6. CASE ReaderJoined(t)
  <2>1. /\ Moved(t) /\ Undoing(t) /\ Undoing(t)' /\ gen'[t] = gen[t]
        /\ UNCHANGED <<closed, ws, reader>>
        /\ socket' = [socket EXCEPT ![gen[t]] = "closed"]
    BY <1>6, ConnectMoves DEF ReaderJoined, Undoing
  <2>2. socket'[gen[t]] = "closed"
    BY <1>0, <2>1, KnownGenerations DEF Undoing, Apart, TasksInv, ClientTypes
  <2>3. Shrinks
    BY <2>1 DEF Shrinks, Broken, Open, TasksInv, ClientTypes
  <2> QED BY <1>0, <2>1, <2>2, <2>3, UndoerMoves
<1>7. CASE Clear(t)
  <2>1. /\ Moved(t) /\ at[t] = "clearing" /\ Freed(t)
        /\ UNCHANGED <<closed, socket, reader>>
        /\ IF ws = gen[t] THEN ws' = None ELSE ws' = ws
    BY <1>7, ConnectMoves DEF Clear, Disconnect
  <2>2. socket[gen[t]] = "closed"
    BY <2>1 DEF SocketsInv
  <2> QED BY <1>0, <2>1, <2>2, ClearerMoves
<1> QED BY <1>1, <1>2, <1>3, <1>4, <1>5, <1>6, <1>7 DEF ConnectStep

\* _send_json: a registration that fails has no usable socket to give up.
LEMMA SendOwned ==
  ASSUME TasksInv, ConnectInv, SocketsInv, NEW t \in Connectors \cup Sessions, SendStep(t)
  PROVE  SocketsInv'
<1> USE DEF clientVars, lockVars
<1>0. t \in Tasks /\ ~Undoing(t) /\ Moved(t) /\ UNCHANGED <<closed, ws>>
  BY TaskNames, FrameMoves DEF SendStep, BeginSend, EndSend, BreakSend, Undoing
<1>1. gen[t] \in Generations
  BY <1>0, KnownGenerations DEF SendStep, BeginSend, EndSend, BreakSend, Apart
<1>2. CASE BeginSend(t) /\ MaySend(t)
  <2>1. UNCHANGED <<socket, reader>> /\ at'[t] = "sending"
    BY <1>2, FrameMoves DEF BeginSend, FreedOrRetiring, Freed
  <2> QED BY <1>0, <2>1, PlainOwned
<1>3. CASE EndSend(t)
  <2>1. UNCHANGED <<socket, reader>>
    BY <1>3 DEF EndSend
  <2>2. at'[t] \notin {"clearing", "dialing", "installing", "retiring", "undoing"}
    BY <1>3, FrameMoves DEF Freed
  <2> QED BY <1>0, <2>1, <2>2, PlainOwned
<1>4. CASE SendRaises(t) /\ ((BeginSend(t) /\ ~MaySend(t)) \/ BreakSend(t))
  <2>1. /\ gen'[t] \in {gen[t], None}
        /\ \/ frame[t] = "route" /\ at'[t] = "undoing" /\ gen'[t] = gen[t]
           \/ frame[t] # "route" /\ FreedOrRetiring(t)
    BY <1>4, FrameMoves
  <2>2. Shrinks
    <3>1. \/ UNCHANGED socket
          \/ /\ socket[gen[t]] = "open"
             /\ socket' = [socket EXCEPT ![gen[t]] = "broken"]
      BY <1>1, <1>4 DEF BeginSend, BreakSend, TasksInv, ClientTypes
    <3> QED BY <1>1, <3>1 DEF Shrinks, Broken, Open, TasksInv, ClientTypes
  <2>3. at'[t] = "retiring" => t = Setup /\ frame[t] = "reroute" /\ gen'[t] = gen[t]
    BY <1>0, <1>4, <2>1
       DEF FreedOrRetiring, Freed, SendRaises, End, Send, Go, AbandonUtterance, TasksInv, TaskTypes
  <2>4. ASSUME ~closed, frame[t] = "route" \/ (at'[t] = "retiring" /\ ws = gen'[t])
        PROVE  Broken(gen[t])'
    <3>0. gen'[t] = gen[t]
      BY <2>1, <2>3, <2>4
    <3>1. CASE BreakSend(t)
      BY <1>1, <3>0, <3>1 DEF BreakSend, Broken, TasksInv, ClientTypes
    <3>2. CASE BeginSend(t) /\ ~MaySend(t)
      <4>1. frame[t] # "job"
        BY <2>3, <2>4
      <4>2. ~Usable(gen[t])
        BY <2>4, <3>2, <4>1 DEF MaySend
      <4>3. CASE frame[t] = "route"
        <5>1. Broken(gen[t])
          BY <1>0, <1>1, <2>4, <4>2, <4>3, MakerHasSocket DEF Connecting, SocketsInv
        <5> QED BY <1>1, <2>2, <3>0, <5>1 DEF Shrinks, Broken
      <4>4. CASE at'[t] = "retiring" /\ ws = gen'[t]
        <5>1. Broken(gen[t])
          BY <2>3, <4>2, <4>4 DEF Usable, Open, Broken
        <5> QED BY <1>1, <2>2, <3>0, <5>1 DEF Shrinks, Broken
      <4> QED BY <2>4, <4>3, <4>4
    <3> QED BY <1>4, <3>1, <3>2
  <2>5. \A g \in Generations : reader'[g] = "cleanup" =>
           reader[g] = "cleanup" \/ (t \in Connectors /\ at'[t] = "undoing" /\ gen'[t] = g)
    <3>1. CASE frame[t] = "route"
      <4>1. at'[t] = "undoing" /\ gen'[t] = gen[t] /\ CancelReaders({gen[t]})
        BY <1>4, <2>1, <3>1 DEF SendRaises, Undo
      <4>2. t \in Connectors
        BY <1>0, <3>1, TaskNames DEF ConnectInv, Connecting, TasksInv, ClientTypes
      <4> QED BY <4>1, <4>2, CancelledByUndo
    <3>2. CASE frame[t] # "route"
      BY <1>4, <3>2 DEF SendRaises, AbandonUtterance
    <3> QED BY <3>1, <3>2
  <2>6. /\ at'[t] \notin {"clearing", "dialing", "installing"}
        /\ at'[t] = "undoing" => frame[t] = "route"
    BY <2>1 DEF FreedOrRetiring, Freed
  <2> QED BY <1>0, <2>2, <2>3, <2>4, <2>5, <2>6, OwnedMoves
<1>5. (BeginSend(t) /\ ~MaySend(t)) \/ BreakSend(t) => SendRaises(t)
  BY DEF BeginSend, BreakSend
<1> QED BY <1>2, <1>3, <1>4, <1>5 DEF SendStep

\* A step of a reader, or of the network, that keeps the current socket.
LEMMA StillOwned ==
  ASSUME TasksInv, SocketsInv, UNCHANGED <<at, gen, closed, ws>>, Shrinks,
         \A g \in Generations : reader'[g] = "cleanup" => reader[g] = "cleanup" \/ Broken(g)'
  PROVE  SocketsInv'
<1>0. /\ Connectors \subseteq Tasks
      /\ Setup \in Connectors /\ Supervisor \in Connectors
  BY TaskNames
<1>1. \A t \in Connectors : at'[t] = "clearing" => socket'[gen'[t]] = "closed"
  BY <1>0, KnownGenerations DEF SocketsInv, Shrinks, Apart
<1>2. ASSUME ~closed PROVE Owned'
  <2>0. Owned
    BY <1>2 DEF SocketsInv
  <2>1. \A t \in Connectors : at'[t] \in {"dialing", "installing"} => ~HasSocket'
    BY <2>0, KnownGenerations DEF Owned, HasSocket, Shrinks
  <2>2. \A g \in Generations : ~Broken(g)' => ws' = g \/ GivenUp(g)'
    BY <2>0 DEF Owned, GivenUp, Undoing, Shrinks
  <2>3. \A g \in Generations : reader'[g] = "cleanup" /\ ws' = g => Broken(g)' \/ GivenUp(g)'
    BY <2>0 DEF Owned, GivenUp, Undoing, Shrinks
  <2>4. at'[Setup] = "retiring" /\ ws' = gen'[Setup] => Broken(gen[Setup])'
    <3>1. at[Setup] = "retiring" => gen[Setup] \in Generations
      BY <1>0, KnownGenerations DEF Apart
    <3> QED BY <2>0, <3>1 DEF Owned, Shrinks, Broken
  <2>5. Undoing(Supervisor)' => Broken(gen[Supervisor])'
    <3>1. Undoing(Supervisor) => gen[Supervisor] \in Generations
      BY <1>0, KnownGenerations DEF Undoing, Apart
    <3> QED BY <2>0, <3>1 DEF Owned, Undoing, Shrinks, Broken
  <2> QED BY <2>1, <2>2, <2>3, <2>4, <2>5 DEF Owned
<1> QED BY <1>1, <1>2 DEF SocketsInv

\* The current socket is given up: it was broken, or its maker gives it up too.
LEMMA DisconnectOwned ==
  ASSUME TasksInv, SocketsInv, ws' = None, NEW t \in Tasks,
         UNCHANGED <<closed, socket>>,
         \A x \in Tasks \ {t} : at'[x] = at[x] /\ gen'[x] = gen[x],
         ~Undoing(t) \/ UNCHANGED <<at, gen>>,
         at'[t] \in {at[t], "retired"} /\ gen'[t] = gen[t],
         ~closed /\ ws \in Generations => Broken(ws) \/ GivenUp(ws)
  PROVE  SocketsInv'
<1>0. /\ Connectors \subseteq Tasks
      /\ Setup \in Connectors /\ Supervisor \in Connectors
  BY TaskNames
<1>1. \A x \in Tasks : gen'[x] = gen[x] /\ (at'[x] = at[x] \/ (~Undoing(x) /\ at'[x] = "retired"))
  OBVIOUS
<1>2. \A x \in Connectors : at'[x] = "clearing" => socket'[gen'[x]] = "closed"
  BY <1>0, <1>1 DEF SocketsInv
<1>3. ASSUME ~closed PROVE Owned'
  <2>0. Owned
    BY <1>3 DEF SocketsInv
  <2>1. \A g \in Generations : GivenUp(g) => GivenUp(g)'
    BY <1>0, <1>1 DEF GivenUp, Undoing
  <2>2. \A g \in Generations : g # None
    BY WsConstants DEF Generations
  <2>3. \A g \in Generations : ~Broken(g)' => GivenUp(g)'
    BY <1>3, <2>0, <2>1 DEF Owned, Broken
  <2>4. ~(at'[Setup] = "retiring" /\ ws' = gen'[Setup])
    <3>1. at[Setup] = "retiring" => gen[Setup] \in Generations
      BY <1>0, KnownGenerations DEF Apart
    <3> QED BY <1>0, <1>1, <2>2, <3>1
  <2>5. Undoing(Supervisor)' => Broken(gen[Supervisor])'
    BY <1>0, <1>1, <2>0 DEF Owned, Undoing, Broken
  <2> QED BY <2>2, <2>3, <2>4, <2>5 DEF Owned, HasSocket
<1> QED BY <1>2, <1>3 DEF SocketsInv

\* A reader that ends in its finally block leaves no open socket behind.
LEMMA ReaderOwned ==
  ASSUME TasksInv, SocketsInv, NEW g \in Generations,
         ReaderStep(g) \/ RouteAnswered(g) \/ Drop(g) \/ \E u \in Utterances : UtteranceAnswered(u)
  PROVE  SocketsInv'
<1> USE DEF clientVars, lockVars, taskVars
<1>1. CASE Cleanup(g) /\ OwnsCurrent(g)
  <2>1. /\ ws' = None /\ ws = g /\ reader[g] = "cleanup"
        /\ UNCHANGED <<at, gen, closed, socket>>
    BY <1>1 DEF Cleanup, OwnsCurrent, Disconnect, Notify
  <2>2. Closer \in Tasks
    BY TaskNames
  <2>3. ~closed => Broken(ws) \/ GivenUp(ws)
    BY <2>1 DEF SocketsInv, Owned
  <2> QED BY <2>1, <2>2, <2>3, DisconnectOwned
<1>2. CASE ~(Cleanup(g) /\ OwnsCurrent(g))
  <2>1. UNCHANGED <<at, gen, ws, closed>>
    BY <1>2
       DEF ReaderStep, ReaderStarts, HandleRouteAck, ReaderEnds, Cleanup, RouteAnswered, Drop,
           UtteranceAnswered
  <2>2. UNCHANGED socket \/ socket' = [socket EXCEPT ![g] = "closed"]
    BY DEF ReaderStep, ReaderStarts, HandleRouteAck, ReaderEnds, Cleanup, RouteAnswered, Drop,
           UtteranceAnswered
  <2>3. Shrinks
    BY <2>2 DEF Shrinks, Broken, Open, TasksInv, ClientTypes
  <2>4. \A h \in Generations : reader'[h] = "cleanup" => reader[h] = "cleanup" \/ Broken(h)'
    <3>1. CASE UNCHANGED reader
      BY <3>1
    <3>2. ASSUME NEW s \in {"reading", "ackWait", "done"}, reader' = [reader EXCEPT ![g] = s]
          PROVE  \A h \in Generations : reader'[h] = "cleanup" => reader[h] = "cleanup"
      BY <3>2 DEF TasksInv, ClientTypes
    <3>3. CASE ReaderEnds(g)
      BY <3>3 DEF ReaderEnds, Broken, TasksInv, ClientTypes
    <3> QED BY <3>1, <3>2, <3>3
            DEF ReaderStep, ReaderStarts, HandleRouteAck, Cleanup, RouteAnswered, Drop,
                UtteranceAnswered
  <2> QED BY <2>1, <2>3, <2>4, StillOwned
<1> QED BY <1>1, <1>2

\* The rest: a task that is cancelled gives up the socket it made or, by assumption,
\* was not giving up one already.
LEMMA OthersOwned ==
  ASSUME TasksInv, ConnectInv, SocketsInv, ~CancelCleanup,
         \/ CallStep \/ Retire \/ Retired \/ SupervisorStep \/ CloseStep
         \/ \E u \in Utterances : TakeFrame(u)
  PROVE  SocketsInv'
<1> USE DEF clientVars, lockVars
<1>0. /\ Connectors \subseteq Tasks /\ Sessions \subseteq Tasks
      /\ Setup \in Connectors /\ Supervisor \in Connectors /\ Setup # Supervisor
      /\ Senders \subseteq Connectors /\ Utterances \subseteq Connectors
      /\ Closer \in Tasks /\ Closer \notin Connectors
  BY TaskNames
<1>1. CASE StartBackground \/ \E s \in Senders : SendJobFrame(s)
  <2>1. PICK t \in Connectors : Moved(t) /\ at[t] = "idle" /\ at'[t] = "lockWait"
    BY <1>0, <1>1, CallMoves DEF StartBackground, SendJobFrame
  <2>2. UNCHANGED <<closed, ws, socket, reader>>
    BY <1>1 DEF StartBackground, SendJobFrame
  <2> QED BY <1>0, <2>1, <2>2, PlainOwned DEF Undoing
<1>2. CASE (\E u \in Utterances : StreamUtterance(u)) \/ \E s \in Sessions : RegisterSession(s)
  <2>1. PICK t \in Tasks : Moved(t) /\ at[t] = "idle" /\ at'[t] \in {"lockWait", "sendWait"}
    BY <1>0, <1>2, CallMoves DEF StreamUtterance, RegisterSession
  <2>2. UNCHANGED <<closed, ws, socket, reader>>
    BY <1>2 DEF StreamUtterance, RegisterSession
  <2> QED BY <2>1, <2>2, PlainOwned DEF Undoing
<1>3. ASSUME NEW t \in Cancellable, Cancel(t) PROVE SocketsInv'
  <2>1. t \in Tasks /\ Moved(t) /\ UNCHANGED <<closed, ws, socket>> /\ ~Undoing(t)
    BY <1>0, <1>3, CancelMoves DEF Cancel, Cancellable, Undoing
  <2>2. CASE UNCHANGED reader /\ Freed(t)
    BY <2>1, <2>2, PlainOwned DEF Freed
  <2>3. CASE Registering(t) /\ Undo(t) /\ at'[t] = "undoing" /\ gen'[t] = gen[t]
    <3>1. connector = t
      BY <2>1, <2>3 DEF ConnectInv, Connecting, Registering, Making
    <3>2. t \in Connectors /\ t \notin {Setup, Supervisor}
      BY <1>3, <2>1, <3>1, TaskNames DEF TasksInv, ClientTypes, Cancellable
    <3>3. Shrinks
      BY <2>1 DEF Shrinks, Broken, Open
    <3>4. \A g \in Generations : reader'[g] = "cleanup" => reader[g] = "cleanup" \/ gen'[t] = g
      BY <2>3, CancelledByUndo DEF Undo
    <3> QED BY <2>1, <2>3, <3>2, <3>3, <3>4, OwnedMoves
  <2>4. CASE ~Registering(t) /\ SendRaises(t) /\ Freed(t)
    BY <2>2, <2>4 DEF SendRaises, AbandonUtterance, Registering
  <2>5. CASE Leave(t) /\ at[t] \in {"lockWait", "dialing", "installing", "clearing", "undoing"}
               /\ Freed(t)
    <3>1. ~Registering(t)
      BY <2>1, <2>5, WsConstants
         DEF Registering, TasksInv, Placed, Apart, Frames, Undoing
    <3> QED BY <1>3, <2>1, <2>2, <2>5, <3>1 DEF Cancel, Undoing
  <2> QED BY <1>3, <2>3, <2>4, <2>5, CancelMoves
<1>4. CASE CloseBegin
  <2>1. closed' /\ UNCHANGED socket
    BY <1>4 DEF CloseBegin
  <2>2. ASSUME NEW x \in Connectors, at'[x] = "clearing" PROVE socket'[gen'[x]] = "closed"
    <3>1. x # Supervisor /\ x # Closer
      BY <1>0, <1>4, <2>2 DEF CloseBegin, TasksInv, TaskTypes
    <3>2. at[x] = "clearing" /\ gen'[x] = gen[x]
      BY <1>0, <1>4, <2>2, <3>1 DEF CloseBegin, TasksInv, TaskTypes
    <3> QED BY <2>1, <3>2 DEF SocketsInv
  <2> QED BY <2>1, <2>2 DEF SocketsInv
<1>5. CASE CloseStep
  <2>1. closed /\ closed'
    BY <1>5 DEF CloseStep, TasksStopped, CloseSocket, CloseEnd, TasksInv
  <2>2. ASSUME NEW x \in Connectors, at'[x] = "clearing" PROVE socket'[gen'[x]] = "closed"
    <3>1. at[x] = "clearing" /\ gen' = gen
      BY <1>0, <1>5, <2>2
         DEF CloseStep, TasksStopped, CloseSocket, CloseEnd, Go, TasksInv, TaskTypes
    <3>2. gen[x] \in Generations /\ socket[gen[x]] = "closed"
      BY <1>0, <3>1, KnownGenerations DEF Apart, SocketsInv
    <3> QED BY <1>5, <3>1, <3>2
            DEF CloseStep, TasksStopped, CloseSocket, ShutSocket, CloseEnd
  <2> QED BY <2>1, <2>2 DEF SocketsInv
<1>6. CASE Retire
  <2>1. at[Setup] = "retiring" /\ UNCHANGED <<closed, socket>>
    BY <1>6 DEF Retire, Disconnect
  <2>2. CASE ws = gen[Setup]
    <3>1. ws' = None /\ at' = [at EXCEPT ![Setup] = "retired"] /\ UNCHANGED gen
      BY <1>6, <2>2 DEF Retire, Disconnect, Go
    <3>2. ~closed => Broken(ws)
      BY <2>1, <2>2 DEF SocketsInv, Owned
    <3>3. \A x \in Tasks \ {Setup} : at'[x] = at[x] /\ gen'[x] = gen[x]
      BY <3>1 DEF TasksInv, TaskTypes
    <3>4. at'[Setup] \in {at[Setup], "retired"} /\ gen'[Setup] = gen[Setup]
      BY <1>0, <3>1 DEF TasksInv, TaskTypes
    <3> QED BY <1>0, <2>1, <3>1, <3>2, <3>3, <3>4, DisconnectOwned DEF Undoing
  <2>3. CASE ws # gen[Setup]
    <3>1. Moved(Setup) /\ UNCHANGED <<ws, reader>> /\ at'[Setup] = "done"
      BY <1>0, <1>6, <2>3, OtherMoves DEF Retire, EndSetup, TasksInv, TaskTypes
    <3> QED BY <1>0, <2>1, <3>1, PlainOwned DEF Undoing
  <2> QED BY <2>2, <2>3
<1>7. CASE Retired
  <2>1. /\ Moved(Setup) /\ at[Setup] = "retired" /\ at'[Setup] = "done"
        /\ UNCHANGED <<closed, ws, reader>>
    BY <1>7, OtherMoves DEF Retired
  <2>2. gen[Setup] \in Generations /\ socket' = [socket EXCEPT ![gen[Setup]] = "closed"]
    BY <1>0, <1>7, <2>1, KnownGenerations DEF Retired, Apart
  <2>3. Shrinks
    BY <2>2 DEF Shrinks, Broken, Open, TasksInv, ClientTypes
  <2> QED BY <1>0, <2>1, <2>3, OwnedMoves DEF Undoing
<1>8. CASE SupervisorStep
  <2>1. Moved(Supervisor) /\ at'[Supervisor] \in {"done", "watching", "lockWait", "loop"}
    BY <1>8, OtherMoves
  <2>2. ~Undoing(Supervisor) /\ UNCHANGED <<closed, ws, socket, reader>>
    BY <1>8 DEF SupervisorStep, LoopHead, WatchEnds, BackoffEnds, Undoing
  <2> QED BY <1>0, <2>1, <2>2, PlainOwned
<1>9. ASSUME NEW u \in Utterances, TakeFrame(u) PROVE SocketsInv'
  <2>1. /\ Moved(u) /\ Freed(u) /\ ~Undoing(u) /\ UNCHANGED <<closed, ws, socket, reader>>
        /\ u \in Tasks
    BY <1>0, <1>9, OtherMoves DEF TakeFrame, Undoing
  <2> QED BY <2>1, PlainOwned DEF Freed
<1> QED BY <1>1, <1>2, <1>3, <1>4, <1>5, <1>6, <1>7, <1>8, <1>9 DEF CallStep

\* Every step keeps it, if no task is cancelled while it gives up a socket.
LEMMA SocketsStep ==
  ASSUME TasksInv, ConnectInv, SocketsInv, ~CancelCleanup, [WsNext]_vars
  PROVE  SocketsInv'
<1>1. CASE UNCHANGED vars
  BY <1>1
     DEF vars, clientVars, taskVars, SocketsInv, Owned, HasSocket, Open, Broken, GivenUp, Undoing
<1>2. CASE WsNext
  <2>1. 1 \in Generations
    BY WsConstants DEF Generations
  <2> QED BY <1>2, <2>1, ConnectOwned, SendOwned, ReaderOwned, OthersOwned
          DEF WsNext, NetworkStep, TaskStep
<1> QED BY <1>1, <1>2

\* The inductive invariant of a closed client: nothing is left but tasks that give
\* up their sockets, the supervisor first of all, and the socket that close() found.
ClosingInv ==
  closed =>
    /\ state = "disconnected"
    /\ at[Supervisor] \in {"idle", "done", "undoing", "clearing"}
    /\ at[Closer] \in {"locking", "shutting", "done"} => at[Supervisor] \in {"idle", "done"}
    /\ at[Closer] = "done" => ws = None /\ routeAck = None
    /\ \A g \in Generations : ~Broken(g) =>
         GivenUp(g) \/ (at[Closer] \in {"stopping", "locking"} /\ awaited.ws = g)

\* A step of t in a closed client: it does not forget a socket that it gives up.
LEMMA ClosedMoves ==
  ASSUME TasksInv, ClosingInv, closed, NEW t \in Tasks, t # Closer, Moved(t),
         UNCHANGED <<state, awaited>>, Shrinks,
         ws' \in {ws, None}, routeAck' \in {routeAck, None},
         Undoing(t) => (Undoing(t)' /\ gen'[t] = gen[t]) \/ Broken(gen[t]),
         t = Supervisor => \/ at'[t] \in {"idle", "done"}
                           \/ Undoing(t) /\ Undoing(t)'
  PROVE  ClosingInv'
<1>0. /\ Connectors \subseteq Tasks /\ Supervisor \in Connectors /\ Closer \in Tasks
      /\ Closer # Supervisor
  BY TaskNames
<1>1. \A g \in Generations : ~Broken(g) /\ GivenUp(g) => GivenUp(g)'
  BY <1>0, OthersStay DEF GivenUp, Undoing
<1>2. at'[Closer] = at[Closer]
  BY DEF Moved
<1>3. /\ at'[Supervisor] \in {"idle", "done", "undoing", "clearing"}
      /\ at[Supervisor] \in {"idle", "done"} => at'[Supervisor] \in {"idle", "done"}
  BY <1>0, OthersStay DEF Undoing, ClosingInv
<1>4. \A g \in Generations : ~Broken(g)' => ~Broken(g)
  BY DEF Shrinks
<1> QED BY <1>1, <1>2, <1>3, <1>4 DEF ClosingInv

\* The tasks of a closed client give up their sockets and end.
LEMMA ConnectCloses ==
  ASSUME TasksInv, ConnectInv, SocketsInv, ClosingInv, closed,
         NEW t \in Connectors, ConnectStep(t)
  PROVE  ClosingInv'
<1> USE DEF clientVars, lockVars
<1>0. t \in Tasks /\ t # Closer
  BY TaskNames
<1>1. CASE ReaderJoined(t)
  <2>1. /\ Moved(t) /\ Undoing(t) /\ Undoing(t)' /\ gen'[t] = gen[t]
        /\ UNCHANGED <<closed, ws, routeAck, state, awaited>>
        /\ socket' = [socket EXCEPT ![gen[t]] = "closed"]
    BY <1>1, ConnectMoves DEF ReaderJoined, Undoing
  <2>2. Shrinks
    BY <2>1 DEF Shrinks, Broken, Open, TasksInv, ClientTypes
  <2> QED BY <1>0, <2>1, <2>2, ClosedMoves
<1>2. CASE Clear(t)
  <2>1. /\ Moved(t) /\ at[t] = "clearing"
        /\ UNCHANGED <<closed, socket, state, awaited>>
        /\ ws' \in {ws, None} /\ routeAck' \in {routeAck, None}
    BY <1>2, ConnectMoves DEF Clear, Disconnect, Notify
  <2>2. Shrinks
    BY <2>1 DEF Shrinks, Broken, Open
  <2>3. Broken(gen[t])
    BY <2>1 DEF SocketsInv, Broken
  <2>4. t = Supervisor => at'[t] = "done"
    BY <1>0, <1>2, TaskNames DEF Clear, Raised, End, Go, TasksInv, TaskTypes
  <2> QED BY <1>0, <2>1, <2>2, <2>3, <2>4, ClosedMoves
<1>3. CASE EnsureWs(t) \/ DialRefused(t) \/ DialFails(t) \/ DialSucceeds(t) \/ Install(t)
             \/ Confirm(t)
  <2>1. Moved(t)
    BY <1>3, ConnectMoves, InstallMoves
  <2>2. UNCHANGED <<state, awaited, ws, routeAck, socket>>
    BY <1>3 DEF EnsureWs, DialRefused, DialFails, DialSucceeds, Install, Confirm, Notify,
                StillCurrent
  <2>3. ~Undoing(t) /\ t # Supervisor
    BY <1>3
       DEF EnsureWs, TakeConnectLock, DialRefused, DialFails, DialSucceeds, Install, Confirm,
           Undoing, ClosingInv
  <2>4. Shrinks
    BY <2>2 DEF Shrinks, Broken, Open
  <2> QED BY <1>0, <2>1, <2>2, <2>3, <2>4, ClosedMoves
<1> QED BY <1>1, <1>2, <1>3 DEF ConnectStep

\* So do the tasks that send.
LEMMA SendCloses ==
  ASSUME TasksInv, ClosingInv, closed, NEW t \in Connectors \cup Sessions, SendStep(t)
  PROVE  ClosingInv'
<1> USE DEF clientVars, lockVars
<1>1. t \in Tasks /\ t # Closer /\ Moved(t) /\ ~Undoing(t) /\ t # Supervisor
  BY TaskNames, FrameMoves DEF SendStep, BeginSend, EndSend, BreakSend, Undoing, ClosingInv
<1>2. UNCHANGED <<state, awaited, ws, routeAck>>
  BY DEF SendStep, BeginSend, EndSend, BreakSend
<1>3. \/ UNCHANGED socket
      \/ socket' = [socket EXCEPT ![gen[t]] = IF @ = "open" THEN "broken" ELSE @]
  BY DEF SendStep, BeginSend, EndSend, BreakSend
<1>4. Shrinks
  BY <1>3 DEF Shrinks, Broken, Open, TasksInv, ClientTypes
<1> QED BY <1>1, <1>2, <1>4, ClosedMoves

\* Readers and the network open no socket.
LEMMA ReaderCloses ==
  ASSUME TasksInv, ClosingInv, closed, NEW g \in Generations,
         ReaderStep(g) \/ RouteAnswered(g) \/ Drop(g) \/ \E u \in Utterances : UtteranceAnswered(u)
  PROVE  ClosingInv'
<1> USE DEF clientVars, lockVars, taskVars
<1>1. UNCHANGED <<at, gen, closed, state, awaited>> /\ ws' \in {ws, None}
  BY DEF ReaderStep, ReaderStarts, HandleRouteAck, ReaderEnds, Cleanup, RouteAnswered, Drop,
         UtteranceAnswered, Disconnect, Notify
<1>2. ws = None => UNCHANGED routeAck \/ routeAck' = None
  BY WsConstants
     DEF ReaderStep, ReaderStarts, HandleRouteAck, ReaderEnds, Cleanup, RouteAnswered, Drop,
         UtteranceAnswered, Disconnect, RecordAck, Usable, Generations
<1>3. UNCHANGED socket \/ socket' = [socket EXCEPT ![g] = "closed"]
  BY DEF ReaderStep, ReaderStarts, HandleRouteAck, ReaderEnds, Cleanup, RouteAnswered, Drop,
         UtteranceAnswered
<1>4. \A h \in Generations : Broken(h) => Broken(h)'
  BY <1>3 DEF Broken, TasksInv, ClientTypes
<1>5. \A h \in Generations : GivenUp(h) => GivenUp(h)'
  BY <1>1 DEF GivenUp, Undoing
<1> QED BY <1>1, <1>2, <1>4, <1>5 DEF ClosingInv

\* close() begins: an open socket is the one it found, or about to be given up by a
\* task that it does not cancel.
LEMMA ClosingBegins ==
  ASSUME TasksInv, SocketsInv, CloseBegin
  PROVE  ClosingInv'
<1> USE DEF clientVars
<1>0. /\ Connectors \subseteq Tasks /\ Supervisor \in Connectors /\ Closer \in Tasks
      /\ Closer \notin Connectors
  BY TaskNames
<1>1. /\ ~closed /\ closed' /\ state' = "disconnected" /\ awaited'.ws = ws /\ UNCHANGED socket
      /\ at'[Closer] = "stopping"
      /\ at'[Supervisor] \in {"idle", "done", "undoing"}
  BY <1>0 DEF CloseBegin, TasksInv, TaskTypes
<1>2. \A x \in Connectors \ {Supervisor} : at'[x] = at[x] /\ gen'[x] = gen[x]
  BY <1>0 DEF CloseBegin, TasksInv, TaskTypes
<1>3. ASSUME NEW g \in Generations, ~Broken(g)' PROVE GivenUp(g)' \/ awaited'.ws = g
  <2>1. ~Broken(g) /\ Owned
    BY <1>1, <1>3 DEF Broken, SocketsInv
  <2>2. CASE ws = g
    BY <1>1, <2>2
  <2>3. ASSUME NEW x \in Connectors, Undoing(x), gen[x] = g PROVE GivenUp(g)'
    <3>1. x # Supervisor
      BY <2>1, <2>3 DEF Owned
    <3> QED BY <1>2, <2>3, <3>1 DEF GivenUp, Undoing
  <2> QED BY <2>1, <2>2, <2>3 DEF Owned, GivenUp
<1> QED BY <1>1, <1>3 DEF ClosingInv

\* close() goes on: once it has closed the socket it found, every open one is being
\* given up.
LEMMA ClosingGoesOn ==
  ASSUME TasksInv, ClosingInv, CloseStep
  PROVE  ClosingInv'
<1> USE DEF clientVars, lockVars
<1>0. /\ Connectors \subseteq Tasks /\ Supervisor \in Connectors /\ Closer \in Tasks
      /\ Closer \notin Connectors
  BY TaskNames
<1>1. closed /\ UNCHANGED <<closed, state>>
  BY DEF CloseStep, TasksStopped, CloseSocket, CloseEnd, TasksInv
<1>2. \A x \in Connectors : at'[x] = at[x] /\ gen'[x] = gen[x]
  BY <1>0 DEF CloseStep, TasksStopped, CloseSocket, CloseEnd, Go, TasksInv, TaskTypes
<1>3. \A g \in Generations : GivenUp(g) => GivenUp(g)'
  BY <1>2 DEF GivenUp, Undoing
<1>4. CASE TasksStopped
  <2>1. /\ at'[Closer] = "locking" /\ at[Supervisor] \in {"idle", "done"}
        /\ UNCHANGED <<socket, awaited>> /\ at[Closer] = "stopping"
    BY <1>0, <1>4 DEF TasksStopped, Go, TasksInv, TaskTypes
  <2> QED BY <1>0, <1>1, <1>2, <1>3, <2>1 DEF ClosingInv, Broken
<1>5. CASE CloseSocket
  <2>1. at'[Closer] = "shutting" /\ at[Closer] = "locking"
    BY <1>0, <1>5 DEF CloseSocket, Go, TasksInv, TaskTypes
  <2>2. \A g \in Generations : ~Broken(g)' => ~Broken(g) /\ awaited.ws # g
    BY <1>5 DEF CloseSocket, ShutSocket, Broken
  <2> QED BY <1>0, <1>1, <1>2, <1>3, <2>1, <2>2 DEF ClosingInv
<1>6. CASE CloseEnd
  <2>1. /\ at'[Closer] = "done" /\ at[Closer] = "shutting"
        /\ ws' = None /\ routeAck' = None /\ UNCHANGED socket
    BY <1>0, <1>6 DEF CloseEnd, Go, TasksInv, TaskTypes
  <2> QED BY <1>0, <1>1, <1>2, <1>3, <2>1 DEF ClosingInv, Broken
<1> QED BY <1>4, <1>5, <1>6 DEF CloseStep

\* The rest of the steps of a closed client.
LEMMA OthersClose ==
  ASSUME TasksInv, SocketsInv, ClosingInv, closed, ~CancelCleanup,
         \/ CallStep \/ Retire \/ Retired \/ SupervisorStep
         \/ \E u \in Utterances : TakeFrame(u)
  PROVE  ClosingInv'
<1> USE DEF clientVars, lockVars
<1>0. /\ Connectors \subseteq Tasks /\ Sessions \subseteq Tasks /\ Setup \in Connectors
      /\ Supervisor \notin {Setup} \cup Senders \cup Sessions \cup Utterances
      /\ Senders \subseteq Connectors /\ Utterances \subseteq Connectors
      /\ Closer \notin Connectors \cup Sessions
  BY TaskNames
<1>1. ASSUME NEW t \in Tasks \ {Closer, Supervisor}, Moved(t), ~Undoing(t), Shrinks,
             UNCHANGED <<state, awaited>>, ws' \in {ws, None}, routeAck' \in {routeAck, None}
      PROVE  ClosingInv'
  BY <1>1, ClosedMoves
<1>2. ASSUME NEW s \in Senders, SendJobFrame(s) PROVE ClosingInv'
  BY <1>2 DEF SendJobFrame
<1>3. ASSUME NEW t \in Cancellable, Cancel(t) PROVE ClosingInv'
  <2>1. t \in Tasks \ {Closer, Supervisor} /\ Moved(t) /\ ~Undoing(t)
    BY <1>0, <1>3, CancelMoves DEF Cancel, Cancellable, Undoing
  <2>2. UNCHANGED <<state, awaited, ws, routeAck, socket>>
    BY <1>3 DEF Cancel
  <2>3. Shrinks
    BY <2>2 DEF Shrinks, Broken, Open
  <2> QED BY <1>1, <2>1, <2>2, <2>3
<1>4. CASE Retire
  <2>1. Moved(Setup) /\ ~Undoing(Setup) /\ Setup \in Tasks \ {Closer, Supervisor}
    BY <1>0, <1>4, OtherMoves DEF Retire, Undoing
  <2>2. UNCHANGED <<state, awaited, socket>> /\ ws' \in {ws, None} /\ routeAck' \in {routeAck, None}
    BY <1>4 DEF Retire, Disconnect, Notify
  <2>3. Shrinks
    BY <2>2 DEF Shrinks, Broken, Open
  <2> QED BY <1>1, <2>1, <2>2, <2>3
<1>5. CASE Retired
  <2>1. Moved(Setup) /\ ~Undoing(Setup) /\ Setup \in Tasks \ {Closer, Supervisor}
    BY <1>0, <1>5, OtherMoves DEF Retired, Undoing
  <2>2. /\ UNCHANGED <<state, awaited, ws, routeAck>>
        /\ socket' = [socket EXCEPT ![gen[Setup]] = "closed"]
    BY <1>5 DEF Retired
  <2>3. Shrinks
    BY <2>2 DEF Shrinks, Broken, Open, TasksInv, ClientTypes
  <2> QED BY <1>1, <2>1, <2>2, <2>3
<1>6. ASSUME NEW u \in Utterances, TakeFrame(u) PROVE ClosingInv'
  <2>1. Moved(u) /\ ~Undoing(u) /\ u \in Tasks \ {Closer, Supervisor}
    BY <1>0, <1>6, OtherMoves DEF TakeFrame, Undoing
  <2>2. UNCHANGED <<state, awaited, ws, routeAck, socket>>
    BY <1>6 DEF TakeFrame
  <2>3. Shrinks
    BY <2>2 DEF Shrinks, Broken, Open
  <2> QED BY <1>1, <2>1, <2>2, <2>3
<1>7. CASE \E u \in Utterances : StreamUtterance(u)
  BY <1>7 DEF StreamUtterance, Ready
<1>8. CASE \E s \in Sessions : RegisterSession(s)
  BY <1>8 DEF RegisterSession, Ready
<1>9. ~StartBackground /\ ~CloseBegin
  BY DEF StartBackground, CloseBegin
<1>10. ~SupervisorStep
  BY DEF SupervisorStep, LoopHead, WatchEnds, BackoffEnds, ClosingInv
<1> QED BY <1>2, <1>3, <1>4, <1>5, <1>6, <1>7, <1>8, <1>9, <1>10 DEF CallStep

\* Only close() closes an open client, and a closed one stays closed.
LEMMA ClosingStep ==
  ASSUME TasksInv, ConnectInv, SocketsInv, ClosingInv, ~CancelCleanup, [WsNext]_vars
  PROVE  ClosingInv'
<1>1. CASE UNCHANGED vars
  BY <1>1 DEF vars, clientVars, taskVars, ClosingInv, Broken, GivenUp, Undoing
<1>2. CASE WsNext /\ closed
  <2>1. 1 \in Generations
    BY WsConstants DEF Generations
  <2> QED BY <1>2, <2>1, ConnectCloses, SendCloses, ReaderCloses, OthersClose, ClosingGoesOn
          DEF WsNext, NetworkStep, TaskStep
<1>3. CASE WsNext /\ ~closed
  <2>1. CloseBegin \/ ~closed'
    <3> USE DEF clientVars, lockVars, taskVars
    <3>1. CASE CallStep
      BY <1>3, <3>1
         DEF CallStep, StartBackground, SendJobFrame, StreamUtterance, RegisterSession, Cancel
    <3>2. CASE NetworkStep
      BY <1>3, <3>2 DEF NetworkStep, RouteAnswered, Drop, UtteranceAnswered
    <3>3. CASE \E t \in Connectors : ConnectStep(t)
      BY <1>3, <3>3
         DEF ConnectStep, EnsureWs, DialRefused, DialFails, DialSucceeds, Install, Confirm,
             ReaderJoined, Clear
    <3>4. CASE (\E t \in Connectors \cup Sessions : SendStep(t)) \/ \E g \in Generations : ReaderStep(g)
      BY <1>3, <3>4
         DEF SendStep, BeginSend, EndSend, BreakSend, ReaderStep, ReaderStarts, HandleRouteAck,
             ReaderEnds, Cleanup
    <3>5. CASE Retire \/ Retired \/ SupervisorStep \/ CloseStep \/ \E u \in Utterances : TakeFrame(u)
      BY <1>3, <3>5
         DEF TakeFrame, Retire, Retired, SupervisorStep, LoopHead, WatchEnds, BackoffEnds,
             CloseStep, TasksStopped, CloseSocket, CloseEnd
    <3> QED BY <1>3, <3>1, <3>2, <3>3, <3>4, <3>5 DEF WsNext, TaskStep
  <2> QED BY <2>1, ClosingBegins DEF ClosingInv
<1> QED BY <1>1, <1>2, <1>3

\* For any tasks and sockets, if no task is cancelled while it gives up a socket:
\* when close() has returned there is no supervisor, no current socket and none
\* open but one whose maker is about to close it.
THEOREM ClosesForGood ==
  ASSUME ~CancelCleanup PROVE WsSafety => []ClosedForGood
<1> DEFINE Inv == ConnectInv /\ TasksInv /\ SocketsInv /\ ClosingInv
<1>1. WsInit => Inv
  BY ConnectInit, TasksInit, SocketsInit DEF WsInit, ClosingInv
<1>2. Inv /\ [WsNext]_vars => Inv'
  <2>1. ConnectInv /\ [WsNext]_vars => ConnectInv'
    BY StepIsSafe DEF ConnectKept
  <2>2. ASSUME Inv, [WsNext]_vars PROVE TasksInv' /\ SocketsInv' /\ ClosingInv'
    BY <2>2, TasksStep, SocketsStep, ClosingStep
  <2> QED BY <2>1, <2>2
<1>3. Inv => ClosedForGood
  <2> SUFFICES ASSUME Inv, at[Closer] = "done" PROVE ClosedForGood
    BY DEF ClosedForGood
  <2>1. closed
    BY DEF TasksInv
  <2>2. ASSUME NEW g \in Generations, socket[g] = "open"
        PROVE  \E t \in Connectors : connector = t /\ gen[t] = g
    BY <2>1, <2>2, TaskNames
       DEF ClosingInv, Broken, GivenUp, Undoing, ConnectInv, Connecting, Making
  <2> QED BY <2>1, <2>2 DEF ClosingInv, ClosedForGood
<1> QED BY <1>1, <1>2, <1>3, PTL DEF WsSafety

-----------------------------------------------------------------------------
(* Utterances that wait for a frame.                                       *)

\* Utterance u may be waiting: it is being sent, or streams, and has no frame yet.
Pending(u) == Streaming(u) /\ at[u] \in {"sending", "streaming"} /\ queue[u] = <<>>

ClosingDown == at[Closer] \in {"stopping", "locking", "shutting"}

\* The inductive invariant: utterances come after start_background, no task makes or
\* gives up the socket of an utterance, and the reader of a pending one lives.
ToldInv ==
  /\ queue \in [Utterances -> Seq({"handoff", "done", "closed"})]
  /\ \A u \in Utterances : at[u] # "idle" => at[Setup] = "done"
  /\ \A u \in Utterances, t \in Connectors : Streaming(u) /\ Connecting(t) => gen[t] # gen[u]
  /\ \A u \in Utterances : Pending(u) => Alive(gen[u]) \/ ClosingDown

\* No queue but that of t loses a frame.
QueuesGrow(t) ==
  /\ queue' \in [Utterances -> Seq({"handoff", "done", "closed"})]
  /\ \A u \in Utterances \ {t} : queue[u] # <<>> => queue'[u] # <<>>

\* No utterance runs in the initial state.
LEMMA ToldInit == WsInit => ToldInv
<1> SUFFICES ASSUME WsInit PROVE ToldInv
  OBVIOUS
<1>1. \A u \in Utterances : at[u] = "idle" /\ frame[u] = None
  BY TaskNames DEF WsInit
<1>2. queue \in [Utterances -> Seq({"handoff", "done", "closed"})]
  BY DEF WsInit
<1> QED BY <1>1, <1>2, WsConstants DEF ToldInv, Streaming, Pending, Frames

\* An utterance that streams has a socket.
LEMMA StreamsOnSocket ==
  ASSUME TasksInv, NEW u \in Utterances, Streaming(u)
  PROVE  at[u] \notin Apart /\ gen[u] \in 1 .. generation
BY TaskNames, WsConstants DEF TasksInv, Placed, Streaming, Frames

\* Only the holder of _ws_lock makes a socket or gives it up.
LEMMA MakersHold ==
  ASSUME ConnectInv, NEW t \in Connectors, Connecting(t)
  PROVE  connector = t
BY TaskNames DEF ConnectInv

\* Emptying the queue of one utterance leaves those of the others.
LEMMA PoppedGrow ==
  ASSUME ToldInv, NEW t, Popped(t)
  PROVE  QueuesGrow(t)
<1>1. <<>> \in Seq({"handoff", "done", "closed"})
  OBVIOUS
<1> QED BY <1>1 DEF ToldInv, Popped, QueuesGrow

\* A step of t alone.
LEMMA ToldMoves ==
  ASSUME TasksInv, ToldInv, NEW t \in Tasks, Moved(t), QueuesGrow(t),
         t \in Utterances /\ at[t] = "idle" => at[Setup] = "done",
         t = Setup => at[Setup] # "done",
         \A u \in Utterances \ {t} :
           Pending(u) /\ Alive(gen[u]) => Alive(gen[u])' \/ ~Pending(u)',
         Connecting(t)' => \A u \in Utterances \ {t} : Streaming(u) => gen'[t] # gen[u],
         t \in Utterances /\ Streaming(t)' =>
           /\ ~Connecting(t)'
           /\ \A x \in Connectors \ {t} : Connecting(x) => gen[x] # gen'[t]
           /\ Pending(t)' => Alive(gen[t])' \/ ClosingDown
  PROVE  ToldInv'
<1>0. /\ Connectors \subseteq Tasks /\ Utterances \subseteq Connectors
      /\ Setup \in Tasks /\ Setup \notin Utterances /\ Supervisor \notin Utterances
  BY TaskNames
<1>1. \A u \in Utterances \ {t} : at'[u] = at[u] /\ gen'[u] = gen[u] /\ frame'[u] = frame[u]
  BY <1>0, OthersStay
<1>2. at'[Closer] = at[Closer]
  BY DEF Moved
<1>3. ASSUME NEW u \in Utterances, at'[u] # "idle" PROVE at'[Setup] = "done"
  <2>1. at[Setup] = "done"
    BY <1>1, <1>3 DEF ToldInv
  <2> QED BY <1>0, <2>1, OthersStay, TaskNames
<1>4. ASSUME NEW u \in Utterances, NEW x \in Connectors, Streaming(u)', Connecting(x)'
      PROVE  gen'[x] # gen'[u]
  <2>1. CASE x = t /\ u = t
    BY <1>4, <2>1
  <2>2. CASE x = t /\ u # t
    BY <1>1, <1>4, <2>2 DEF Streaming
  <2>3. CASE x # t
    <3>1. Connecting(x) /\ gen'[x] = gen[x]
      BY <1>0, <1>4, <2>3, OthersStay DEF Connecting, Making
    <3> QED BY <1>1, <1>4, <2>3, <3>1 DEF Streaming, ToldInv
  <2> QED BY <2>1, <2>2, <2>3
<1>5. ASSUME NEW u \in Utterances, Pending(u)' PROVE Alive(gen[u])' \/ ClosingDown'
  <2>1. CASE u = t
    BY <1>2, <1>5, <2>1 DEF ClosingDown, Pending
  <2>2. CASE u # t
    <3>1. Pending(u)
      BY <1>1, <1>5, <2>2 DEF Pending, Streaming, QueuesGrow
    <3> QED BY <1>1, <1>2, <1>5, <2>2, <3>1 DEF ToldInv, ClosingDown
  <2> QED BY <2>1, <2>2
<1> QED BY <1>3, <1>4, <1>5 DEF ToldInv, QueuesGrow

\* A step that leaves queues and readers alone, of a task that comes to make no
\* socket and to send no utterance.
LEMMA PlainTold ==
  ASSUME TasksInv, ToldInv, NEW t \in Tasks, Moved(t), UNCHANGED <<queue, reader>>,
         t \in Utterances /\ at[t] = "idle" => at[Setup] = "done",
         t = Setup => at[Setup] # "done",
         ~Connecting(t)' \/ gen'[t] = None, ~Streaming(t)'
  PROVE  ToldInv'
<1>1. QueuesGrow(t)
  BY DEF QueuesGrow, ToldInv
<1>2. \A u \in Utterances : Streaming(u) => gen[u] # None
  BY StreamsOnSocket, WsConstants DEF TasksInv, ClientTypes
<1>3. \A u \in Utterances \ {t} : Pending(u) /\ Alive(gen[u]) => Alive(gen[u])' \/ ~Pending(u)'
  BY TaskNames, OthersStay DEF Alive
<1> QED BY <1>1, <1>2, <1>3, ToldMoves

\* A task that begins to give up its socket cancels the reader of no utterance.
LEMMA UndoTold ==
  ASSUME TasksInv, ToldInv, NEW t \in Connectors, Moved(t), Connecting(t),
         at'[t] = "undoing", gen'[t] = gen[t], frame'[t] = None,
         at[t] # "idle", t = Setup => at[Setup] # "done",
         CancelReaders({gen[t]}), UNCHANGED queue
  PROVE  ToldInv'
<1>0. t \in Tasks
  BY TaskNames
<1>1. QueuesGrow(t)
  BY DEF QueuesGrow, ToldInv
<1>2. \A u \in Utterances : Streaming(u) => gen[u] # gen[t] /\ gen[u] \in Generations
  BY StreamsOnSocket, KnownGenerations, TaskNames DEF ToldInv
<1>3. \A u \in Utterances \ {t} : Pending(u) /\ Alive(gen[u]) => Alive(gen[u])'
  <2> SUFFICES ASSUME NEW u \in Utterances \ {t}, Pending(u), Alive(gen[u]) PROVE Alive(gen[u])'
    OBVIOUS
  <2>1. gen'[u] = gen[u]
    BY <1>0, OthersStay, TaskNames
  <2>2. reader'[gen[u]] = reader[gen[u]]
    BY <1>2 DEF CancelReaders, Pending
  <2> QED BY <2>1, <2>2 DEF Alive
<1>4. ~Streaming(t)'
  BY WsConstants DEF Streaming, Frames
<1> QED BY <1>0, <1>1, <1>2, <1>3, <1>4, ToldMoves

\* _ensure_ws makes a new socket, and gives up none that an utterance has.
LEMMA ConnectTold ==
  ASSUME TasksInv, ConnectInv, ToldInv, NEW t \in Connectors, ConnectStep(t)
  PROVE  ToldInv'
<1> USE DEF clientVars, lockVars
<1>0. t \in Tasks /\ Moved(t) /\ QueuesGrow(t) /\ at[t] \notin {"idle", "done"}
  <2>1. UNCHANGED queue
    BY DEF ConnectStep, EnsureWs, DialRefused, DialFails, DialSucceeds, Install, Confirm,
           ReaderJoined, Clear, Undo
  <2>2. Moved(t) /\ at[t] \notin {"idle", "done"}
    BY ConnectMoves, InstallMoves
       DEF ConnectStep, EnsureWs, TakeConnectLock, DialRefused, DialFails, DialSucceeds, Install,
           Confirm, ReaderJoined, Clear
  <2> QED BY <2>1, <2>2, TaskNames DEF QueuesGrow, ToldInv
<1>1. \A u \in Utterances \ {t} : gen'[u] = gen[u]
  BY <1>0, OthersStay, TaskNames
<1>2. Freed(t) => ~Connecting(t)' /\ ~Pending(t)'
  BY WsConstants DEF Freed, Connecting, Making, Pending, Frames
<1>3. \A u \in Utterances : Streaming(u) => gen[u] \in 1 .. generation /\ gen[u] # None
  BY StreamsOnSocket, WsConstants DEF TasksInv, ClientTypes
<1>4. ASSUME Freed(t), UNCHANGED reader,
             \A x \in Connectors \ {t} : ~Connecting(x)
      PROVE  ToldInv'
  <2>1. \A u \in Utterances \ {t} : Alive(gen[u]) => Alive(gen[u])'
    BY <1>1, <1>4 DEF Alive
  <2> QED BY <1>0, <1>2, <1>4, <2>1, ToldMoves
<1>5. CASE EnsureWs(t)
  <2>1. UNCHANGED reader /\ connector = None
    BY <1>5 DEF EnsureWs, TakeConnectLock
  <2>2. \A x \in Connectors : ~Connecting(x)
    BY <2>1, MakersHold, TaskNames
  <2>3. CASE at'[t] = "dialing" /\ gen'[t] = None /\ frame'[t] = None
    <3>1. UNCHANGED queue
      BY <1>5 DEF EnsureWs
    <3> QED BY <1>0, <2>1, <2>3, <3>1, PlainTold, WsConstants DEF Streaming, Frames
  <2> QED BY <1>4, <1>5, <2>1, <2>2, <2>3, ConnectMoves
<1>6. CASE DialRefused(t) \/ DialFails(t) \/ DialSucceeds(t)
  <2>1. UNCHANGED <<queue, reader>> /\ gen'[t] = None /\ frame'[t] = None
    BY <1>6, ConnectMoves DEF DialRefused, DialFails, DialSucceeds
  <2> QED BY <1>0, <2>1, PlainTold, WsConstants DEF Streaming, Frames
<1>7. CASE Install(t)
  <2>1. CASE closed
    <3>1. UNCHANGED <<queue, reader>> /\ gen'[t] = None /\ Freed(t)
      BY <1>7, <2>1, InstallMoves DEF Install
    <3>2. ~Streaming(t)'
      BY <1>0, <3>1, WsConstants
         DEF Freed, Moved, Placed, Apart, Streaming, Frames, TasksInv, ClientTypes
    <3> QED BY <1>0, <3>1, <3>2, PlainTold
  <2>2. CASE ~closed
    <3>1. /\ gen'[t] = generation + 1 /\ frame'[t] \in {"route", None}
          /\ reader' = [reader EXCEPT ![generation + 1] = "created"]
      BY <1>7, <2>2, InstallMoves DEF Install
    <3>2. ~Streaming(t)'
      BY <3>1, WsConstants DEF Streaming, Frames
    <3>3. generation \in Nat
      BY WsConstants DEF TasksInv, ClientTypes
    <3>4. \A u \in Utterances : Streaming(u) => gen'[t] # gen[u]
      BY <1>3, <3>1, <3>3
    <3>5. \A u \in Utterances \ {t} : Pending(u) /\ Alive(gen[u]) => Alive(gen[u])'
      <4> SUFFICES ASSUME NEW u \in Utterances \ {t}, Pending(u), Alive(gen[u])
                   PROVE  Alive(gen[u])'
        OBVIOUS
      <4>1. gen[u] # generation + 1
        BY <3>1, <3>4 DEF Pending
      <4>2. reader'[gen[u]] = reader[gen[u]]
        BY <3>1, <4>1 DEF TasksInv, ClientTypes
      <4> QED BY <1>1, <4>2 DEF Alive
    <3> QED BY <1>0, <3>2, <3>4, <3>5, ToldMoves
  <2> QED BY <2>1, <2>2
<1>8. CASE Confirm(t)
  <2>1. Connecting(t)
    BY <1>8 DEF Confirm, Connecting, Making
  <2>2. CASE StillCurrent(t)
    <3>1. Freed(t) /\ UNCHANGED reader
      BY <1>8, <2>2, ConnectMoves DEF Confirm
    <3>2. \A x \in Connectors \ {t} : ~Connecting(x)
      BY <2>1, MakersHold
    <3> QED BY <1>4, <3>1, <3>2
  <2>3. CASE ~StillCurrent(t)
    <3>1. /\ at'[t] = "undoing" /\ gen'[t] = gen[t] /\ frame'[t] = None
          /\ CancelReaders({gen[t]}) /\ UNCHANGED queue
      BY <1>8, <2>3, ConnectMoves DEF Confirm, Undo
    <3> QED BY <1>0, <2>1, <3>1, UndoTold
  <2> QED BY <2>2, <2>3
<1>9. CASE ReaderJoined(t)
  <2>1. gen'[t] = gen[t] /\ frame'[t] = frame[t] /\ Connecting(t) /\ at[t] = "undoing"
    BY <1>9, ConnectMoves DEF ReaderJoined, Connecting, Making
  <2>2. ~Streaming(t)'
    BY <1>0, <2>1, WsConstants DEF Streaming, Frames, TasksInv, Placed
  <2>3. \A u \in Utterances \ {t} : Pending(u) /\ Alive(gen[u]) => Alive(gen[u])'
    BY <1>1, <1>9 DEF ReaderJoined, Alive
  <2>4. \A u \in Utterances : Streaming(u) => gen'[t] # gen[u]
    BY <2>1 DEF ToldInv
  <2> QED BY <1>0, <2>2, <2>3, <2>4, ToldMoves
<1>10. CASE Clear(t)
  <2>1. UNCHANGED <<queue, reader>> /\ gen'[t] = None /\ frame'[t] = None
    BY <1>10, ConnectMoves DEF Clear
  <2> QED BY <1>0, <2>1, PlainTold, WsConstants DEF Streaming, Frames
<1> QED BY <1>5, <1>6, <1>7, <1>8, <1>9, <1>10 DEF ConnectStep

\* _send_json: an utterance is sent only on a socket that has a reader.
LEMMA SendTold ==
  ASSUME TasksInv, ConnectInv, Watched, ToldInv,
         NEW t \in Connectors \cup Sessions, SendStep(t)
  PROVE  ToldInv'
<1> USE DEF clientVars, lockVars
<1>0. t \in Tasks /\ Moved(t) /\ at[t] \in {"sendWait", "sending"}
  BY TaskNames, FrameMoves DEF SendStep, BeginSend, EndSend, BreakSend
<1>1. \A u \in Utterances \ {t} : gen'[u] = gen[u]
  BY <1>0, OthersStay, TaskNames
<1>2. ASSUME UNCHANGED <<reader, queue>>, gen'[t] = gen[t],
             Connecting(t)' => Connecting(t), Streaming(t)' => Streaming(t) /\ ~Connecting(t)',
             t \in Utterances /\ Pending(t)' => Alive(gen[t])' \/ ClosingDown
      PROVE  ToldInv'
  <2>1. QueuesGrow(t)
    BY <1>2 DEF QueuesGrow, ToldInv
  <2>2. \A u \in Utterances \ {t} : Pending(u) /\ Alive(gen[u]) => Alive(gen[u])'
    BY <1>1, <1>2 DEF Alive
  <2>3. Connecting(t)' => t \in Connectors
    BY <1>0, <1>2, TaskNames DEF ConnectInv, TasksInv, ClientTypes
  <2>4. Connecting(t)' => \A u \in Utterances \ {t} : Streaming(u) => gen'[t] # gen[u]
    BY <1>2, <2>3 DEF ToldInv
  <2>5. t \in Utterances /\ Streaming(t)' => \A x \in Connectors \ {t} : Connecting(x) => gen[x] # gen'[t]
    BY <1>2 DEF ToldInv
  <2> QED BY <1>0, <1>2, <2>1, <2>2, <2>4, <2>5, ToldMoves
<1>3. CASE BeginSend(t) /\ MaySend(t)
  <2>1. at'[t] = "sending" /\ gen'[t] = gen[t] /\ frame'[t] = frame[t] /\ UNCHANGED <<reader, queue>>
    BY <1>3, FrameMoves DEF BeginSend, FreedOrRetiring, Freed
  <2>2. ASSUME t \in Utterances, Streaming(t) PROVE Alive(gen[t])'
    <3>1. ws = gen[t] /\ ~closed /\ ws # None
      BY <1>3, <2>2, StreamsOnSocket, WsConstants
         DEF BeginSend, MaySend, Usable, TasksInv, ClientTypes
    <3>2. ~ \E x \in Connectors : Undoing(x) /\ gen[x] = ws
      BY <2>2, <3>1 DEF ToldInv, Undoing, Connecting, Making
    <3> QED BY <2>1, <3>1, <3>2 DEF Watched, Alive
  <2>3. /\ Connecting(t)' => Connecting(t)
        /\ Streaming(t)' => Streaming(t) /\ ~Connecting(t)'
    BY <2>1 DEF Connecting, Making, Streaming
  <2> QED BY <1>2, <2>1, <2>2, <2>3 DEF Pending
<1>4. CASE EndSend(t)
  <2>0. UNCHANGED <<reader, queue>> /\ at[t] = "sending"
    BY <1>4 DEF EndSend
  <2>1. CASE frame[t] = "route" /\ at'[t] = "confirming" /\ gen'[t] = gen[t]
    <3>1. frame'[t] = None
      BY <1>0, <2>1 DEF Moved, Placed
    <3> QED BY <1>2, <2>0, <2>1, <3>1, WsConstants DEF Connecting, Streaming, Pending, Frames
  <2>2. CASE Freed(t) /\ gen'[t] = None
    <3>1. ~Streaming(t)'
      BY <1>0, <2>2, WsConstants
         DEF Freed, Moved, Placed, Apart, Streaming, Frames, TasksInv, ClientTypes
    <3> QED BY <1>0, <2>0, <2>2, <3>1, PlainTold
  <2>3. CASE frame[t] = "utterance" /\ at'[t] = "streaming" /\ gen'[t] = gen[t]
             /\ frame'[t] = frame[t]
    <3>1. t \in Utterances /\ Pending(t)' => Alive(gen[t])' \/ ClosingDown
      BY <2>0, <2>3 DEF ToldInv, Pending, Streaming, Alive
    <3>2. ~Connecting(t)' /\ Streaming(t)
      BY <2>3 DEF Connecting, Making, Streaming
    <3> QED BY <1>2, <2>0, <2>3, <3>1, <3>2
  <2> QED BY <1>4, <2>1, <2>2, <2>3, FrameMoves
<1>5. CASE SendRaises(t) /\ ((BeginSend(t) /\ ~MaySend(t)) \/ BreakSend(t))
  <2>1. /\ gen'[t] \in {gen[t], None}
        /\ \/ frame[t] = "route" /\ at'[t] = "undoing" /\ gen'[t] = gen[t]
           \/ frame[t] # "route" /\ FreedOrRetiring(t)
    BY <1>5, FrameMoves
  <2>2. CASE frame[t] = "route"
    <3>1. /\ at'[t] = "undoing" /\ gen'[t] = gen[t] /\ CancelReaders({gen[t]})
          /\ frame'[t] = None /\ UNCHANGED queue
      BY <1>0, <1>5, <2>1, <2>2 DEF SendRaises, Undo, TasksInv, TaskTypes
    <3>2. t \in Connectors /\ Connecting(t)
      BY <1>0, <2>2, TaskNames DEF ConnectInv, Connecting, TasksInv, ClientTypes
    <3> QED BY <1>0, <2>2, <3>1, <3>2, UndoTold
  <2>3. CASE frame[t] # "route"
    <3>1. UNCHANGED reader
      BY <1>5, <2>3 DEF SendRaises, AbandonUtterance
    <3>2. QueuesGrow(t)
      <4>1. UNCHANGED queue \/ Popped(t)
        BY <1>5, <2>3 DEF SendRaises, AbandonUtterance
      <4> QED BY <4>1, PoppedGrow DEF QueuesGrow, ToldInv
    <3>3. t \in Utterances => ~Streaming(t)'
      BY <1>0, <1>5, <2>3, TaskNames, WsConstants
         DEF SendRaises, AbandonUtterance, End, Send, Go, Streaming, Frames, TasksInv, TaskTypes,
             Placed
    <3>4. ~Connecting(t)'
      BY <2>1, <2>3, WsConstants DEF FreedOrRetiring, Freed, Connecting, Making, Frames
    <3>5. \A u \in Utterances \ {t} : Pending(u) /\ Alive(gen[u]) => Alive(gen[u])'
      BY <1>1, <3>1 DEF Alive
    <3> QED BY <1>0, <3>2, <3>3, <3>4, <3>5, ToldMoves
  <2> QED BY <2>2, <2>3
<1>6. (BeginSend(t) /\ ~MaySend(t)) \/ BreakSend(t) => SendRaises(t)
  BY DEF BeginSend, BreakSend
<1> QED BY <1>3, <1>4, <1>5, <1>6 DEF SendStep

\* Frames that are put in the queues of some utterances leave none of these empty.
LEMMA TellingFills ==
  ASSUME ToldInv, NEW us, TellClosed(us)
  PROVE  /\ queue' \in [Utterances -> Seq({"handoff", "done", "closed"})]
         /\ \A u \in Utterances : queue'[u] = <<>> => u \notin us /\ queue[u] = <<>>
<1>1. ASSUME NEW s \in Seq({"handoff", "done", "closed"})
      PROVE  /\ Append(s, "closed") \in Seq({"handoff", "done", "closed"})
             /\ Append(s, "closed") # <<>>
  OBVIOUS
<1> QED BY <1>1 DEF ToldInv, TellClosed

\* No step of a reader or of the network takes the reader of an utterance that is
\* not told.
LEMMA ReaderTold ==
  ASSUME TasksInv, ToldInv, NEW g \in Generations,
         ReaderStep(g) \/ RouteAnswered(g) \/ Drop(g) \/ \E u \in Utterances : UtteranceAnswered(u)
  PROVE  ToldInv'
<1> USE DEF clientVars, lockVars, taskVars
<1>1. UNCHANGED <<at, gen, frame>>
  BY DEF ReaderStep, ReaderStarts, HandleRouteAck, ReaderEnds, Cleanup, RouteAnswered, Drop,
         UtteranceAnswered
<1>2. CASE Cleanup(g)
  <2>1. /\ TellClosed({u \in Utterances : Streaming(u) /\ gen[u] = g})
        /\ reader' = [reader EXCEPT ![g] = "done"]
    BY <1>2 DEF Cleanup
  <2>2. ASSUME NEW u \in Utterances, Pending(u)' PROVE Alive(gen[u])' \/ ClosingDown'
    <3>1. Pending(u) /\ gen[u] # g
      BY <1>1, <2>1, <2>2, TellingFills DEF Pending, Streaming
    <3>2. Alive(gen[u]) => Alive(gen[u])'
      BY <1>1, <2>1, <3>1 DEF Alive, TasksInv, ClientTypes
    <3> QED BY <1>1, <3>1, <3>2 DEF ToldInv, ClosingDown
  <2>3. queue' \in [Utterances -> Seq({"handoff", "done", "closed"})]
    BY <2>1, TellingFills
  <2> QED BY <1>1, <2>2, <2>3 DEF ToldInv, Streaming, Connecting, Making
<1>3. CASE \E u \in Utterances : UtteranceAnswered(u)
  <2>1. PICK u \in Utterances, f \in {"handoff", "done"} :
          queue' = [queue EXCEPT ![u] = <<f>>] /\ UNCHANGED reader
    BY <1>3 DEF UtteranceAnswered
  <2>2. <<f>> \in Seq({"handoff", "done", "closed"}) /\ <<f>> # <<>>
    OBVIOUS
  <2>3. /\ queue' \in [Utterances -> Seq({"handoff", "done", "closed"})]
        /\ \A x \in Utterances : queue'[x] = <<>> => queue[x] = <<>>
    BY <2>1, <2>2 DEF ToldInv
  <2> QED BY <1>1, <2>1, <2>3
          DEF ToldInv, Pending, Alive, ClosingDown, Streaming, Connecting, Making
<1>4. CASE ReaderStarts(g) \/ HandleRouteAck(g) \/ ReaderEnds(g) \/ RouteAnswered(g) \/ Drop(g)
  <2>1. UNCHANGED queue
    BY <1>4 DEF ReaderStarts, HandleRouteAck, ReaderEnds, RouteAnswered, Drop
  <2>2. \A h \in Generations : Alive(h) => Alive(h)'
    BY <1>4 DEF ReaderStarts, HandleRouteAck, ReaderEnds, RouteAnswered, Drop, Alive, TasksInv,
                ClientTypes
  <2>3. ASSUME NEW u \in Utterances, Pending(u)' PROVE Alive(gen[u])' \/ ClosingDown'
    <3>1. Pending(u) /\ gen[u] \in Generations
      BY <1>1, <2>1, <2>3, StreamsOnSocket, KnownGenerations, TaskNames DEF Pending, Streaming
    <3> QED BY <1>1, <2>2, <3>1 DEF ToldInv, ClosingDown, Alive
  <2> QED BY <1>1, <2>1, <2>3 DEF ToldInv, Streaming, Connecting, Making
<1> QED BY <1>2, <1>3, <1>4 DEF ReaderStep

\* While start_background runs no utterance does.
LEMMA NoneYet ==
  ASSUME TasksInv, ToldInv, at[Setup] # "done"
  PROVE  \A u \in Utterances : ~Streaming(u)
BY TaskNames, StreamsOnSocket DEF ToldInv, Apart

\* The rest: close() takes it upon itself to tell the utterances.
LEMMA OthersTold ==
  ASSUME TasksInv, ConnectInv, ToldInv, ~CancelCleanup, ~EarlyUse,
         \/ CallStep \/ Retire \/ Retired \/ SupervisorStep \/ CloseStep
         \/ \E u \in Utterances : TakeFrame(u)
  PROVE  ToldInv'
<1> USE DEF clientVars, lockVars
<1>0. /\ Connectors \subseteq Tasks /\ Sessions \subseteq Tasks
      /\ Setup \in Connectors /\ Supervisor \in Connectors /\ Setup # Supervisor
      /\ Senders \subseteq Connectors /\ Utterances \subseteq Connectors
      /\ {Setup, Supervisor} \cap (Senders \cup Sessions \cup Utterances) = {}
      /\ Sessions \cap Utterances = {}
      /\ Closer \in Tasks /\ Closer \notin Connectors \cup Sessions
  BY TaskNames, WsConstants
<1>1. ASSUME NEW t \in Tasks, Moved(t), at'[t] = "lockWait", UNCHANGED <<queue, reader>>,
             t \in Utterances /\ at[t] = "idle" => at[Setup] = "done",
             t = Setup => at[Setup] # "done"
      PROVE  ToldInv'
  <2>1. gen'[t] = None /\ frame'[t] = None
    BY <1>1 DEF Moved, Placed, Apart
  <2> QED BY <1>1, <2>1, PlainTold, WsConstants DEF Streaming, Frames
<1>2. CASE StartBackground
  BY <1>0, <1>1, <1>2, CallMoves DEF StartBackground
<1>3. ASSUME NEW s \in Senders, SendJobFrame(s) PROVE ToldInv'
  <2>1. s \in Tasks /\ s \notin Utterances /\ s # Setup
    BY <1>0, WsConstants
  <2> QED BY <1>1, <1>3, <2>1, CallMoves DEF SendJobFrame
<1>4. ASSUME NEW u \in Utterances, StreamUtterance(u) PROVE ToldInv'
  BY <1>0, <1>1, <1>4, CallMoves DEF StreamUtterance, Ready
<1>5. ASSUME NEW s \in Sessions, RegisterSession(s) PROVE ToldInv'
  <2>1. Moved(s) /\ at'[s] = "sendWait" /\ frame'[s] = "session" /\ UNCHANGED <<queue, reader>>
    BY <1>5, CallMoves DEF RegisterSession
  <2>2. ~Connecting(s)' /\ ~Streaming(s)'
    BY <2>1 DEF Connecting, Making, Streaming
  <2> QED BY <1>0, <2>1, <2>2, PlainTold
<1>6. ASSUME NEW t \in Cancellable, Cancel(t) PROVE ToldInv'
  <2>1. t \in Tasks /\ Moved(t) /\ ~Undoing(t) /\ t # Setup /\ t # Supervisor
    BY <1>0, <1>6, CancelMoves DEF Cancel, Cancellable, Undoing
  <2>2. CASE Registering(t) /\ Undo(t) /\ at'[t] = "undoing" /\ gen'[t] = gen[t]
             /\ frame'[t] = None
    <3>1. Connecting(t) /\ at[t] # "idle"
      BY <2>1, <2>2, WsConstants
         DEF Registering, Connecting, Making, TasksInv, Placed, Apart, Frames
    <3>2. t \in Connectors
      BY <2>1, <3>1, TaskNames DEF ConnectInv, TasksInv, ClientTypes
    <3> QED BY <2>1, <2>2, <3>1, <3>2, UndoTold DEF Undo
  <2>3. CASE at[t] \in {"sendWait", "sending", "streaming"} /\ ~Registering(t) /\ SendRaises(t)
             /\ Freed(t)
    <3>1. UNCHANGED reader /\ (UNCHANGED queue \/ Popped(t))
      BY <2>3 DEF SendRaises, AbandonUtterance, Registering
    <3>2. QueuesGrow(t)
      BY <3>1, PoppedGrow DEF QueuesGrow, ToldInv
    <3>3. t \in Utterances => ~Streaming(t)'
      BY <2>1, <2>3, <1>0, WsConstants
         DEF SendRaises, AbandonUtterance, End, Send, Go, Streaming, Frames, TasksInv, TaskTypes,
             Placed, Registering
    <3>4. ~Connecting(t)'
      BY <2>3, WsConstants DEF Freed, Connecting, Making, Frames
    <3>5. \A u \in Utterances \ {t} : Pending(u) /\ Alive(gen[u]) => Alive(gen[u])'
      BY <1>0, <2>1, <3>1, OthersStay DEF Alive
    <3> QED BY <2>1, <2>3, <3>2, <3>3, <3>4, <3>5, ToldMoves
  <2>4. CASE at[t] \in {"lockWait", "dialing", "installing", "clearing", "undoing"}
             /\ gen'[t] = None /\ Freed(t)
    <3>1. ~Registering(t)
      BY <2>1, <2>4, WsConstants
         DEF Registering, TasksInv, Placed, Apart, Frames, Undoing
    <3>2. UNCHANGED <<reader, queue>>
      BY <1>6, <2>1, <2>4, <3>1 DEF Cancel, Undoing
    <3>3. ~Streaming(t)'
      BY <2>1, <2>4, WsConstants
         DEF Freed, Moved, Placed, Apart, Streaming, Frames, TasksInv, ClientTypes
    <3> QED BY <2>1, <2>4, <3>2, <3>3, PlainTold
  <2> QED BY <2>2, <2>3, <2>4, <1>6, CancelMoves
<1>7. CASE Retire \/ Retired
  <2>1. Moved(Setup) /\ at[Setup] \in {"retiring", "retired"} /\ UNCHANGED queue
    BY <1>7, OtherMoves DEF Retire, Retired
  <2>2. \A u \in Utterances : ~Streaming(u)
    BY <2>1, NoneYet
  <2>3. QueuesGrow(Setup)
    BY <2>1 DEF QueuesGrow, ToldInv
  <2> QED BY <1>0, <2>1, <2>2, <2>3, ToldMoves DEF Pending
<1>8. CASE SupervisorStep
  <2>1. /\ Moved(Supervisor) /\ gen'[Supervisor] = None /\ frame'[Supervisor] = None
        /\ UNCHANGED <<queue, reader>>
    BY <1>8, OtherMoves DEF SupervisorStep, LoopHead, WatchEnds, BackoffEnds
  <2> QED BY <1>0, <2>1, PlainTold, WsConstants DEF Streaming, Frames
<1>9. ASSUME NEW u \in Utterances, TakeFrame(u) PROVE ToldInv'
  <2>1. /\ Moved(u) /\ Freed(u) /\ frame'[u] \in {"receipt", None} /\ u \in Tasks /\ u # Setup
        /\ at[u] = "streaming" /\ UNCHANGED reader /\ QueuesGrow(u)
    BY <1>0, <1>9, OtherMoves, PoppedGrow DEF TakeFrame
  <2>2. ~Streaming(u)' /\ ~Connecting(u)'
    BY <2>1, WsConstants DEF Streaming, Freed, Connecting, Making, Frames
  <2>3. \A x \in Utterances \ {u} : Pending(x) /\ Alive(gen[x]) => Alive(gen[x])'
    BY <1>0, <2>1, OthersStay DEF Alive
  <2> QED BY <2>1, <2>2, <2>3, ToldMoves
<1>10. CASE CloseBegin
  <2>1. at'[Closer] = "stopping" /\ UNCHANGED queue
    BY <1>0, <1>10 DEF CloseBegin, TasksInv, TaskTypes
  <2>2. \A x \in Connectors \ {Supervisor} :
          at'[x] = at[x] /\ gen'[x] = gen[x] /\ frame'[x] = frame[x]
    BY <1>0, <1>10 DEF CloseBegin, TasksInv, TaskTypes
  <2>3. Connecting(Supervisor)' => Connecting(Supervisor) /\ gen'[Supervisor] = gen[Supervisor]
    BY <1>0, <1>10, WsConstants
       DEF CloseBegin, Connecting, Making, Registering, TasksInv, TaskTypes, Frames
  <2>4. \A x \in Connectors : Connecting(x)' => Connecting(x) /\ gen'[x] = gen[x]
    BY <2>2, <2>3 DEF Connecting, Making
  <2> QED BY <1>0, <2>1, <2>2, <2>4 DEF ToldInv, ClosingDown, Streaming
<1>11. CASE CloseStep
  <2>1. \A x \in Connectors : at'[x] = at[x] /\ gen'[x] = gen[x] /\ frame'[x] = frame[x]
    BY <1>0, <1>11
       DEF CloseStep, TasksStopped, CloseSocket, CloseEnd, Go, TasksInv, TaskTypes
  <2>2. CASE TasksStopped \/ CloseSocket
    <3>1. ClosingDown' /\ UNCHANGED queue
      BY <1>0, <2>2 DEF TasksStopped, CloseSocket, Go, ClosingDown, TasksInv, TaskTypes
    <3> QED BY <1>0, <2>1, <3>1 DEF ToldInv, Streaming, Connecting, Making
  <2>3. CASE CloseEnd
    <3>1. TellClosed({u \in Utterances : Streaming(u)})
      BY <2>3 DEF CloseEnd
    <3>2. ASSUME NEW u \in Utterances PROVE ~Pending(u)'
      <4>1. queue'[u] = <<>> => ~Streaming(u)
        BY <3>1, TellingFills
      <4> QED BY <1>0, <2>1, <4>1 DEF Pending, Streaming
    <3>3. queue' \in [Utterances -> Seq({"handoff", "done", "closed"})]
      BY <3>1, TellingFills
    <3>4. \A u \in Utterances : at'[u] # "idle" => at'[Setup] = "done"
      BY <1>0, <2>1 DEF ToldInv
    <3>5. \A u \in Utterances, t \in Connectors :
            Streaming(u)' /\ Connecting(t)' => gen'[t] # gen'[u]
      BY <1>0, <2>1 DEF ToldInv, Streaming, Connecting, Making
    <3> QED BY <3>2, <3>3, <3>4, <3>5 DEF ToldInv
  <2> QED BY <1>11, <2>2, <2>3 DEF CloseStep
<1>12. CASE CallStep
  BY <1>2, <1>3, <1>4, <1>5, <1>6, <1>10, <1>12 DEF CallStep
<1> QED BY <1>7, <1>8, <1>9, <1>11, <1>12

\* For any tasks and sockets, if utterances come after start_background and no task
\* is cancelled while it gives up a socket: an utterance that waits for a frame has
\* a reader that will tell it of the end of its connection, or close() will.
THEOREM UtterancesAreTold ==
  ASSUME ~CancelCleanup, ~EarlyUse PROVE WsSafety => []WaitingUtterancesAreTold
<1> DEFINE Inv == ConnectInv /\ TasksInv /\ Watched /\ ToldInv
<1>1. WsInit => Inv
  BY ConnectInit, TasksInit, WatchInit, ToldInit
<1>2. Inv /\ [WsNext]_vars => Inv'
  <2>1. ConnectInv /\ [WsNext]_vars => ConnectInv'
    BY StepIsSafe DEF ConnectKept
  <2>2. ASSUME Inv, [WsNext]_vars PROVE TasksInv' /\ Watched'
    BY <2>2, TasksStep, WatchStep
  <2>3. ASSUME Inv, WsNext PROVE ToldInv'
    <3>1. 1 \in Generations
      BY WsConstants DEF Generations
    <3> QED BY <2>3, <3>1, ConnectTold, SendTold, ReaderTold, OthersTold
            DEF WsNext, NetworkStep, TaskStep
  <2>4. ASSUME Inv, UNCHANGED vars PROVE ToldInv'
    BY <2>4
       DEF vars, clientVars, taskVars, ToldInv, Pending, Streaming, Connecting, Making, Alive,
           ClosingDown
  <2> QED BY <2>1, <2>2, <2>3, <2>4
<1>3. Inv => WaitingUtterancesAreTold
  BY TaskNames DEF TasksInv, Placed, ToldInv, Pending, Streaming, ClosingDown, WaitingUtterancesAreTold
<1> QED BY <1>1, <1>2, <1>3, PTL DEF WsSafety

-----------------------------------------------------------------------------
(* Who waits for whom.                                                     *)

\* Task t writes, or close() closes the socket: it has _ws_write_lock.
Writing(t) == at[t] \in {"sending", "shutting"}

\* Task t is between taking _ws_lock and giving it back.
Inside(t) == at[t] \in Making \/ (at[t] \in {"sendWait", "sending"} /\ frame[t] = "route")

\* The locks are held by those who are where the code holds them, and by no other.
LocksInv ==
  /\ \A t \in Tasks : writer = t <=> Writing(t)
  /\ connector # None => Inside(connector)

\* Nobody holds a lock in the initial state.
LEMMA LocksInit == WsInit => LocksInv
BY TaskNames DEF WsInit, LocksInv, Writing

\* A step of t that takes or leaves a lock in the right place.
LEMMA LockMoves ==
  ASSUME TasksInv, LocksInv, NEW t \in Tasks, Moved(t),
         \/ UNCHANGED writer /\ ~Writing(t) /\ ~Writing(t)'
         \/ writer = None /\ writer' = t /\ Writing(t)'
         \/ Unlock(t) /\ ~Writing(t)',
         \/ connector' = t /\ Inside(t)'
         \/ UNCHANGED connector /\ connector # t
         \/ Leave(t)
  PROVE  LocksInv'
<1>0. t # None /\ connector \in Tasks \cup {None}
  BY TaskNames DEF TasksInv, ClientTypes
<1>1. ASSUME NEW x \in Tasks PROVE writer' = x <=> Writing(x)'
  <2>1. CASE x = t
    BY <1>0, <2>1 DEF LocksInv, Unlock
  <2>2. CASE x # t
    <3>1. writer' = x <=> writer = x
      BY <1>0, <2>2, TaskNames DEF Unlock
    <3>2. Writing(x)' <=> Writing(x)
      BY <2>2, OthersStay DEF Writing
    <3> QED BY <3>1, <3>2 DEF LocksInv
  <2> QED BY <2>1, <2>2
<1>2. ASSUME connector' # None PROVE Inside(connector)'
  <2>1. CASE connector' = t /\ Inside(t)'
    BY <2>1 DEF Inside
  <2>2. CASE connector' = connector /\ connector # t
    <3>1. connector \in Tasks /\ Inside(connector)
      BY <1>0, <1>2, <2>2 DEF LocksInv
    <3>2. at'[connector] = at[connector] /\ frame'[connector] = frame[connector]
      BY <2>2, <3>1, OthersStay DEF Inside, Making
    <3> QED BY <2>2, <3>1, <3>2 DEF Inside
  <2> QED BY <1>0, <1>2, <2>1, <2>2 DEF Leave
<1> QED BY <1>1, <1>2 DEF LocksInv

\* A step outside the locks leaves them alone.
LEMMA OutsideMoves ==
  ASSUME TasksInv, LocksInv, NEW t \in Tasks, Moved(t), UNCHANGED lockVars,
         ~Writing(t), ~Writing(t)', ~Inside(t)
  PROVE  LocksInv'
<1>1. connector # t
  BY TaskNames DEF LocksInv
<1> QED BY <1>1, LockMoves DEF lockVars

\* _ensure_ws has _ws_lock from the first await to the last.
LEMMA ConnectLocks ==
  ASSUME TasksInv, ConnectInv, LocksInv, NEW t \in Connectors, ConnectStep(t)
  PROVE  LocksInv'
<1> USE DEF clientVars, lockVars
<1>0. t \in Tasks
  BY TaskNames
<1>1. at[t] \in Making => connector = t
  BY <1>0 DEF ConnectInv, Connecting
<1>2. Freed(t) => ~Writing(t)'
  BY DEF Freed, Writing
<1>3. CASE EnsureWs(t)
  <2>1. at[t] = "lockWait" /\ UNCHANGED writer /\ Moved(t)
    BY <1>3, ConnectMoves DEF EnsureWs, TakeConnectLock
  <2>2. ~Writing(t) /\ ~Inside(t)
    BY <2>1 DEF Writing, Inside, Making
  <2>3. CASE Freed(t) /\ UNCHANGED connector
    BY <1>0, <1>2, <2>1, <2>2, <2>3, OutsideMoves
  <2>4. CASE at'[t] = "dialing" /\ connector' = t
    <3>1. ~Writing(t)' /\ Inside(t)'
      BY <2>4 DEF Writing, Inside, Making
    <3> QED BY <1>0, <2>1, <2>2, <2>4, <3>1, LockMoves
  <2> QED BY <1>3, <2>3, <2>4, ConnectMoves
<1>4. CASE ~EnsureWs(t)
  <2>1. /\ at[t] \in Making /\ UNCHANGED writer
        /\ \/ Freed(t) /\ Leave(t)
           \/ /\ UNCHANGED connector
              /\ \/ at'[t] \in Making
                 \/ at'[t] = "sendWait" /\ frame'[t] = "route"
    <3>1. CASE DialRefused(t) \/ DialFails(t) \/ Clear(t)
      BY <3>1, ConnectMoves DEF DialRefused, DialFails, Clear, Making
    <3>2. CASE DialSucceeds(t)
      BY <3>2, ConnectMoves DEF DialSucceeds, Making
    <3>3. CASE Install(t)
      BY <3>3, InstallMoves DEF Install, Making
    <3>4. CASE Confirm(t)
      BY <3>4, ConnectMoves DEF Confirm, Making
    <3>5. CASE ReaderJoined(t)
      BY <3>5, ConnectMoves DEF ReaderJoined, Making
    <3> QED BY <1>4, <3>1, <3>2, <3>3, <3>4, <3>5 DEF ConnectStep
  <2>2. Moved(t)
    BY <1>4, ConnectMoves, InstallMoves DEF ConnectStep
  <2>3. ~Writing(t) /\ ~Writing(t)'
    BY <1>2, <2>1 DEF Writing, Making
  <2>4. connector = t
    BY <1>1, <2>1
  <2>5. (connector' = t /\ Inside(t)') \/ Leave(t)
    BY <2>1, <2>4 DEF Inside
  <2> QED BY <1>0, <2>1, <2>2, <2>3, <2>5, LockMoves
<1> QED BY <1>3, <1>4

\* The write lock is held from where the frame is written to where that ends.
LEMMA SendLocks ==
  ASSUME TasksInv, LocksInv, NEW t \in Connectors \cup Sessions, SendStep(t)
  PROVE  LocksInv'
<1>0. t \in Tasks /\ t # None
  BY TaskNames
<1>1. Moved(t) /\ UNCHANGED connector /\ at[t] \in {"sendWait", "sending"}
  BY FrameMoves DEF SendStep, BeginSend, EndSend, BreakSend
<1>2. FreedOrRetiring(t) => ~Writing(t)'
  BY DEF Freed, FreedOrRetiring, Writing
<1>3. /\ frame[t] = "route" => Inside(t)'
      /\ \/ UNCHANGED writer /\ ~Writing(t) /\ ~Writing(t)'
         \/ writer = None /\ writer' = t /\ Writing(t)'
         \/ Unlock(t) /\ ~Writing(t)'
  <2>1. CASE BeginSend(t)
    <3>1. CASE MaySend(t)
      BY <2>1, <3>1, FrameMoves DEF BeginSend, Writing, Inside
    <3>2. CASE ~MaySend(t)
      BY <1>2, <2>1, <3>2, FrameMoves DEF BeginSend, Writing, Inside, Making
    <3> QED BY <3>1, <3>2
  <2>2. CASE EndSend(t)
    BY <1>2, <2>2, FrameMoves DEF EndSend, FreedOrRetiring, Writing, Inside, Making
  <2>3. CASE BreakSend(t)
    BY <1>2, <2>3, FrameMoves DEF BreakSend, Writing, Inside, Making
  <2> QED BY <2>1, <2>2, <2>3 DEF SendStep
<1>4. connector = t => frame[t] = "route"
  BY <1>0, <1>1 DEF LocksInv, Inside, Making
<1>5. (connector' = t /\ Inside(t)') \/ (UNCHANGED connector /\ connector # t)
  BY <1>1, <1>3, <1>4
<1> QED BY <1>0, <1>1, <1>3, <1>5, LockMoves

\* A task that is cancelled, or whose process closes the client, leaves its locks.
LEMMA CancelLocks ==
  ASSUME TasksInv, ConnectInv, LocksInv
  PROVE  /\ \A t \in Cancellable : Cancel(t) => LocksInv'
         /\ CloseBegin => LocksInv'
<1>0. /\ Cancellable \subseteq Tasks /\ Supervisor \in Tasks /\ Closer \in Tasks
      /\ Supervisor # Closer /\ None \notin Tasks /\ Closer \notin Connectors
  BY TaskNames DEF Cancellable
<1>1. ASSUME NEW t \in Cancellable, Cancel(t) PROVE LocksInv'
  <2>1. Moved(t) /\ Unlock(t)
    BY <1>1, CancelMoves DEF Cancel
  <2>2. Freed(t) \/ at'[t] = "undoing"
    BY <1>1, CancelMoves
  <2>3. ~Writing(t)'
    BY <2>2 DEF Freed, Writing
  <2>4. \/ connector' = t /\ Inside(t)'
        \/ UNCHANGED connector /\ connector # t
        \/ Leave(t)
    <3>1. CASE UNCHANGED connector /\ at'[t] = "undoing"
      BY <3>1 DEF Inside, Making
    <3>2. CASE UNCHANGED connector /\ at[t] \in {"sendWait", "sending", "streaming"} /\ ~Registering(t)
      <4>1. ~Inside(t)
        BY <3>2 DEF Inside, Making, Registering
      <4> QED BY <1>0, <3>2, <4>1 DEF LocksInv
    <3> QED BY <1>1, <3>1, <3>2, CancelMoves
  <2> QED BY <1>0, <2>1, <2>3, <2>4, LockMoves
<1>2. ASSUME CloseBegin PROVE LocksInv'
  <2>1. at[Closer] = "idle"
    BY <1>2 DEF CloseBegin, TasksInv
  <2>2. /\ at'[Closer] = "stopping"
        /\ at'[Supervisor] = IF Registering(Supervisor) THEN "undoing"
                             ELSE IF at[Supervisor] = "idle" THEN "idle" ELSE "done"
        /\ \A x \in Tasks \ {Closer, Supervisor} : at'[x] = at[x] /\ frame'[x] = frame[x]
    BY <1>0, <1>2 DEF CloseBegin, TasksInv, TaskTypes
  <2>3. Unlock(Supervisor)
    BY <1>2 DEF CloseBegin
  <2>4. \A x \in Tasks : writer' = x <=> Writing(x)'
    <3>1. writer' # Closer /\ ~Writing(Closer)' /\ writer' # Supervisor /\ ~Writing(Supervisor)'
      <4>1. ~Writing(Closer)
        BY <2>1 DEF Writing
      <4> QED BY <1>0, <2>2, <2>3, <4>1 DEF LocksInv, Unlock, Writing
    <3>2. \A x \in Tasks \ {Closer, Supervisor} : writer' = x <=> writer = x
      BY <1>0, <2>3 DEF Unlock
    <3>3. \A x \in Tasks \ {Closer, Supervisor} : Writing(x)' <=> Writing(x)
      BY <2>2 DEF Writing
    <3> QED BY <3>1, <3>2, <3>3 DEF LocksInv
  <2>5. ASSUME connector' # None PROVE Inside(connector)'
    <3>1. connector' = connector /\ connector \in Connectors /\ Inside(connector)
      BY <1>2, <2>5 DEF CloseBegin, LocksInv, TasksInv, ClientTypes
    <3>2. CASE connector = Supervisor
      <4>1. Registering(Supervisor)
        BY <1>0, <1>2, <2>5, <3>2 DEF CloseBegin
      <4> QED BY <2>2, <3>1, <3>2, <4>1 DEF Inside, Making
    <3>3. CASE connector # Supervisor
      <4>1. connector \in Tasks \ {Closer, Supervisor}
        BY <1>0, <3>1, <3>3, TaskNames
      <4> QED BY <2>2, <3>1, <4>1 DEF Inside
    <3> QED BY <3>2, <3>3
  <2> QED BY <2>4, <2>5 DEF LocksInv
<1> QED BY <1>1, <1>2

\* The steps of close() take the write lock for the closing of the socket.
LEMMA CloseLocks ==
  ASSUME TasksInv, LocksInv, CloseStep
  PROVE  LocksInv'
<1>0. Closer \in Tasks /\ Closer \notin Connectors /\ Connectors \subseteq Tasks /\ Closer # None
  BY TaskNames
<1>1. \A x \in Tasks \ {Closer} : at'[x] = at[x] /\ frame'[x] = frame[x]
  BY DEF CloseStep, TasksStopped, CloseSocket, CloseEnd, Go, TasksInv, TaskTypes
<1>2. writer' = Closer <=> Writing(Closer)'
  <2>1. CASE TasksStopped
    BY <1>0, <2>1 DEF TasksStopped, Go, lockVars, TasksInv, TaskTypes, LocksInv, Writing
  <2>2. CASE CloseSocket
    BY <1>0, <2>2 DEF CloseSocket, Go, TasksInv, TaskTypes, Writing
  <2>3. CASE CloseEnd
    BY <1>0, <2>3 DEF CloseEnd, Go, Unlock, TasksInv, TaskTypes, Writing
  <2> QED BY <2>1, <2>2, <2>3 DEF CloseStep
<1>3. ASSUME NEW x \in Tasks \ {Closer} PROVE writer' = x <=> Writing(x)'
  <2>1. writer' = x <=> writer = x
    <3>1. CASE TasksStopped
      BY <3>1 DEF TasksStopped, lockVars
    <3>2. CASE CloseSocket
      BY <1>0, <3>2, TaskNames DEF CloseSocket
    <3>3. CASE CloseEnd
      BY <3>3, TaskNames DEF CloseEnd, Unlock
    <3> QED BY <3>1, <3>2, <3>3 DEF CloseStep
  <2> QED BY <1>1, <2>1 DEF LocksInv, Writing
<1>4. UNCHANGED connector
  BY DEF CloseStep, TasksStopped, CloseSocket, CloseEnd, lockVars
<1>5. connector # None => Inside(connector)'
  <2>1. connector # None => connector \in Tasks \ {Closer}
    BY <1>0 DEF TasksInv, ClientTypes
  <2> QED BY <1>1, <1>4, <2>1 DEF LocksInv, Inside
<1> QED BY <1>0, <1>2, <1>3, <1>4, <1>5 DEF LocksInv

\* Every step keeps the locks where they belong.
LEMMA LocksStep ==
  ASSUME TasksInv, ConnectInv, LocksInv, [WsNext]_vars
  PROVE  LocksInv'
<1> USE DEF clientVars, taskVars
<1>0. /\ Connectors \subseteq Tasks /\ Sessions \subseteq Tasks
      /\ Setup \in Tasks /\ Supervisor \in Tasks
      /\ Senders \subseteq Tasks /\ Utterances \subseteq Tasks
  BY TaskNames
<1>1. ASSUME NEW t \in Tasks, Moved(t), UNCHANGED lockVars,
             at[t] \in {"idle", "retiring", "retired", "loop", "watching", "sleeping", "streaming"},
             at'[t] \in {"idle", "done", "lockWait", "retired", "loop", "watching", "sleeping",
                         "sendWait"}
      PROVE  LocksInv'
  <2>1. ~Writing(t) /\ ~Writing(t)' /\ ~Inside(t)
    BY <1>1 DEF Writing, Inside, Making
  <2> QED BY <1>1, <2>1, OutsideMoves
<1>2. CASE StartBackground
  BY <1>0, <1>1, <1>2, CallMoves DEF StartBackground
<1>3. ASSUME NEW s \in Senders, SendJobFrame(s) PROVE LocksInv'
  BY <1>0, <1>1, <1>3, CallMoves DEF SendJobFrame
<1>4. ASSUME NEW u \in Utterances, StreamUtterance(u) PROVE LocksInv'
  BY <1>0, <1>1, <1>4, CallMoves DEF StreamUtterance
<1>5. ASSUME NEW s \in Sessions, RegisterSession(s) PROVE LocksInv'
  BY <1>0, <1>1, <1>5, CallMoves DEF RegisterSession
<1>6. CASE Retire \/ Retired
  BY <1>0, <1>1, <1>6, OtherMoves DEF Retire, Retired
<1>7. CASE SupervisorStep
  <2>1. UNCHANGED lockVars /\ at[Supervisor] \in {"loop", "watching", "sleeping"}
    BY <1>7 DEF SupervisorStep, LoopHead, WatchEnds, BackoffEnds
  <2> QED BY <1>0, <1>1, <1>7, <2>1, OtherMoves
<1>8. ASSUME NEW u \in Utterances, TakeFrame(u) PROVE LocksInv'
  <2>1. UNCHANGED lockVars /\ at[u] = "streaming"
    BY <1>8 DEF TakeFrame
  <2>2. Moved(u) /\ Freed(u) /\ u \in Tasks
    BY <1>0, <1>8, OtherMoves
  <2> QED BY <1>1, <2>1, <2>2 DEF Freed
<1>9. CASE UNCHANGED <<taskVars, lockVars>>
  BY <1>9 DEF lockVars, LocksInv, Writing, Inside
<1>10. CASE \/ \E g \in Generations : ReaderStep(g) \/ RouteAnswered(g) \/ Drop(g)
            \/ \E u \in Utterances : UtteranceAnswered(u)
            \/ UNCHANGED vars
  <2>1. UNCHANGED <<taskVars, lockVars>>
    BY <1>10
       DEF ReaderStep, ReaderStarts, HandleRouteAck, ReaderEnds, Cleanup, RouteAnswered, Drop,
           UtteranceAnswered, vars
  <2> QED BY <1>9, <2>1
<1> QED BY <1>2, <1>3, <1>4, <1>5, <1>6, <1>7, <1>8, <1>10, ConnectLocks, SendLocks,
           CancelLocks, CloseLocks
        DEF WsNext, CallStep, NetworkStep, TaskStep

Ending(g) == reader[g] \in {"cleanup", "done"}
Ended(g) == reader'[g] \in {"cleanup", "done"}

\* Every socket that was installed has a reader task, which _ws_reader is while
\* the socket is the current one.
ReadersKnown ==
  /\ \A g \in 1 .. generation : reader[g] # "none"
  /\ wsReader # None => wsReader \in 1 .. generation
  /\ ws # None => wsReader = ws

\* Whoever awaits a reader but the supervisor has cancelled it.
AwaitedReadersEnd ==
  /\ \A t \in Connectors : at[t] \in {"undoing", "retired"} => Ending(gen[t])
  /\ at[Closer] = "stopping" /\ awaited.reader # None =>
       awaited.reader \in 1 .. generation /\ Ending(awaited.reader)

\* The supervisor of a closed client is over, or gives up the socket it was making.
SupervisorGivesUp ==
  closed => at[Supervisor] \in {"idle", "done", "undoing", "clearing"}

ReadersInv == ReadersKnown /\ AwaitedReadersEnd /\ SupervisorGivesUp

\* Readers go on, but never back.
ReadersGoOn ==
  \A g \in 1 .. generation :
    reader[g] # "none" => reader'[g] # "none" /\ (Ending(g) => Ended(g))

\* There is no reader in the initial state.
LEMMA ReadersInit == WsInit => ReadersInv
BY TaskNames
   DEF WsInit, ReadersInv, ReadersKnown, AwaitedReadersEnd, SupervisorGivesUp

\* A cancelled reader ends; the others stay as they are.
LEMMA CancelGoesOn ==
  ASSUME TasksInv, NEW gs, CancelReaders(gs)
  PROVE  /\ ReadersGoOn
         /\ \A g \in 1 .. generation : g \in gs /\ reader[g] # "none" => Ended(g)
<1>1. 1 .. generation \subseteq Generations
  BY WsConstants DEF TasksInv, ClientTypes, Generations
<1> QED BY <1>1 DEF CancelReaders, ReadersGoOn, Ending, Ended, TasksInv, ClientTypes

\* A send that raises lets the readers go on.
LEMMA RaisingGoesOn ==
  ASSUME TasksInv, NEW t, SendRaises(t)
  PROVE  ReadersGoOn
<1>1. CASE CancelReaders({gen[t]})
  BY <1>1, CancelGoesOn
<1>2. CASE UNCHANGED reader
  BY <1>2 DEF ReadersGoOn, Ending, Ended
<1> QED BY <1>1, <1>2 DEF SendRaises, Undo, AbandonUtterance

\* Every step does.
LEMMA ReadersStepOn ==
  ASSUME TasksInv, WsNext
  PROVE  ReadersGoOn
<1> USE DEF clientVars, lockVars, taskVars
<1>0. /\ 1 .. generation \subseteq Generations
      /\ generation \in Nat
      /\ reader = [g \in Generations |-> reader[g]]
  BY WsConstants DEF TasksInv, ClientTypes, Generations
<1>1. CASE UNCHANGED reader
  BY <1>1 DEF ReadersGoOn, Ending, Ended
<1>2. ASSUME NEW t \in Connectors, ConnectStep(t) PROVE ReadersGoOn
  <2>1. CASE UNCHANGED reader
    BY <1>1, <2>1
  <2>2. CASE CancelReaders({gen[t]})
    BY <2>2, CancelGoesOn
  <2>3. CASE reader' = [reader EXCEPT ![generation + 1] = "created"]
    <3>1. \A g \in 1 .. generation : reader'[g] = reader[g]
      BY <1>0, <2>3
    <3> QED BY <3>1 DEF ReadersGoOn, Ending, Ended
  <2> QED BY <1>2, <2>1, <2>2, <2>3
          DEF ConnectStep, EnsureWs, DialRefused, DialFails, DialSucceeds, Install, Confirm,
              Undo, ReaderJoined, Clear
<1>3. ASSUME NEW t, SendStep(t) PROVE ReadersGoOn
  BY <1>1, <1>3, RaisingGoesOn DEF SendStep, BeginSend, EndSend, BreakSend
<1>4. ASSUME NEW h \in Generations, ReaderStep(h) \/ RouteAnswered(h) PROVE ReadersGoOn
  <2>1. PICK s \in {"reading", "ackWait", "cleanup", "done"} :
          /\ reader' = [reader EXCEPT ![h] = s]
          /\ reader[h] # "done"
          /\ reader[h] = "cleanup" => s = "done"
    <3>1. CASE ReaderStarts(h)
      BY <3>1 DEF ReaderStarts
    <3>2. CASE HandleRouteAck(h)
      BY <3>2 DEF HandleRouteAck
    <3>3. CASE ReaderEnds(h)
      BY <3>3 DEF ReaderEnds
    <3>4. CASE Cleanup(h)
      BY <3>4 DEF Cleanup
    <3>5. CASE RouteAnswered(h)
      BY <3>5 DEF RouteAnswered, Reads
    <3> QED BY <1>4, <3>1, <3>2, <3>3, <3>4, <3>5 DEF ReaderStep
  <2>2. \A g \in 1 .. generation : reader'[g] = IF g = h THEN s ELSE reader[g]
    BY <1>0, <2>1
  <2> QED BY <2>1, <2>2 DEF ReadersGoOn, Ending, Ended
<1>5. CASE \/ \E g : Drop(g) \/ UtteranceAnswered(g) \/ TakeFrame(g)
           \/ Retired \/ SupervisorStep \/ CloseStep
  BY <1>1, <1>5
     DEF Drop, UtteranceAnswered, TakeFrame, Retired, SupervisorStep, LoopHead, WatchEnds,
         BackoffEnds, CloseStep, TasksStopped, CloseSocket, CloseEnd
<1>6. CASE Retire
  BY <1>1, <1>6, CancelGoesOn DEF Retire
<1>7. CASE StartBackground \/ \E s : SendJobFrame(s) \/ StreamUtterance(s) \/ RegisterSession(s)
  BY <1>1, <1>7 DEF StartBackground, SendJobFrame, StreamUtterance, RegisterSession
<1>8. ASSUME NEW t, Cancel(t) PROVE ReadersGoOn
  BY <1>1, <1>8, CancelGoesOn, RaisingGoesOn DEF Cancel, Undo
<1>9. CASE CloseBegin
  BY <1>9, CancelGoesOn DEF CloseBegin
<1> QED BY <1>2, <1>3, <1>4, <1>5, <1>6, <1>7, <1>8, <1>9
        DEF WsNext, CallStep, NetworkStep, TaskStep

\* What the current socket may become: it stays, or it is given up.
LEMMA KnownStays ==
  ASSUME ReadersKnown, ReadersGoOn, UNCHANGED generation,
         \/ UNCHANGED <<ws, wsReader>>
         \/ ws' = None /\ wsReader' \in {wsReader, None}
  PROVE  ReadersKnown'
BY DEF ReadersKnown, ReadersGoOn

\* Every step leaves each socket with its reader.
LEMMA KnownStep ==
  ASSUME TasksInv, ReadersKnown, WsNext
  PROVE  ReadersKnown'
<1> USE DEF clientVars, lockVars, taskVars
<1>0. ReadersGoOn
  BY ReadersStepOn
<1>1. CASE /\ UNCHANGED generation
           /\ \/ UNCHANGED <<ws, wsReader>>
              \/ ws' = None /\ wsReader' \in {wsReader, None}
  BY <1>0, <1>1, KnownStays
<1>2. ASSUME NEW t \in Connectors, Install(t), ~closed PROVE ReadersKnown'
  <2>1. at[t] = "installing" /\ t \in Tasks
    BY <1>2, TaskNames DEF Install
  <2>2. /\ generation \in Nat
        /\ generation + 1 \in Generations
        /\ 1 .. generation \subseteq Generations
    BY <2>1, WsConstants DEF TasksInv, ClientTypes, Generations
  <2>3. /\ ws' = generation + 1 /\ generation' = generation + 1 /\ wsReader' = generation + 1
        /\ reader' = [reader EXCEPT ![generation + 1] = "created"]
    BY <1>2 DEF Install
  <2>4. \A g \in 1 .. generation + 1 : reader'[g] # "none"
    <3>1. reader'[generation + 1] = "created"
      BY <2>2, <2>3 DEF TasksInv, ClientTypes
    <3>2. \A g \in 1 .. generation : reader'[g] = reader[g]
      BY <2>2, <2>3 DEF TasksInv, ClientTypes
    <3>3. \A g \in 1 .. generation + 1 : g = generation + 1 \/ g \in 1 .. generation
      BY <2>2
    <3> QED BY <3>1, <3>2, <3>3 DEF ReadersKnown
  <2>5. generation + 1 \in 1 .. generation + 1
    BY <2>2
  <2> QED BY <2>3, <2>4, <2>5 DEF ReadersKnown
<1>3. ASSUME NEW t \in Connectors, ConnectStep(t) PROVE ReadersKnown'
  BY <1>1, <1>2, <1>3
     DEF ConnectStep, EnsureWs, DialRefused, DialFails, DialSucceeds, Install, Confirm,
         ReaderJoined, Clear, Disconnect
<1>4. ASSUME NEW t, SendStep(t) PROVE ReadersKnown'
  BY <1>1, <1>4 DEF SendStep, BeginSend, EndSend, BreakSend
<1>5. ASSUME NEW g, ReaderStep(g) \/ RouteAnswered(g) \/ Drop(g) PROVE ReadersKnown'
  BY <1>1, <1>5
     DEF ReaderStep, ReaderStarts, HandleRouteAck, ReaderEnds, Cleanup, Disconnect,
         RouteAnswered, Drop
<1>6. CASE \/ \E u : UtteranceAnswered(u) \/ TakeFrame(u)
           \/ Retire \/ Retired \/ SupervisorStep \/ CloseStep
  BY <1>1, <1>6
     DEF UtteranceAnswered, TakeFrame, Retire, Disconnect, Retired, SupervisorStep, LoopHead,
         WatchEnds, BackoffEnds, CloseStep, TasksStopped, CloseSocket, CloseEnd
<1>7. CASE CallStep
  BY <1>1, <1>7
     DEF CallStep, StartBackground, SendJobFrame, StreamUtterance, RegisterSession, Cancel,
         CloseBegin
<1> QED BY <1>3, <1>4, <1>5, <1>6, <1>7 DEF WsNext, NetworkStep, TaskStep

\* A task that undoes its socket awaits a reader that it has cancelled.
LEMMA UndoEnds ==
  ASSUME TasksInv, ReadersKnown, NEW t \in Tasks, at[t] \notin Apart, Undo(t)
  PROVE  gen'[t] = gen[t] /\ Ended(gen'[t])
<1>1. gen[t] \in 1 .. generation
  BY DEF TasksInv, Placed
<1> QED BY <1>1, CancelGoesOn DEF Undo, ReadersKnown, Ended

\* A step of t that makes it await no reader but one that ends.
LEMMA ReadMoves ==
  ASSUME TasksInv, ReadersInv, WsNext, NEW t \in Tasks, Moved(t), UNCHANGED closed,
         generation' \in {generation, generation + 1},
         at'[t] \in {"undoing", "retired"} => Ended(gen'[t]),
         closed => UNCHANGED awaited,
         closed /\ t = Supervisor => at'[t] \in {"done", "undoing", "clearing"}
  PROVE  ReadersInv'
<1>0. /\ Connectors \subseteq Tasks /\ Supervisor \in Tasks /\ Closer \in Tasks
      /\ generation \in Nat
  BY TaskNames, WsConstants DEF TasksInv, ClientTypes
<1>1. ReadersGoOn /\ ReadersKnown'
  BY ReadersStepOn, KnownStep DEF ReadersInv
<1>2. \A g \in 1 .. generation : Ending(g) => Ended(g)
  BY <1>1 DEF ReadersGoOn, ReadersInv, ReadersKnown
<1>3. ASSUME NEW x \in Connectors, at'[x] \in {"undoing", "retired"} PROVE Ended(gen'[x])
  <2>1. CASE x # t
    <3>1. x \in Tasks
      BY <1>0
    <3>2. at'[x] = at[x] /\ gen'[x] = gen[x]
      BY <1>3, <2>1, <3>1, OthersStay
    <3>3. gen[x] \in 1 .. generation
      BY <1>3, <3>1, <3>2 DEF TasksInv, Placed, Apart
    <3>4. Ending(gen[x])
      BY <1>3, <3>2 DEF ReadersInv, AwaitedReadersEnd
    <3> QED BY <1>2, <3>2, <3>3, <3>4
  <2> QED BY <1>3, <2>1
<1>4. ASSUME at'[Closer] = "stopping", awaited'.reader # None
      PROVE  awaited'.reader \in 1 .. generation' /\ Ended(awaited'.reader)
  <2>1. at[Closer] = "stopping" /\ closed
    BY <1>4 DEF Moved, TasksInv
  <2>2. awaited.reader \in 1 .. generation /\ Ending(awaited.reader)
    BY <1>4, <2>1 DEF ReadersInv, AwaitedReadersEnd
  <2>3. awaited.reader \in 1 .. generation'
    BY <1>0, <2>2
  <2> QED BY <1>2, <2>1, <2>2, <2>3
<1>5. SupervisorGivesUp'
  <2>1. CASE t # Supervisor
    BY <1>0, <2>1, OthersStay DEF ReadersInv, SupervisorGivesUp
  <2> QED BY <2>1 DEF SupervisorGivesUp
<1> QED BY <1>1, <1>3, <1>4, <1>5 DEF ReadersInv, AwaitedReadersEnd, Ending, Ended

\* Whoever gives up a socket in _ensure_ws has cancelled its reader.
LEMMA ConnectReads ==
  ASSUME TasksInv, ReadersInv, NEW t \in Connectors, ConnectStep(t)
  PROVE  ReadersInv'
<1> USE DEF clientVars
<1>0. t \in Tasks /\ generation \in Nat /\ WsNext
  BY TaskNames, WsConstants DEF TasksInv, ClientTypes, WsNext, TaskStep
<1>1. /\ Moved(t)
      /\ UNCHANGED <<closed, awaited>>
      /\ generation' \in {generation, generation + 1}
  BY ConnectMoves, InstallMoves
     DEF ConnectStep, EnsureWs, DialRefused, DialFails, DialSucceeds, Install, Confirm,
         ReaderJoined, Clear
<1>2. ASSUME at'[t] \in {"undoing", "retired"} PROVE Ended(gen'[t])
  <2>1. Confirm(t) /\ ~StillCurrent(t)
    BY <1>2, ConnectMoves, InstallMoves DEF ConnectStep, Freed
  <2>2. at[t] \notin Apart /\ Undo(t)
    BY <2>1 DEF Confirm, Apart
  <2> QED BY <1>0, <2>2, UndoEnds DEF ReadersInv
<1>3. ASSUME closed, t = Supervisor PROVE at'[t] \in {"done", "undoing", "clearing"}
  <2>1. at[t] \in {"idle", "done", "undoing", "clearing"}
    BY <1>3 DEF ReadersInv, SupervisorGivesUp
  <2>2. ReaderJoined(t) \/ Clear(t)
    BY <2>1
       DEF ConnectStep, EnsureWs, TakeConnectLock, DialRefused, DialFails, DialSucceeds,
           Install, Confirm
  <2>3. CASE ReaderJoined(t)
    BY <2>3, ConnectMoves
  <2>4. CASE Clear(t)
    <3>1. End(t, "done")
      BY <1>3, <2>4, TaskNames DEF Clear, Raised
    <3> QED BY <1>0, <3>1 DEF End, Go, TasksInv, TaskTypes
  <2> QED BY <2>2, <2>3, <2>4
<1> QED BY <1>0, <1>1, <1>2, <1>3, ReadMoves

\* So has a task whose registration fails or is cancelled, and start_background.
LEMMA SendReads ==
  ASSUME TasksInv, ReadersInv
  PROVE  /\ \A t \in Connectors \cup Sessions : SendStep(t) => ReadersInv'
         /\ \A t \in Cancellable : Cancel(t) => ReadersInv'
         /\ Retire => ReadersInv'
<1> USE DEF clientVars
<1>0. /\ Connectors \cup Sessions \subseteq Tasks /\ Cancellable \subseteq Tasks \ {Supervisor}
      /\ Setup \in Tasks /\ Setup # Supervisor
  BY TaskNames DEF Cancellable
<1>1. ASSUME NEW t \in Connectors \cup Sessions, SendStep(t) PROVE ReadersInv'
  <2>1. at[t] \in {"sendWait", "sending"} /\ UNCHANGED <<closed, generation, awaited>> /\ WsNext
    BY <1>1 DEF SendStep, BeginSend, EndSend, BreakSend, WsNext, TaskStep
  <2>2. Moved(t)
    BY <1>1, FrameMoves DEF SendStep
  <2>3. ASSUME at'[t] \in {"undoing", "retired"} PROVE Ended(gen'[t])
    <3>1. frame[t] = "route" /\ ((BeginSend(t) /\ ~MaySend(t)) \/ BreakSend(t))
      BY <1>1, <2>3, FrameMoves DEF SendStep, Freed, FreedOrRetiring
    <3>2. SendRaises(t)
      BY <3>1 DEF BeginSend, BreakSend
    <3>3. Undo(t)
      BY <3>1, <3>2 DEF SendRaises
    <3> QED BY <1>0, <2>1, <3>3, UndoEnds DEF ReadersInv, Apart
  <2>4. closed => t # Supervisor
    BY <2>1 DEF ReadersInv, SupervisorGivesUp
  <2> QED BY <1>0, <2>1, <2>2, <2>3, <2>4, ReadMoves
<1>2. ASSUME NEW t \in Cancellable, Cancel(t) PROVE ReadersInv'
  <2>1. UNCHANGED <<closed, generation, awaited>> /\ WsNext
    BY <1>2 DEF Cancel, WsNext, CallStep
  <2>2. Moved(t)
    BY <1>2, CancelMoves
  <2>3. ASSUME at'[t] \in {"undoing", "retired"} PROVE Ended(gen'[t])
    <3>1. Registering(t) /\ Undo(t)
      BY <1>2, <2>3, CancelMoves DEF Freed
    <3>2. at[t] \notin Apart
      BY <1>0, <3>1, WsConstants DEF Registering, TasksInv, Placed, Apart, Frames
    <3> QED BY <1>0, <3>1, <3>2, UndoEnds DEF ReadersInv
  <2> QED BY <1>0, <2>1, <2>2, <2>3, ReadMoves
<1>3. ASSUME Retire PROVE ReadersInv'
  <2>1. /\ at[Setup] = "retiring" /\ UNCHANGED <<closed, generation, awaited>> /\ WsNext
        /\ Moved(Setup)
    BY <1>3, OtherMoves DEF Retire, WsNext, TaskStep
  <2>2. ASSUME at'[Setup] \in {"undoing", "retired"} PROVE Ended(gen'[Setup])
    <3>1. /\ ws = gen[Setup] /\ CancelReaders({wsReader} \ {None})
          /\ gen'[Setup] = gen[Setup]
      <4>1. CASE ws # gen[Setup]
        <5>1. EndSetup
          BY <1>3, <4>1 DEF Retire
        <5> QED BY <2>1, <2>2, <5>1, EndSetupMoved
      <4> QED BY <1>3, <4>1 DEF Retire
    <3>2. gen[Setup] \in 1 .. generation /\ gen[Setup] # None
      BY <1>0, <2>1, WsConstants DEF TasksInv, Placed, Apart, ClientTypes
    <3>3. wsReader = gen[Setup]
      BY <3>1, <3>2 DEF ReadersInv, ReadersKnown
    <3> QED BY <3>1, <3>2, <3>3, CancelGoesOn DEF ReadersInv, ReadersKnown
  <2> QED BY <1>0, <2>1, <2>2, ReadMoves
<1> QED BY <1>1, <1>2, <1>3

\* close() cancels what it awaits.
LEMMA CloseReads ==
  ASSUME TasksInv, ReadersInv, CloseBegin \/ CloseStep
  PROVE  ReadersInv'
<1>0. /\ Connectors \subseteq Tasks /\ Supervisor \in Connectors /\ Closer \in Tasks
      /\ Closer \notin Connectors /\ WsNext
  BY TaskNames DEF WsNext, CallStep, TaskStep
<1>1. ReadersGoOn /\ ReadersKnown'
  BY <1>0, ReadersStepOn, KnownStep DEF ReadersInv
<1>2. \A g \in 1 .. generation : Ending(g) => Ended(g)
  BY <1>1 DEF ReadersGoOn, ReadersInv, ReadersKnown
<1>3. ASSUME NEW x \in Connectors, at'[x] \in {"undoing", "retired"},
             at'[x] = at[x], gen'[x] = gen[x]
      PROVE  Ended(gen'[x])
  <2>1. gen[x] \in 1 .. generation
    BY <1>0, <1>3 DEF TasksInv, Placed, Apart
  <2> QED BY <1>2, <1>3, <2>1 DEF ReadersInv, AwaitedReadersEnd
<1>4. CASE CloseStep
  <2>1. /\ at'[Closer] \in {"locking", "shutting", "done"}
        /\ \A x \in Tasks \ {Closer} : at'[x] = at[x] /\ gen'[x] = gen[x]
        /\ UNCHANGED closed
    BY <1>0, <1>4
       DEF CloseStep, TasksStopped, CloseSocket, CloseEnd, Go, TasksInv, TaskTypes, clientVars
  <2>2. AwaitedReadersEnd' /\ SupervisorGivesUp'
    BY <1>0, <1>3, <2>1
       DEF ReadersInv, AwaitedReadersEnd, SupervisorGivesUp, Ending, Ended
  <2> QED BY <1>1, <2>2 DEF ReadersInv
<1>5. CASE CloseBegin
  <2>1. /\ at'[Closer] = "stopping"
        /\ at'[Supervisor] \in {"idle", "done", "undoing"}
        /\ at'[Supervisor] = "undoing" => Registering(Supervisor) /\ gen'[Supervisor] = gen[Supervisor]
        /\ \A x \in Tasks \ {Closer, Supervisor} : at'[x] = at[x] /\ gen'[x] = gen[x]
    BY <1>0, <1>5 DEF CloseBegin, TasksInv, TaskTypes
  <2>2. PICK gs : /\ CancelReaders(gs)
                  /\ wsReader # None => wsReader \in gs
                  /\ at[Supervisor] \notin {"idle", "done"} /\ gen[Supervisor] # None =>
                       gen[Supervisor] \in gs
    BY <1>5 DEF CloseBegin
  <2>3. ASSUME Registering(Supervisor) PROVE Ended(gen[Supervisor])
    <3>1. at[Supervisor] \notin Apart
      BY <1>0, <2>3, WsConstants DEF Registering, TasksInv, Placed, Apart, Frames
    <3>2. gen[Supervisor] \in 1 .. generation /\ gen[Supervisor] # None
      BY <1>0, <3>1, WsConstants DEF TasksInv, Placed, ClientTypes
    <3> QED BY <2>2, <3>1, <3>2, CancelGoesOn DEF Apart, ReadersInv, ReadersKnown
  <2>4. wsReader # None => Ended(wsReader)
    BY <2>2, CancelGoesOn DEF ReadersInv, ReadersKnown
  <2>5. UNCHANGED <<generation, wsReader>> /\ awaited'.reader = wsReader
    BY <1>5 DEF CloseBegin
  <2>6. \A x \in Connectors : at'[x] \in {"undoing", "retired"} => Ended(gen'[x])
    <3>1. ASSUME NEW x \in Connectors \ {Supervisor}, at'[x] \in {"undoing", "retired"}
          PROVE  Ended(gen'[x])
      <4>1. x \in Tasks \ {Closer, Supervisor}
        BY <1>0
      <4> QED BY <1>3, <2>1, <3>1, <4>1
    <3>2. at'[Supervisor] \in {"undoing", "retired"} => Ended(gen'[Supervisor])
      BY <2>1, <2>3
    <3> QED BY <3>1, <3>2
  <2>7. wsReader # None => wsReader \in 1 .. generation
    BY DEF ReadersInv, ReadersKnown
  <2>8. AwaitedReadersEnd'
    BY <2>4, <2>5, <2>6, <2>7 DEF AwaitedReadersEnd, Ending, Ended
  <2>9. SupervisorGivesUp'
    BY <2>1 DEF SupervisorGivesUp
  <2> QED BY <1>1, <2>8, <2>9 DEF ReadersInv
<1> QED BY <1>4, <1>5

\* Every step keeps the readers as they are awaited.
LEMMA ReadersStep ==
  ASSUME TasksInv, ReadersInv, [WsNext]_vars
  PROVE  ReadersInv'
<1> USE DEF clientVars, lockVars, taskVars
<1>0. /\ Connectors \subseteq Tasks /\ Sessions \subseteq Tasks
      /\ Setup \in Tasks /\ Supervisor \in Tasks /\ Setup # Supervisor
      /\ Senders \subseteq Tasks \ {Supervisor} /\ Utterances \subseteq Tasks \ {Supervisor}
      /\ Sessions \subseteq Tasks \ {Supervisor} /\ Setup \in Connectors
  BY TaskNames
<1>1. ASSUME WsNext, NEW t \in Tasks, Moved(t), UNCHANGED <<closed, generation>>,
             at'[t] \in {"idle", "done", "lockWait", "loop", "watching", "sleeping", "sendWait"},
             closed => UNCHANGED awaited /\ t # Supervisor
      PROVE  ReadersInv'
  BY <1>1, ReadMoves
<1>2. CASE StartBackground
  <2>1. WsNext
    BY <1>2 DEF WsNext, CallStep
  <2> QED BY <1>0, <1>1, <1>2, <2>1, CallMoves DEF StartBackground
<1>3. ASSUME NEW s \in Senders, SendJobFrame(s) PROVE ReadersInv'
  <2>1. WsNext
    BY <1>3 DEF WsNext, CallStep
  <2> QED BY <1>0, <1>1, <1>3, <2>1, CallMoves DEF SendJobFrame
<1>4. ASSUME NEW u \in Utterances, StreamUtterance(u) PROVE ReadersInv'
  <2>1. WsNext
    BY <1>4 DEF WsNext, CallStep
  <2> QED BY <1>0, <1>1, <1>4, <2>1, CallMoves DEF StreamUtterance
<1>5. ASSUME NEW s \in Sessions, RegisterSession(s) PROVE ReadersInv'
  <2>1. WsNext
    BY <1>5 DEF WsNext, CallStep
  <2> QED BY <1>0, <1>1, <1>5, <2>1, CallMoves DEF RegisterSession
<1>6. CASE Retired
  <2>1. WsNext
    BY <1>6 DEF WsNext, TaskStep
  <2> QED BY <1>0, <1>1, <1>6, <2>1, OtherMoves DEF Retired
<1>7. CASE SupervisorStep
  <2>1. UNCHANGED <<closed, generation>> /\ at[Supervisor] \in {"loop", "watching", "sleeping"}
    BY <1>7 DEF SupervisorStep, LoopHead, WatchEnds, BackoffEnds
  <2>2. ~closed /\ WsNext
    BY <1>7, <2>1 DEF ReadersInv, SupervisorGivesUp, WsNext, TaskStep
  <2> QED BY <1>0, <1>1, <1>7, <2>1, <2>2, OtherMoves
<1>8. ASSUME NEW u \in Utterances, TakeFrame(u) PROVE ReadersInv'
  <2>1. UNCHANGED <<closed, generation, awaited>> /\ WsNext /\ u \in Tasks \ {Supervisor}
    BY <1>0, <1>8 DEF TakeFrame, WsNext, TaskStep
  <2>2. Moved(u) /\ Freed(u)
    BY <1>8, OtherMoves
  <2> QED BY <1>1, <2>1, <2>2 DEF Freed
<1>9. CASE \/ \E g \in Generations : ReaderStep(g) \/ RouteAnswered(g) \/ Drop(g)
           \/ \E u \in Utterances : UtteranceAnswered(u)
  <2>1. UNCHANGED <<at, gen, frame, closed, generation, awaited>>
    BY <1>9
       DEF ReaderStep, ReaderStarts, HandleRouteAck, ReaderEnds, Cleanup, RouteAnswered, Drop,
           UtteranceAnswered
  <2>2. WsNext
    BY <1>9 DEF WsNext, NetworkStep, TaskStep
  <2>3. Moved(Setup)
    BY <1>0, <2>1 DEF Moved, TasksInv, TaskTypes, Placed
  <2>4. at[Setup] \in {"undoing", "retired"} => Ended(gen[Setup])
    <3>1. at[Setup] \in {"undoing", "retired"} =>
            gen[Setup] \in 1 .. generation /\ Ending(gen[Setup])
      BY <1>0 DEF TasksInv, Placed, Apart, ReadersInv, AwaitedReadersEnd
    <3> QED BY <2>2, <3>1, ReadersStepOn DEF ReadersGoOn, ReadersInv, ReadersKnown
  <2> QED BY <1>0, <2>1, <2>2, <2>3, <2>4, ReadMoves
<1>10. CASE UNCHANGED vars
  BY <1>10
     DEF vars, ReadersInv, ReadersKnown, AwaitedReadersEnd, SupervisorGivesUp, Ending
<1> QED BY <1>2, <1>3, <1>4, <1>5, <1>6, <1>7, <1>8, <1>9, <1>10, ConnectReads, SendReads,
           CloseReads
        DEF WsNext, CallStep, NetworkStep, TaskStep

\* Nobody waits for what waits for him.  A writer waits for the network alone, and
\* there is one.  A reader that somebody awaits is in its finally block, and waits for
\* a writer at most.  The holder of _ws_lock waits for the network, a writer or such
\* a reader, and close() for those and for a supervisor that gives up.
NoWaitIsCircular ==
  /\ \A t, u \in Tasks : Writing(t) /\ Writing(u) => t = u
  /\ writer # None => Writing(writer)
  /\ \A t \in Connectors : at[t] \in {"undoing", "retired"} => Ending(gen[t])
  /\ connector # None => Inside(connector)
  /\ at[Closer] = "stopping" =>
       /\ at[Supervisor] \in {"idle", "done", "undoing", "clearing"}
       /\ awaited.reader # None => Ending(awaited.reader)

\* The two locks, the readers and close() never wait in a circle, and neither lock is
\* left behind by a task that failed, was cancelled or ended; no two frames are
\* written at once.  For any tasks and number of sockets.
THEOREM ClientNeverDeadlocks == WsSafety => []NoWaitIsCircular
<1>1. ConnectInv /\ [WsNext]_vars => ConnectInv'
  BY StepIsSafe DEF ConnectKept
<1>2. TasksInv /\ ConnectInv /\ [WsNext]_vars => TasksInv'
  BY TasksStep
<1>3. TasksInv /\ ConnectInv /\ LocksInv /\ [WsNext]_vars => LocksInv'
  BY LocksStep
<1>4. TasksInv /\ ReadersInv /\ [WsNext]_vars => ReadersInv'
  BY ReadersStep
<1>5. TasksInv /\ LocksInv /\ ReadersInv => NoWaitIsCircular
  <2> SUFFICES ASSUME TasksInv, LocksInv, ReadersInv PROVE NoWaitIsCircular
    OBVIOUS
  <2>1. writer # None => writer \in Tasks
    BY DEF TasksInv, ClientTypes
  <2>2. at[Closer] = "stopping" => closed
    BY DEF TasksInv
  <2> QED BY <2>1, <2>2
          DEF LocksInv, ReadersInv, AwaitedReadersEnd, SupervisorGivesUp, NoWaitIsCircular
<1> QED BY <1>1, <1>2, <1>3, <1>4, <1>5, ConnectInit, TasksInit, LocksInit, ReadersInit, PTL
        DEF WsSafety

-----------------------------------------------------------------------------
(* The client implements Connection.                                       *)

LinkStep == [Link!ConnectionNext]_(Link!connectionVars)

\* A task that connects does so because there is no socket to hand out.
DialInv ==
  \A t \in Connectors : at[t] \in {"dialing", "installing"} => ~HasSocket

\* What is written by a task stays while other tasks move.
LEMMA WrittenStays ==
  ASSUME TasksInv, LocksInv, NEW t \in Tasks, Moved(t), UNCHANGED writer, ~Writing(t)
  PROVE  Written' = Written
<1>1. CASE writer \in Tasks \ {Closer}
  <2>1. writer # t
    BY DEF LocksInv
  <2>2. gen'[writer] = gen[writer] /\ frame'[writer] = frame[writer]
    BY <1>1, <2>1, OthersStay
  <2> QED BY <1>1, <2>2 DEF Written
<1>2. CASE writer \notin Tasks \ {Closer}
  BY <1>2 DEF Written
<1> QED BY <1>1, <1>2

\* Nothing is written while nobody has the write lock, or close() has it.
LEMMA NothingWritten ==
  /\ writer \in {None, Closer} => Written = Nothing
  /\ writer' \in {None, Closer} => Written' = Nothing
BY TaskNames DEF Written

\* A step that ends a write at most, or notices at most that the socket is lost.
LEMMA LinkKept ==
  ASSUME UNCHANGED <<generation, ws, state, closed>>, Terms' = Terms,
         \/ Written' \in {Written, Nothing} /\ HasSocket' = HasSocket
         \/ Written' = Written /\ (HasSocket' => HasSocket)
  PROVE  LinkStep
<1>1. HasSocket \in BOOLEAN /\ HasSocket' \in BOOLEAN
  BY DEF HasSocket
<1>2. CASE Written' = Written /\ HasSocket' = HasSocket
  BY <1>2 DEF LinkStep, Link!connectionVars, Link!linkVars
<1>3. CASE Written # Nothing /\ Written' = Nothing /\ HasSocket' = HasSocket
  <2>1. Link!EndWrite
    BY <1>3 DEF Link!EndWrite, Link!linkVars, Link!Nothing, Nothing
  <2> QED BY <2>1 DEF LinkStep, Link!ConnectionNext
<1>4. CASE Written' = Written /\ HasSocket /\ ~HasSocket'
  <2>1. Link!Lose
    BY <1>1, <1>4 DEF Link!Lose
  <2> QED BY <2>1 DEF LinkStep, Link!ConnectionNext
<1> QED BY <1>1, <1>2, <1>3, <1>4

\* A step that gives up the current socket between two frames.
LEMMA LinkGivenUp ==
  ASSUME ws # None, Disconnect, Written = Nothing, Written' = Nothing,
         UNCHANGED <<generation, closed>>
  PROVE  LinkStep
<1>1. HasSocket' = FALSE /\ Terms' = "none"
  BY DEF HasSocket, Terms, Disconnect
<1>2. state' = IF closed \/ state = "auth_failed" THEN state ELSE "disconnected"
  BY DEF Disconnect, Notify
<1>3. Link!GiveUp
  BY <1>1, <1>2 DEF Link!GiveUp, Disconnect, Link!Nothing, Nothing
<1> QED BY <1>3 DEF LinkStep, Link!ConnectionNext

\* A step of a task that neither writes nor changes anything of the link.
LEMMA LinkUntouched ==
  ASSUME TasksInv, LocksInv, NEW t \in Tasks, Moved(t), ~Writing(t),
         UNCHANGED <<generation, ws, state, closed, routeAck, accepted, writer, socket>>
  PROVE  LinkStep
<1>1. Written' = Written
  BY WrittenStays
<1>2. Terms' = Terms /\ HasSocket' = HasSocket
  BY DEF Terms, HasSocket, Open
<1> QED BY <1>1, <1>2, LinkKept

\* A step that closes a socket.
LEMMA SocketCloses ==
  ASSUME TasksInv, NEW g, UNCHANGED ws,
         socket' = [socket EXCEPT ![g] = "closed"]
  PROVE  HasSocket' => HasSocket
<1>1. ws # None => ws \in Generations
  BY KnownGenerations
<1>2. ws # None => socket'[ws] \in {socket[ws], "closed"}
  BY <1>1 DEF TasksInv, ClientTypes
<1> QED BY <1>2 DEF HasSocket, Open

\* A secret is not rejected, and no socket made, but by the holder of _ws_lock.
LEMMA DialersMayConnect ==
  ASSUME ConnectInv, DialInv, NEW t \in Connectors, at[t] \in {"dialing", "installing"},
         ~closed
  PROVE  Link!MayConnect
<1>1. connector = t /\ t # None
  BY TaskNames DEF ConnectInv, Connecting, Making
<1> QED BY <1>1 DEF ConnectInv, DialInv, Link!MayConnect

\* The new socket becomes the current one.
LEMMA InstallLinks ==
  ASSUME TasksInv, ConnectInv, DialInv, NEW t \in Connectors, Install(t), ~closed
  PROVE  LinkStep
<1>1. at[t] = "installing" /\ writer = None /\ writer' = None
  BY DEF Install
<1>2. generation' = generation + 1 /\ ws' = generation + 1 /\ UNCHANGED <<state, closed>>
  BY DEF Install
<1>3. generation + 1 \in Generations
  BY <1>1, TaskNames, WsConstants DEF TasksInv, ClientTypes, Generations
<1>4. HasSocket' = TRUE
  <2>1. socket' = [socket EXCEPT ![generation + 1] = "open"]
    BY DEF Install
  <2>2. socket'[ws'] = "open" /\ ws' # None
    BY <1>2, <1>3, <2>1, WsConstants DEF TasksInv, ClientTypes, Generations
  <2> QED BY <2>2 DEF HasSocket, Open
<1>5. Terms' = "none"
  BY DEF Install, ForgetNegotiation, Terms
<1>6. Written = Nothing /\ Written' = Nothing
  BY <1>1, NothingWritten
<1>7. Link!MayConnect
  BY <1>1, DialersMayConnect
<1>8. Link!Connect
  BY <1>2, <1>4, <1>5, <1>6, <1>7 DEF Link!Connect, Link!Nothing, Nothing
<1> QED BY <1>8 DEF LinkStep, Link!ConnectionNext

\* _ensure_ws makes a connection where there is none, shows one that is there, and
\* gives up only what it made itself.
LEMMA ConnectLinks ==
  ASSUME TasksInv, ConnectInv, LocksInv, DialInv, NEW t \in Connectors, ConnectStep(t)
  PROVE  LinkStep
<1> USE DEF clientVars, lockVars
<1>0. t \in Tasks
  BY TaskNames
<1>1. CASE EnsureWs(t) \/ DialFails(t) \/ DialSucceeds(t)
  <2>1. Moved(t)
    BY <1>1, ConnectMoves
  <2>2. ~Writing(t)
    BY <1>1 DEF EnsureWs, TakeConnectLock, DialFails, DialSucceeds, Writing
  <2>3. UNCHANGED <<generation, ws, state, closed, routeAck, accepted, writer, socket>>
    BY <1>1 DEF EnsureWs, DialFails, DialSucceeds
  <2> QED BY <1>0, <2>1, <2>2, <2>3, LinkUntouched
<1>2. CASE DialRefused(t)
  <2>1. Moved(t) /\ at[t] = "dialing"
    BY <1>2, ConnectMoves DEF DialRefused
  <2>2. ~Writing(t)
    BY <2>1 DEF Writing
  <2>3. UNCHANGED <<generation, ws, closed, routeAck, accepted, writer, socket>>
    BY <1>2 DEF DialRefused
  <2>4. CASE closed
    BY <1>0, <1>2, <2>1, <2>2, <2>3, <2>4, LinkUntouched DEF DialRefused, Notify
  <2>5. CASE ~closed
    <3>1. state' = "auth_failed"
      BY <1>2, <2>5 DEF DialRefused, Notify
    <3>2. Written' = Written /\ Terms' = Terms /\ HasSocket' = HasSocket
      BY <1>0, <2>1, <2>2, <2>3, WrittenStays DEF Terms, HasSocket, Open
    <3>3. Link!Reject
      BY <2>1, <2>3, <2>5, <3>1, <3>2, DialersMayConnect DEF Link!Reject, Link!linkVars
    <3> QED BY <3>3 DEF LinkStep, Link!ConnectionNext
  <2> QED BY <2>4, <2>5
<1>3. CASE Install(t)
  <2>1. CASE closed
    <3>1. Moved(t) /\ ~Writing(t)
      BY <1>3, InstallMoves DEF Install, Writing
    <3> QED BY <1>0, <1>3, <2>1, <3>1, LinkUntouched DEF Install
  <2> QED BY <1>3, <2>1, InstallLinks
<1>4. CASE Confirm(t)
  <2>1. Moved(t) /\ at[t] = "confirming" /\ writer = None /\ writer' = None
    BY <1>4, ConnectMoves DEF Confirm
  <2>2. UNCHANGED <<generation, ws, closed, routeAck, accepted, writer, socket>>
    BY <1>4 DEF Confirm
  <2>3. CASE ~StillCurrent(t)
    <3>1. ~Writing(t) /\ UNCHANGED state
      BY <1>4, <2>1, <2>3 DEF Confirm, Writing
    <3> QED BY <1>0, <2>1, <2>2, <3>1, LinkUntouched
  <2>4. CASE StillCurrent(t)
    <3>1. gen[t] # None
      BY <1>0, <2>1, KnownGenerations, WsConstants DEF Apart, Generations
    <3>2. HasSocket /\ ~closed
      BY <2>4, <3>1 DEF StillCurrent, Usable, HasSocket
    <3>3. state' = "connected"
      BY <1>4, <2>4, <3>2 DEF Confirm, Notify
    <3>4. state # "auth_failed"
      <4>1. connector = t /\ t # None
        BY <1>0, <2>1, TaskNames DEF ConnectInv, Connecting, Making
      <4> QED BY <4>1 DEF ConnectInv
    <3>5. Written' = Written /\ Terms' = Terms /\ HasSocket' = HasSocket
      BY <2>1, <2>2, NothingWritten DEF Terms, HasSocket, Open
    <3>6. Link!Show
      BY <2>2, <3>2, <3>3, <3>4, <3>5 DEF Link!Show, Link!linkVars
    <3> QED BY <3>6 DEF LinkStep, Link!ConnectionNext
  <2> QED BY <2>3, <2>4
<1>5. CASE ReaderJoined(t)
  <2>1. Moved(t) /\ ~Writing(t)
    BY <1>5, ConnectMoves DEF ReaderJoined, Writing
  <2>2. UNCHANGED <<generation, ws, state, closed, routeAck, accepted, writer>>
    BY <1>5 DEF ReaderJoined
  <2>3. HasSocket' => HasSocket
    BY <1>5, <2>2, SocketCloses DEF ReaderJoined
  <2>4. Written' = Written /\ Terms' = Terms
    BY <1>0, <2>1, <2>2, WrittenStays DEF Terms
  <2> QED BY <2>2, <2>3, <2>4, LinkKept
<1>6. CASE Clear(t)
  <2>1. at[t] = "clearing" /\ writer = None /\ writer' = None /\ Moved(t)
    BY <1>6, ConnectMoves DEF Clear
  <2>2. CASE ws = gen[t]
    <3>1. ws # None
      BY <1>0, <2>1, <2>2, KnownGenerations, WsConstants DEF Apart, Generations
    <3> QED BY <1>6, <2>1, <2>2, <3>1, NothingWritten, LinkGivenUp DEF Clear
  <2>3. CASE ws # gen[t]
    <3>1. ~Writing(t)
      BY <2>1 DEF Writing
    <3> QED BY <1>0, <1>6, <2>1, <2>3, <3>1, LinkUntouched DEF Clear
  <2> QED BY <2>2, <2>3
<1> QED BY <1>1, <1>2, <1>3, <1>4, <1>5, <1>6 DEF ConnectStep

\* A frame goes to the current socket, and a job only where Casa has agreed.
LEMMA FrameIsWritten ==
  ASSUME TasksInv, NEW t \in Connectors \cup Sessions, BeginSend(t), MaySend(t)
  PROVE  LinkStep
<1> DEFINE job == frame[t] = "job"
<1>0. t \in Tasks \ {Closer} /\ t # None
  BY TaskNames
<1>1. at[t] = "sendWait" /\ writer = None /\ UNCHANGED <<clientVars, socket>>
  BY DEF BeginSend
<1>2. writer' = t /\ gen'[t] = gen[t] /\ frame'[t] = frame[t]
  <2>1. ~(~MaySend(t) /\ SendRaises(t))
    OBVIOUS
  <2>2. writer' = t
    BY <2>1 DEF BeginSend
  <2> QED BY <2>1, <2>2 DEF BeginSend
<1>3. gen[t] \in Generations
  BY <1>0, <1>1, KnownGenerations DEF Apart
<1>4. ~closed /\ ws = gen[t] /\ HasSocket
  BY <1>3, WsConstants DEF MaySend, Usable, HasSocket, Generations
<1>5. Written = Nothing /\ Written' = [connection |-> ws, job |-> job]
  BY <1>0, <1>1, <1>2, <1>4, NothingWritten DEF Written
<1>6. job => Terms = "accepted"
  BY DEF MaySend, Background, Terms
<1>7. Terms' = Terms /\ HasSocket' = HasSocket /\ UNCHANGED <<generation, ws, state, closed>>
  BY <1>1 DEF clientVars, Terms, HasSocket, Open
<1>8. Link!BeginWrite(job)
  BY <1>4, <1>5, <1>6, <1>7 DEF Link!BeginWrite, Link!linkVars, Link!Nothing, Nothing
<1>9. job \in BOOLEAN
  OBVIOUS
<1> QED BY <1>8, <1>9 DEF LinkStep, Link!ConnectionNext

\* A send begins a write or is refused, and ends the write it began.
LEMMA SendLinks ==
  ASSUME TasksInv, LocksInv, NEW t \in Connectors \cup Sessions, SendStep(t)
  PROVE  LinkStep
<1> USE DEF clientVars
<1>0. t \in Tasks
  BY TaskNames
<1>1. CASE BeginSend(t)
  <2>1. CASE ~MaySend(t)
    <3>1. Moved(t) /\ ~Writing(t) /\ UNCHANGED writer
      BY <1>1, <2>1, FrameMoves DEF BeginSend, Writing
    <3> QED BY <1>0, <1>1, <3>1, LinkUntouched DEF BeginSend
  <2> QED BY <1>1, <2>1, FrameIsWritten
<1>2. ASSUME at[t] = "sending", Unlock(t) PROVE Written' = Nothing
  <2>1. writer = t
    BY <1>0, <1>2 DEF LocksInv, Writing
  <2>2. writer' = None
    BY <1>2, <2>1 DEF Unlock
  <2> QED BY <2>2, NothingWritten
<1>3. CASE EndSend(t)
  <2>1. Written' = Nothing
    BY <1>2, <1>3 DEF EndSend
  <2>2. /\ UNCHANGED <<generation, ws, state, closed>>
        /\ Terms' = Terms /\ HasSocket' = HasSocket
    BY <1>3 DEF EndSend, Terms, HasSocket, Open
  <2> QED BY <2>1, <2>2, LinkKept
<1>4. CASE BreakSend(t)
  <2>1. Written' = Nothing
    BY <1>2, <1>4 DEF BreakSend
  <2>2. UNCHANGED <<generation, ws, state, closed>> /\ Terms' = Terms
    BY <1>4 DEF BreakSend, Terms
  <2>3. HasSocket' = HasSocket
    <3>1. socket' = [socket EXCEPT ![gen[t]] = IF @ = "open" THEN "broken" ELSE @]
      BY <1>4 DEF BreakSend
    <3>2. ws # None => (Open(ws)' <=> Open(ws))
      BY <2>2, <3>1, KnownGenerations DEF Open, TasksInv, ClientTypes
    <3> QED BY <2>2, <3>2 DEF HasSocket, Open
  <2> QED BY <2>1, <2>2, <2>3, LinkKept
<1> QED BY <1>1, <1>3, <1>4 DEF SendStep

\* A reader records what Casa says on the current socket, and gives that socket up.
LEMMA ReaderLinks ==
  ASSUME TasksInv, NEW g \in Generations, ReaderStep(g) \/ RouteAnswered(g) \/ Drop(g)
  PROVE  LinkStep
<1> USE DEF clientVars, lockVars, taskVars
<1>1. UNCHANGED taskVars /\ UNCHANGED lockVars
  BY DEF ReaderStep, ReaderStarts, HandleRouteAck, ReaderEnds, Cleanup, RouteAnswered, Drop
<1>2. Written' = Written
  BY <1>1 DEF Written
<1>3. CASE ReaderStarts(g) \/ RouteAnswered(g)
  <2>1. UNCHANGED <<generation, ws, state, closed>> /\ Terms' = Terms /\ HasSocket' = HasSocket
    BY <1>3 DEF ReaderStarts, RouteAnswered, Terms, HasSocket, Open
  <2> QED BY <1>2, <2>1, LinkKept
<1>4. CASE HandleRouteAck(g)
  <2>1. UNCHANGED <<generation, ws, state, closed>> /\ HasSocket' = HasSocket
    BY <1>4 DEF HandleRouteAck, HasSocket, Open
  <2>2. CASE ~Usable(g)
    <3>1. Terms' = Terms
      BY <1>4, <2>2 DEF HandleRouteAck, RecordAck, Terms
    <3> QED BY <1>2, <2>1, <3>1, LinkKept
  <2>3. CASE Usable(g)
    <3>1. routeAck' = g /\ accepted' \in BOOLEAN /\ g # None
      BY <1>4, <2>3, WsConstants DEF HandleRouteAck, RecordAck, Generations
    <3>2. Terms' \in {"accepted", "refused"}
      BY <3>1 DEF Terms
    <3>3. HasSocket
      BY <2>3, <3>1 DEF Usable, HasSocket
    <3>4. Written = Nothing
      BY <1>4, NothingWritten DEF HandleRouteAck
    <3>5. Link!Agree(Terms')
      BY <1>2, <2>1, <3>3, <3>4 DEF Link!Agree, Link!Nothing, Nothing
    <3> QED BY <3>2, <3>5 DEF LinkStep, Link!ConnectionNext
  <2> QED BY <2>2, <2>3
<1>5. CASE ReaderEnds(g) \/ Drop(g)
  <2>1. UNCHANGED <<generation, ws, state, closed>> /\ Terms' = Terms
    BY <1>5 DEF ReaderEnds, Drop, Terms
  <2>2. HasSocket' => HasSocket
    BY <1>5, <2>1, SocketCloses DEF ReaderEnds, Drop
  <2> QED BY <1>2, <2>1, <2>2, LinkKept
<1>6. CASE Cleanup(g)
  <2>1. writer = None /\ writer' = None /\ UNCHANGED <<generation, closed, socket>>
    BY <1>6 DEF Cleanup
  <2>2. CASE ws = g
    <3>1. ws # None
      BY <2>2, WsConstants DEF Generations
    <3> QED BY <1>6, <2>1, <2>2, <3>1, NothingWritten, LinkGivenUp DEF Cleanup, OwnsCurrent
  <2>3. CASE ws # g
    <3>1. UNCHANGED <<ws, state>> /\ Terms' = Terms /\ HasSocket' = HasSocket
      BY <1>6, <2>1, <2>3 DEF Cleanup, OwnsCurrent, Terms, HasSocket, Open
    <3> QED BY <1>2, <2>1, <3>1, LinkKept
  <2> QED BY <2>2, <2>3
<1> QED BY <1>3, <1>4, <1>5, <1>6 DEF ReaderStep

\* start_background gives up the socket on which it could not register.
LEMMA RetireLinks ==
  ASSUME TasksInv, LocksInv, Retire \/ Retired
  PROVE  LinkStep
<1> USE DEF clientVars, lockVars
<1>0. Setup \in Tasks /\ Moved(Setup)
  BY TaskNames, OtherMoves
<1>1. ~Writing(Setup) /\ UNCHANGED <<writer, generation, closed>>
  BY DEF Retire, Retired, Writing
<1>2. CASE Retire
  <2>1. at[Setup] = "retiring" /\ writer = None
    BY <1>2 DEF Retire
  <2>2. CASE ws = gen[Setup]
    <3>1. ws # None
      BY <1>0, <2>1, <2>2, KnownGenerations, WsConstants DEF Apart, Generations
    <3> QED BY <1>1, <1>2, <2>1, <2>2, <3>1, NothingWritten, LinkGivenUp DEF Retire
  <2>3. CASE ws # gen[Setup]
    BY <1>0, <1>1, <1>2, <2>3, LinkUntouched DEF Retire
  <2> QED BY <2>2, <2>3
<1>3. CASE Retired
  <2>1. UNCHANGED <<ws, state>> /\ Terms' = Terms
    BY <1>3 DEF Retired, Terms
  <2>2. HasSocket' => HasSocket
    BY <1>3, <2>1, SocketCloses DEF Retired
  <2>3. Written' = Written
    BY <1>0, <1>1, WrittenStays
  <2> QED BY <1>1, <2>1, <2>2, <2>3, LinkKept
<1> QED BY <1>2, <1>3

\* close() closes the socket, and forgets it.
LEMMA CloseLinks ==
  ASSUME TasksInv, LocksInv, NegotiationInv, CloseStep
  PROVE  LinkStep
<1> USE DEF clientVars, lockVars
<1>1. CASE TasksStopped
  <2>1. Written' = Written
    BY <1>1 DEF TasksStopped, Written
  <2>2. UNCHANGED <<generation, ws, state, closed>> /\ Terms' = Terms /\ HasSocket' = HasSocket
    BY <1>1 DEF TasksStopped, Terms, HasSocket, Open
  <2> QED BY <2>1, <2>2, LinkKept
<1>2. CASE CloseSocket
  <2>1. Written = Nothing /\ Written' = Nothing
    BY <1>2, NothingWritten DEF CloseSocket
  <2>2. UNCHANGED <<generation, ws, state, closed>> /\ Terms' = Terms
    BY <1>2 DEF CloseSocket, Terms
  <2>3. HasSocket' => HasSocket
    <3>1. ws # None => ws \in Generations
      BY KnownGenerations
    <3>2. ws # None => socket'[ws] \in {socket[ws], "closed"}
      BY <1>2, <3>1 DEF CloseSocket, ShutSocket
    <3> QED BY <2>2, <3>2 DEF HasSocket, Open
  <2> QED BY <2>1, <2>2, <2>3, LinkKept
<1>3. CASE CloseEnd
  <2>1. at[Closer] = "shutting" /\ closed /\ writer = Closer
    BY <1>3, TaskNames DEF CloseEnd, TasksInv, LocksInv, Writing
  <2>2. Written = Nothing /\ Written' = Nothing
    BY <1>3, <2>1, NothingWritten DEF CloseEnd, Unlock
  <2>3. Terms' = "none" /\ HasSocket' = FALSE /\ ws' = None
    BY <1>3 DEF CloseEnd, Terms, HasSocket
  <2>4. UNCHANGED <<generation, state, closed>>
    BY <1>3 DEF CloseEnd
  <2>5. CASE ws # None
    <3>1. Link!GiveUp
      BY <2>1, <2>2, <2>3, <2>4, <2>5 DEF Link!GiveUp, Link!Nothing, Nothing
    <3> QED BY <3>1 DEF LinkStep, Link!ConnectionNext
  <2>6. CASE ws = None
    <3>1. routeAck = None
      BY <2>6 DEF NegotiationInv
    <3>2. Terms = "none" /\ HasSocket = FALSE
      BY <2>6, <3>1 DEF Terms, HasSocket
    <3> QED BY <2>2, <2>3, <2>4, <2>6, <3>2, LinkKept
  <2> QED BY <2>5, <2>6
<1> QED BY <1>1, <1>2, <1>3 DEF CloseStep

\* The call of close() may cut off a frame of the supervisor.
LEMMA CloseBeginLinks ==
  ASSUME TasksInv, CloseBegin
  PROVE  LinkStep
<1>1. UNCHANGED <<generation, ws, routeAck, accepted, socket>> /\ Unlock(Supervisor)
  BY DEF CloseBegin
<1>2. Written' \in {Written, Nothing}
  <2>1. CASE writer = Supervisor
    BY <1>1, <2>1, NothingWritten DEF Unlock
  <2>2. CASE writer # Supervisor
    <3>1. writer' = writer
      BY <1>1, <2>2 DEF Unlock
    <3>2. writer \in Tasks => gen'[writer] = gen[writer] /\ frame'[writer] = frame[writer]
      BY <2>2 DEF CloseBegin, TasksInv, TaskTypes
    <3> QED BY <3>1, <3>2 DEF Written
  <2> QED BY <2>1, <2>2
<1>3. Terms' = Terms /\ HasSocket' = HasSocket
  BY <1>1 DEF Terms, HasSocket, Open
<1>4. Link!CloseConnection
  BY <1>1, <1>2, <1>3 DEF CloseBegin, Link!CloseConnection, Link!linkVars, Link!Nothing, Nothing
<1> QED BY <1>4 DEF LinkStep, Link!ConnectionNext

\* A task that is cancelled may be in the middle of a frame.
LEMMA CancelLinks ==
  ASSUME TasksInv, LocksInv, NEW t \in Cancellable, Cancel(t)
  PROVE  LinkStep
<1>0. t \in Tasks /\ Moved(t) /\ Unlock(t)
  BY TaskNames, CancelMoves DEF Cancellable, Cancel
<1>1. Written' \in {Written, Nothing}
  <2>1. CASE writer = t
    BY <1>0, <2>1, NothingWritten DEF Unlock
  <2>2. CASE writer # t
    <3>1. writer' = writer /\ ~Writing(t)
      BY <1>0, <2>2 DEF Unlock, LocksInv
    <3> QED BY <1>0, <3>1, WrittenStays
  <2> QED BY <2>1, <2>2
<1>2. UNCHANGED <<clientVars, socket>>
  BY DEF Cancel
<1>3. UNCHANGED <<generation, ws, state, closed>> /\ Terms' = Terms /\ HasSocket' = HasSocket
  BY <1>2 DEF clientVars, Terms, HasSocket, Open
<1> QED BY <1>1, <1>3, LinkKept

\* Every step of the client is a step of the connection, or none.
LEMMA ClientLinks ==
  ASSUME TasksInv, ConnectInv, LocksInv, NegotiationInv, DialInv, [WsNext]_vars
  PROVE  LinkStep
<1> USE DEF clientVars, lockVars
<1>0. /\ Connectors \subseteq Tasks /\ Sessions \subseteq Tasks
      /\ Setup \in Tasks /\ Supervisor \in Tasks
      /\ Senders \subseteq Tasks /\ Utterances \subseteq Tasks
  BY TaskNames
<1>1. ASSUME NEW t \in Tasks, Moved(t),
             at[t] \in {"idle", "loop", "watching", "sleeping", "streaming"},
             UNCHANGED <<generation, ws, state, closed, routeAck, accepted, writer, socket>>
      PROVE  LinkStep
  <2>1. ~Writing(t)
    BY <1>1 DEF Writing
  <2> QED BY <1>1, <2>1, LinkUntouched
<1>2. CASE StartBackground
  BY <1>0, <1>1, <1>2, CallMoves DEF StartBackground
<1>3. ASSUME NEW s \in Senders, SendJobFrame(s) PROVE LinkStep
  BY <1>0, <1>1, <1>3, CallMoves DEF SendJobFrame
<1>4. ASSUME NEW u \in Utterances, StreamUtterance(u) PROVE LinkStep
  BY <1>0, <1>1, <1>4, CallMoves DEF StreamUtterance
<1>5. ASSUME NEW s \in Sessions, RegisterSession(s) PROVE LinkStep
  BY <1>0, <1>1, <1>5, CallMoves DEF RegisterSession
<1>6. CASE SupervisorStep
  <2>1. /\ at[Supervisor] \in {"loop", "watching", "sleeping"}
        /\ UNCHANGED <<generation, ws, state, closed, routeAck, accepted, writer, socket>>
    BY <1>6 DEF SupervisorStep, LoopHead, WatchEnds, BackoffEnds
  <2> QED BY <1>0, <1>1, <1>6, <2>1, OtherMoves
<1>7. ASSUME NEW u \in Utterances, TakeFrame(u) PROVE LinkStep
  BY <1>0, <1>1, <1>7, OtherMoves DEF TakeFrame
<1>8. CASE UNCHANGED vars \/ \E u \in Utterances : UtteranceAnswered(u)
  <2>1. UNCHANGED <<clientVars, lockVars, taskVars, socket>>
    BY <1>8 DEF vars, UtteranceAnswered
  <2>2. Written' = Written /\ Terms' = Terms /\ HasSocket' = HasSocket
    BY <2>1 DEF taskVars, Written, Terms, HasSocket, Open
  <2> QED BY <2>1, <2>2, LinkKept
<1> QED BY <1>2, <1>3, <1>4, <1>5, <1>6, <1>7, <1>8, ConnectLinks, SendLinks, ReaderLinks,
           RetireLinks, CloseLinks, CloseBeginLinks, CancelLinks
        DEF WsNext, CallStep, NetworkStep, TaskStep

\* Nobody dials in the initial state.
LEMMA DialInit == WsInit => DialInv
BY TaskNames DEF WsInit, DialInv

\* Only _ensure_ws begins to dial, and only there a socket is made.
LEMMA OthersDoNotDial ==
  ASSUME TasksInv, WsNext, NEW s \in Connectors, at'[s] \in {"dialing", "installing"},
         \A t \in Connectors : ~ConnectStep(t)
  PROVE  at[s] = at'[s] /\ UNCHANGED generation
<1> USE DEF clientVars, lockVars, taskVars, Freed, FreedOrRetiring
<1>0. /\ Connectors \subseteq Tasks /\ Sessions \subseteq Tasks
      /\ Setup \in Tasks /\ Supervisor \in Tasks /\ s # Closer /\ s \in Tasks
      /\ Senders \subseteq Tasks /\ Utterances \subseteq Tasks
  BY TaskNames
<1>1. ASSUME NEW t \in Tasks, Moved(t), at'[t] \notin {"dialing", "installing"}
      PROVE  at[s] = at'[s]
  <2>1. s # t
    BY <1>1
  <2> QED BY <1>0, <1>1, <2>1, OthersStay
<1>2. ASSUME NEW t \in Connectors \cup Sessions, SendStep(t)
      PROVE  at[s] = at'[s] /\ UNCHANGED generation
  <2>1. Moved(t) /\ at'[t] \notin {"dialing", "installing"}
    BY <1>2, FrameMoves DEF SendStep
  <2>2. UNCHANGED generation
    BY <1>2 DEF SendStep, BeginSend, EndSend, BreakSend
  <2> QED BY <1>0, <1>1, <2>1, <2>2
<1>3. CASE \/ \E g \in Generations : ReaderStep(g) \/ RouteAnswered(g) \/ Drop(g)
           \/ \E u \in Utterances : UtteranceAnswered(u)
  <2>1. UNCHANGED <<taskVars, generation>>
    BY <1>3
       DEF ReaderStep, ReaderStarts, HandleRouteAck, ReaderEnds, Cleanup, RouteAnswered, Drop,
           UtteranceAnswered
  <2> QED BY <2>1
<1>4. CASE Retire \/ Retired \/ \E u \in Utterances : TakeFrame(u)
  <2>1. PICK t \in Tasks : Moved(t) /\ at'[t] \notin {"dialing", "installing"}
    BY <1>0, <1>4, OtherMoves
  <2>2. UNCHANGED generation
    BY <1>4 DEF Retire, Retired, TakeFrame
  <2> QED BY <1>1, <2>1, <2>2
<1>5. CASE SupervisorStep
  <2>1. Moved(Supervisor) /\ at'[Supervisor] \notin {"dialing", "installing"}
    BY <1>5, OtherMoves
  <2>2. UNCHANGED generation
    BY <1>5 DEF SupervisorStep, LoopHead, WatchEnds, BackoffEnds
  <2> QED BY <1>0, <1>1, <2>1, <2>2
<1>6. CASE StartBackground \/ \E x \in Senders : SendJobFrame(x)
  <2>1. PICK t \in Tasks : Moved(t) /\ at'[t] = "lockWait"
    BY <1>0, <1>6, CallMoves
  <2> QED BY <1>1, <1>6, <2>1 DEF StartBackground, SendJobFrame
<1>7. CASE (\E u \in Utterances : StreamUtterance(u)) \/ \E x \in Sessions : RegisterSession(x)
  <2>1. PICK t \in Tasks : Moved(t) /\ at'[t] \in {"lockWait", "sendWait"}
    BY <1>0, <1>7, CallMoves
  <2> QED BY <1>1, <1>7, <2>1 DEF StreamUtterance, RegisterSession
<1>8. ASSUME NEW t \in Cancellable, Cancel(t) PROVE at[s] = at'[s] /\ UNCHANGED generation
  <2>1. Moved(t) /\ at'[t] \notin {"dialing", "installing"} /\ t \in Tasks
    BY <1>0, <1>8, CancelMoves DEF Cancellable
  <2> QED BY <1>1, <1>8, <2>1 DEF Cancel
<1>9. CASE CloseBegin
  BY <1>0, <1>9 DEF CloseBegin, TasksInv, TaskTypes
<1>10. CASE CloseStep
  BY <1>0, <1>10 DEF CloseStep, TasksStopped, CloseSocket, CloseEnd, Go, TasksInv, TaskTypes
<1> QED BY <1>2, <1>3, <1>4, <1>5, <1>6, <1>7, <1>8, <1>9, <1>10
        DEF WsNext, CallStep, NetworkStep, TaskStep

\* _ensure_ws dials when it found no socket, and nobody else makes one meanwhile.
LEMMA ConnectDials ==
  ASSUME TasksInv, ConnectInv, DialInv, NEW t \in Connectors, ConnectStep(t)
  PROVE  DialInv'
<1> USE DEF clientVars, lockVars
<1> SUFFICES ASSUME NEW s \in Connectors, at'[s] \in {"dialing", "installing"}
             PROVE  ~HasSocket'
  BY DEF DialInv
<1>0. s \in Tasks /\ t \in Tasks /\ s # None /\ t # None
  BY TaskNames
<1>1. Moved(t)
  BY ConnectMoves, InstallMoves DEF ConnectStep
<1>2. connector \in {None, t}
  BY <1>0
     DEF ConnectStep, EnsureWs, TakeConnectLock, DialRefused, DialFails, DialSucceeds, Install,
         Confirm, ReaderJoined, Clear, ConnectInv, Connecting, Making
<1>3. s = t
  <2>1. ASSUME s # t PROVE FALSE
    <3>1. at[s] \in {"dialing", "installing"}
      BY <1>0, <1>1, <2>1, OthersStay
    <3> QED BY <1>0, <1>2, <2>1, <3>1 DEF ConnectInv, Connecting, Making
  <2> QED BY <2>1
<1>4. EnsureWs(t) \/ DialSucceeds(t)
  BY <1>3, ConnectMoves, InstallMoves DEF ConnectStep, Freed
<1>5. ~HasSocket
  BY <1>3, <1>4, ConnectMoves DEF Freed, DialSucceeds, DialInv
<1> QED BY <1>4, <1>5 DEF EnsureWs, DialSucceeds, HasSocket, Open

\* A step that makes no connection does not bring a lost one back.
LEMMA LostStaysLost ==
  ASSUME TasksInv, LinkStep, UNCHANGED generation
  PROVE  HasSocket' => HasSocket
<1>1. generation + 1 # generation
  BY DEF TasksInv, ClientTypes
<1> QED BY <1>1
        DEF LinkStep, Link!ConnectionNext, Link!connectionVars, Link!linkVars, Link!Connect,
            Link!Show, Link!Reject, Link!Agree, Link!BeginWrite, Link!EndWrite, Link!Lose,
            Link!GiveUp, Link!CloseConnection

\* Every step keeps whoever dials without a socket.
LEMMA DialStep ==
  ASSUME TasksInv, ConnectInv, LocksInv, NegotiationInv, DialInv, [WsNext]_vars
  PROVE  DialInv'
<1>1. ASSUME NEW t \in Connectors, ConnectStep(t) PROVE DialInv'
  BY <1>1, ConnectDials
<1>2. CASE UNCHANGED vars
  BY <1>2 DEF vars, clientVars, taskVars, DialInv, HasSocket, Open
<1>3. CASE WsNext /\ \A t \in Connectors : ~ConnectStep(t)
  BY <1>3, OthersDoNotDial, ClientLinks, LostStaysLost DEF DialInv
<1> QED BY <1>1, <1>2, <1>3

\* For any tasks, sockets and frames, through every failure, cancellation and close:
\* a connection is made only when the last is lost, terms end with their connection,
\* frames are written one by one on the current connection, and CONNECTED is shown
\* only of a connection that is up.
THEOREM ClientKeepsTheConnection == WsSafety => KeepsTheConnection
<1> DEFINE Inv == TasksInv /\ ConnectInv /\ LocksInv /\ NegotiationInv /\ DialInv
<1>1. Inv /\ [WsNext]_vars => Inv'
  BY TasksStep, StepIsSafe, LocksStep, NegotiationStep, DialStep DEF ConnectKept
<1>2. WsInit => Link!ConnectionInit
  BY TaskNames DEF WsInit, Link!ConnectionInit, HasSocket, Terms, Written, Link!Nothing, Nothing
<1>3. Inv /\ [WsNext]_vars => [Link!ConnectionNext]_(Link!connectionVars)
  BY ClientLinks DEF LinkStep
<1> QED BY <1>1, <1>2, <1>3, TasksInit, ConnectInit, LocksInit, NegotiationInit, DialInit, PTL
        DEF WsSafety, KeepsTheConnection, Link!ConnectionSpec

\* What Connection says of the frames, step by step.
LEMMA ConnectionKeepsFrames ==
  ASSUME Link!FramesStayCurrent, LinkStep
  PROVE  Link!FramesStayCurrent'
<1> USE DEF Link!FramesStayCurrent, Link!linkVars, Link!Nothing
<1>1. CASE UNCHANGED Link!connectionVars
  BY <1>1 DEF Link!connectionVars
<1>2. CASE Link!Connect \/ (\E answer \in {"accepted", "refused"} : Link!Agree(answer)) \/ Link!GiveUp
  BY <1>2 DEF Link!Connect, Link!Agree, Link!GiveUp
<1>3. CASE Link!Show \/ Link!Reject \/ Link!Lose
  BY <1>3 DEF Link!Show, Link!Reject, Link!Lose
<1>4. ASSUME NEW job \in BOOLEAN, Link!BeginWrite(job) PROVE Link!FramesStayCurrent'
  BY <1>4 DEF Link!BeginWrite
<1>5. CASE Link!EndWrite \/ Link!CloseConnection
  BY <1>5 DEF Link!EndWrite, Link!CloseConnection
<1> QED BY <1>1, <1>2, <1>3, <1>4, <1>5 DEF LinkStep, Link!ConnectionNext

\* While a task writes, its socket is the current one, and has been negotiated if
\* the frame is a job's: nothing replaces or renegotiates a socket under a write.
WritesOnTheCurrentSocket ==
  \A t \in Connectors \cup Sessions :
    at[t] = "sending" => gen[t] = ws /\ (frame[t] = "job" => Background)

\* What holds of every connection holds of the client's, whoever writes.
THEOREM FramesGoToTheCurrentSocket == WsSafety => []WritesOnTheCurrentSocket
<1> DEFINE Inv == TasksInv /\ ConnectInv /\ LocksInv /\ NegotiationInv /\ DialInv
<1>1. Inv /\ [WsNext]_vars => Inv'
  BY TasksStep, StepIsSafe, LocksStep, NegotiationStep, DialStep DEF ConnectKept
<1>2. WsInit => Link!FramesStayCurrent
  BY TaskNames DEF WsInit, Link!FramesStayCurrent, Written, Link!Nothing, Nothing
<1>3. Inv /\ [WsNext]_vars /\ Link!FramesStayCurrent => Link!FramesStayCurrent'
  BY ClientLinks, ConnectionKeepsFrames
<1>4. Inv /\ Link!FramesStayCurrent => WritesOnTheCurrentSocket
  <2> SUFFICES ASSUME Inv, Link!FramesStayCurrent, NEW t \in Connectors \cup Sessions,
                      at[t] = "sending"
               PROVE  gen[t] = ws /\ (frame[t] = "job" => Background)
    BY DEF WritesOnTheCurrentSocket
  <2>1. t \in Tasks \ {Closer} /\ writer = t
    BY TaskNames DEF LocksInv, Writing
  <2>2. Written = [connection |-> gen[t], job |-> frame[t] = "job"]
    BY <2>1 DEF Written
  <2>3. Written # Nothing
    BY <2>1, <2>2, KnownGenerations, WsConstants DEF Apart, Generations, Nothing
  <2> QED BY <2>2, <2>3
          DEF Link!Nothing, Nothing, Link!FramesStayCurrent, Terms, Background, NegotiationInv,
              TasksInv, ClientTypes
<1> QED BY <1>1, <1>2, <1>3, <1>4, TasksInit, ConnectInit, LocksInit, NegotiationInit, DialInit,
           PTL DEF WsSafety

=============================================================================
