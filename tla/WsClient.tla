------------------------------ MODULE WsClient ------------------------------
(***************************************************************************)
(* The WebSocket half of CasaApiClient (api.py): one socket to Casa, made  *)
(* and replaced under _ws_lock by whichever task needs it first, one       *)
(* reader task for each socket, one writer at a time under _ws_write_lock, *)
(* and a supervisor that reconnects.  A socket is known by its generation. *)
(*                                                                         *)
(* at[t] is the await at which task t is suspended ("idle": not running).  *)
(* In _ensure_ws:                                                          *)
(*   lockWait    waiting for _ws_lock       dialing   in ws_connect        *)
(*   installing  waiting for the write lock with a new socket in hand      *)
(*   confirming  waiting for the write lock to publish CONNECTED           *)
(*   undoing     awaiting the reader it cancelled                          *)
(*   clearing    closing the socket, then waiting for the write lock       *)
(* In _send_json, about the frame named by frame[t]:                       *)
(*   sendWait    waiting for the write lock   sending   in ws.send_json    *)
(* start_background: retiring, retired (two awaits of                      *)
(* _retire_ws_generation).  _supervise_ws: loop (runnable), watching (a    *)
(* reader), sleeping.  _stream_utterance_ws: streaming (queue.get).        *)
(* close: stopping (awaiting the tasks it cancelled), locking, shutting.   *)
(***************************************************************************)
EXTENDS Naturals, Sequences

CONSTANTS
  Setup,           \* the task that calls start_background
  Supervisor,      \* the task of _supervise_ws
  Closer,          \* the task that calls close
  Senders,         \* tasks that send job frames, one after the other
  Sessions,        \* tasks that register a listening device
  Utterances,      \* tasks that stream an utterance
  None,
  MaxGeneration,   \* bound: sockets; the last one is not disturbed
  EarlyUse,        \* whether utterances may come before start_background
  CancelCleanup    \* whether a task may be cancelled while it gives up a socket

Frames == {"route", "reroute", "job", "session", "utterance", "receipt", "cancel"}

ASSUME WsConstants ==
  /\ MaxGeneration \in Nat \ {0}
  /\ EarlyUse \in BOOLEAN
  /\ CancelCleanup \in BOOLEAN
  /\ None \notin Nat \cup Frames
  /\ None \notin {Setup, Supervisor, Closer} \cup Senders \cup Sessions \cup Utterances
  /\ Setup # Supervisor
  /\ Closer \notin {Setup, Supervisor} \cup Senders \cup Sessions \cup Utterances
  /\ {Setup, Supervisor} \cap (Senders \cup Sessions \cup Utterances) = {}
  /\ Senders \cap (Sessions \cup Utterances) = {}
  /\ Sessions \cap Utterances = {}

Generations == 1 .. MaxGeneration
Connectors == {Setup, Supervisor} \cup Senders \cup Utterances
Cancellable == Senders \cup Sessions \cup Utterances
Tasks == Connectors \cup Sessions \cup {Closer}

VARIABLES
  ws,           \* _ws
  generation,   \* _ws_generation
  wsReader,     \* _ws_reader: the generation it reads
  routeAck,     \* the generation of _route_ack_generation while _route_ack is set
  accepted,     \* whether _accepted_capabilities has all that are needed
  registered,   \* _registered_generation
  routed,       \* whether _route_id is set
  state,        \* _connection_state
  closed,       \* _closed
  connector,    \* holder of _ws_lock
  writer,       \* holder of _ws_write_lock across an await
  at,           \* where each task is suspended
  gen,          \* the generation a task works with
  frame,        \* what a task sends
  reader,       \* the reader task of each generation
  socket,       \* the socket of each generation
  queue,        \* the frames in the queue of each utterance
  awaited,      \* the reader the supervisor awaits; the socket and reader close() found
  route         \* Casa's side: the route registration of each socket

clientVars == <<ws, generation, wsReader, routeAck, accepted, registered, routed,
                state, closed>>
lockVars == <<connector, writer>>
taskVars == <<at, gen, frame>>
vars == <<clientVars, lockVars, taskVars, reader, socket, queue, awaited, route>>

WsInit ==
  /\ ws = None
  /\ generation = 0
  /\ wsReader = None
  /\ routeAck = None
  /\ accepted = FALSE
  /\ registered = None
  /\ routed = FALSE
  /\ state = "disconnected"
  /\ closed = FALSE
  /\ connector = None
  /\ writer = None
  /\ at = [t \in Tasks |-> "idle"]
  /\ gen = [t \in Tasks |-> None]
  /\ frame = [t \in Tasks |-> None]
  /\ reader = [g \in Generations |-> "none"]
  /\ socket = [g \in Generations |-> "none"]
  /\ queue = [u \in Utterances |-> <<>>]
  /\ awaited = [watched |-> None, ws |-> None, reader |-> None]
  /\ route = [g \in Generations |-> "unknown"]

-----------------------------------------------------------------------------
(* Steps of a coroutine between two awaits.                                *)

Go(t, where) == at' = [at EXCEPT ![t] = where]
End(t, where) ==
  /\ Go(t, where)
  /\ gen' = [gen EXCEPT ![t] = None]
  /\ frame' = [frame EXCEPT ![t] = None]
Send(t, g, f) ==
  /\ Go(t, "sendWait")
  /\ gen' = [gen EXCEPT ![t] = g]
  /\ frame' = [frame EXCEPT ![t] = f]
Leave(t) == connector' = IF connector = t THEN None ELSE connector

\* Defect: a send that ends keeps the write lock.
NeverUnlocks(t) == UNCHANGED writer

Unlock(t) == writer' = IF writer = t THEN None ELSE writer

\* `not ws.closed`: true of a socket that broke while nobody has noticed.
Open(g) == socket[g] \in {"open", "broken"}
HasSocket == ws # None /\ Open(ws)
Usable(g) == ws = g /\ Open(g)
Background == routeAck # None /\ routeAck = ws /\ accepted

\* Defect: DISCONNECTED overwrites AUTH_FAILED.
NotifiesAll(s) == state' = IF closed THEN state ELSE s

\* _notify_connection_state, but for close.
Notify(s) ==
  state' = IF closed \/ (s = "disconnected" /\ state = "auth_failed") THEN state ELSE s

\* Defect: the socket stays the current one.
KeepsSocket == routeAck' = None /\ accepted' = FALSE /\ Notify("disconnected") /\ UNCHANGED ws

\* The socket is given up, and with it what was negotiated on it.
Disconnect ==
  /\ ws' = None
  /\ routeAck' = None
  /\ accepted' = FALSE
  /\ Notify("disconnected")

\* task.cancel() of readers: one that waits for the write lock in its finally
\* block, or has not started yet, ends without a further step.
CancelReaders(gs) ==
  reader' = [g \in Generations |->
    IF g \notin gs \/ reader[g] \in {"none", "done"} THEN reader[g]
    ELSE IF reader[g] \in {"reading", "ackWait"} THEN "cleanup" ELSE "done"]

\* The last lines of start_background.
EndSetup ==
  /\ at' = [at EXCEPT ![Setup] = "done", ![Supervisor] = IF closed THEN @ ELSE "loop"]
  /\ gen' = [gen EXCEPT ![Setup] = None]
  /\ frame' = [frame EXCEPT ![Setup] = None]

\* _ensure_ws returns socket g to the task that called it.
Returned(t, g) ==
  \/ t = Setup /\ registered = g /\ EndSetup
  \/ t = Setup /\ registered # g /\ Send(t, g, "reroute")
  \/ t = Supervisor /\ End(t, "loop")
  \/ t \in Senders /\ Send(t, g, "job")
  \/ t \in Utterances /\ Send(t, g, "utterance")

\* _ensure_ws raises in the task that called it.
Raised(t, authentication) ==
  \/ t = Setup /\ authentication /\ End(t, "done")
  \/ t = Setup /\ ~authentication /\ EndSetup
  \/ t = Supervisor /\ End(t, IF closed \/ authentication THEN "done" ELSE "sleeping")
  \/ t \in Senders /\ End(t, "idle")
  \/ t \in Utterances /\ End(t, "done")

\* The except block of _ensure_ws begins, after an error or a cancellation.
Undo(t) ==
  /\ Go(t, "undoing")
  /\ frame' = [frame EXCEPT ![t] = None]
  /\ CancelReaders({gen[t]})
  /\ UNCHANGED <<gen, queue>>

Popped(u) == queue' = [queue EXCEPT ![u] = <<>>]

\* The finally block of _stream_utterance_ws, before a final frame came.
AbandonUtterance(u) ==
  /\ Popped(u)
  /\ IF Open(gen[u]) THEN Send(u, gen[u], "cancel") ELSE End(u, "done")
  /\ UNCHANGED reader

\* _send_json raises in the task that called it.
SendRaises(t) ==
  \/ frame[t] = "route" /\ Undo(t)
  \/ frame[t] = "reroute" /\ Go(t, "retiring") /\ UNCHANGED <<gen, frame, reader, queue>>
  \/ frame[t] \in {"job", "session"} /\ End(t, "idle") /\ UNCHANGED <<reader, queue>>
  \/ frame[t] = "utterance" /\ AbandonUtterance(t)
  \/ frame[t] \in {"receipt", "cancel"} /\ End(t, "done") /\ UNCHANGED <<reader, queue>>

-----------------------------------------------------------------------------
(* Calls from the integration.                                             *)

Ready == ~closed /\ (EarlyUse \/ at[Setup] = "done")

StartBackground ==
  /\ ~closed
  /\ at[Setup] = "idle"
  /\ routed' = TRUE
  /\ Go(Setup, "lockWait")
  /\ UNCHANGED <<ws, generation, wsReader, routeAck, accepted, registered, state, closed,
                 lockVars, gen, frame, reader, socket, queue, awaited, route>>

\* send_job_frame: by a manager that was given a job on a negotiated socket.
SendJobFrame(s) ==
  /\ ~closed
  /\ at[s] = "idle"
  /\ \E g \in Generations : route[g] = "accepted"
  /\ Go(s, "lockWait")
  /\ UNCHANGED <<clientVars, lockVars, gen, frame, reader, socket, queue, awaited, route>>

StreamUtterance(u) ==
  /\ Ready
  /\ at[u] = "idle"
  /\ Go(u, "lockWait")
  /\ UNCHANGED <<clientVars, lockVars, gen, frame, reader, socket, queue, awaited, route>>

\* register_session takes a connected socket as it is, without _ws_lock.
RegisterSession(s) ==
  /\ Ready
  /\ at[s] = "idle"
  /\ state = "connected"
  /\ HasSocket
  /\ Send(s, ws, "session")
  /\ UNCHANGED <<clientVars, lockVars, reader, socket, queue, awaited, route>>

-----------------------------------------------------------------------------
(* _ensure_ws.                                                             *)

\* _ws_lock is acquired: the early returns, or a connect.
TakeConnectLock(t) ==
  /\ at[t] = "lockWait"
  /\ connector = None
  /\ \/ closed /\ Raised(t, FALSE) /\ UNCHANGED connector
     \/ ~closed /\ state = "auth_failed" /\ Raised(t, TRUE) /\ UNCHANGED connector
     \/ /\ ~closed
        /\ state # "auth_failed"
        /\ HasSocket
        /\ Returned(t, ws)
        /\ UNCHANGED connector
     \/ /\ ~closed
        /\ state # "auth_failed"
        /\ ~HasSocket
        /\ connector' = t
        /\ Go(t, "dialing")
        /\ UNCHANGED <<gen, frame>>

EnsureWs(t) ==
  /\ TakeConnectLock(t)
  /\ UNCHANGED <<clientVars, writer, reader, socket, queue, awaited, route>>

\* 401 in the handshake.
DialRefused(t) ==
  /\ at[t] = "dialing"
  /\ Leave(t)
  /\ Notify("auth_failed")
  /\ Raised(t, TRUE)
  /\ UNCHANGED <<ws, generation, wsReader, routeAck, accepted, registered, routed, closed,
                 writer, reader, socket, queue, awaited, route>>

DialFails(t) ==
  /\ at[t] = "dialing"
  /\ Leave(t)
  /\ Raised(t, FALSE)
  /\ UNCHANGED <<clientVars, writer, reader, socket, queue, awaited, route>>

\* A client closed meanwhile closes the new socket and raises.
DialSucceeds(t) ==
  /\ at[t] = "dialing"
  /\ \/ closed /\ Leave(t) /\ Raised(t, FALSE)
     \/ /\ ~closed
        /\ generation < MaxGeneration
        /\ Go(t, "installing")
        /\ UNCHANGED <<connector, gen, frame>>
  /\ UNCHANGED <<clientVars, writer, reader, socket, queue, awaited, route>>

\* Defect: zero stands for no generation.
ForgetsWithZero(g) == routeAck' = 0 /\ accepted' = FALSE

ForgetNegotiation(g) == routeAck' = None /\ accepted' = FALSE

\* The socket becomes the current one and its reader is created.
Install(t) ==
  LET g == generation + 1 IN
  /\ at[t] = "installing"
  /\ writer = None
  /\ \/ /\ closed
        /\ Leave(t)
        /\ Raised(t, FALSE)
        /\ UNCHANGED <<ws, generation, wsReader, routeAck, accepted, registered, reader,
                       socket>>
     \/ /\ ~closed
        /\ ws' = g
        /\ generation' = g
        /\ wsReader' = g
        /\ ForgetNegotiation(g)
        /\ registered' = None
        /\ reader' = [reader EXCEPT ![g] = "created"]
        /\ socket' = [socket EXCEPT ![g] = "open"]
        /\ IF routed THEN Send(t, g, "route")
           ELSE /\ Go(t, "confirming")
                /\ gen' = [gen EXCEPT ![t] = g]
                /\ UNCHANGED frame
        /\ UNCHANGED connector
  /\ UNCHANGED <<routed, state, closed, writer, queue, awaited, route>>

\* Defect: CONNECTED is published for a generation given up meanwhile.
PublishesStale(t) == ~closed

StillCurrent(t) == ~closed /\ Usable(gen[t])

Confirm(t) ==
  /\ at[t] = "confirming"
  /\ writer = None
  /\ \/ /\ StillCurrent(t)
        /\ Notify("connected")
        /\ Leave(t)
        /\ Returned(t, gen[t])
        /\ UNCHANGED <<reader, queue>>
     \/ ~StillCurrent(t) /\ Undo(t) /\ UNCHANGED <<state, connector>>
  /\ UNCHANGED <<ws, generation, wsReader, routeAck, accepted, registered, routed, closed,
                 writer, socket, awaited, route>>

\* The cancelled reader has ended, and the socket is closed.
ReaderJoined(t) ==
  /\ at[t] = "undoing"
  /\ reader[gen[t]] = "done"
  /\ socket' = [socket EXCEPT ![gen[t]] = "closed"]
  /\ Go(t, "clearing")
  /\ UNCHANGED <<clientVars, lockVars, gen, frame, reader, queue, awaited, route>>

\* What is left of the generation is cleared, and the error raised again.
Clear(t) ==
  /\ at[t] = "clearing"
  /\ writer = None
  /\ IF ws = gen[t] THEN Disconnect /\ wsReader' = None
                    ELSE UNCHANGED <<ws, routeAck, accepted, state, wsReader>>
  /\ Leave(t)
  /\ Raised(t, FALSE)
  /\ UNCHANGED <<generation, registered, routed, closed, writer, reader, socket, queue,
                 awaited, route>>

-----------------------------------------------------------------------------
(* _send_json.                                                             *)

\* Defect: the capabilities are checked before the wait for the lock only.
TrustsEarlierCheck(t) == ~closed /\ Usable(gen[t])

MaySend(t) == ~closed /\ Usable(gen[t]) /\ (frame[t] = "job" => Background)

\* The write lock is acquired: the frame is written, or refused.
BeginSend(t) ==
  /\ at[t] = "sendWait"
  /\ writer = None
  /\ \/ /\ MaySend(t)
        /\ writer' = t
        /\ Go(t, "sending")
        /\ route' = [route EXCEPT ![gen[t]] =
                       IF frame[t] \in {"route", "reroute"} /\ @ = "unknown" THEN "heard" ELSE @]
        /\ UNCHANGED <<gen, frame, reader, queue>>
     \/ ~MaySend(t) /\ SendRaises(t) /\ UNCHANGED <<writer, route>>
  /\ UNCHANGED <<clientVars, connector, socket, awaited>>

\* The send returns, and its task goes on.
EndSend(t) ==
  /\ at[t] = "sending"
  /\ socket[gen[t]] # "broken"
  /\ Unlock(t)
  /\ registered' = IF frame[t] \in {"route", "reroute"} THEN gen[t] ELSE registered
  /\ \/ /\ frame[t] = "route"
        /\ Go(t, "confirming")
        /\ frame' = [frame EXCEPT ![t] = None]
        /\ UNCHANGED <<gen, queue>>
     \/ frame[t] = "reroute" /\ EndSetup /\ UNCHANGED queue
     \/ frame[t] \in {"job", "session"} /\ End(t, "idle") /\ UNCHANGED queue
     \/ frame[t] = "utterance" /\ Go(t, "streaming") /\ UNCHANGED <<gen, frame, queue>>
     \/ frame[t] \in {"receipt", "cancel"} /\ End(t, "done") /\ UNCHANGED queue
  /\ UNCHANGED <<ws, generation, wsReader, routeAck, accepted, routed, state, closed,
                 connector, reader, socket, awaited, route>>

\* The send raises: the connection is lost.  Bound: not the last one.
BreakSend(t) ==
  /\ at[t] = "sending"
  /\ gen[t] < MaxGeneration \/ socket[gen[t]] = "closed"
  /\ Unlock(t)
  /\ SendRaises(t)
  /\ socket' = [socket EXCEPT ![gen[t]] = IF @ = "open" THEN "broken" ELSE @]
  /\ UNCHANGED <<clientVars, connector, awaited, route>>

-----------------------------------------------------------------------------
(* _retire_ws_generation, when start_background cannot register.           *)

Retire ==
  LET g == gen[Setup] IN
  /\ at[Setup] = "retiring"
  /\ writer = None
  /\ \/ /\ ws = g
        /\ Disconnect
        /\ wsReader' = None
        /\ registered' = None
        /\ CancelReaders({wsReader} \ {None})
        /\ Go(Setup, "retired")
        /\ UNCHANGED <<gen, frame>>
     \/ /\ ws # g
        /\ EndSetup
        /\ UNCHANGED <<ws, wsReader, routeAck, accepted, registered, state, reader>>
  /\ UNCHANGED <<generation, routed, closed, lockVars, socket, queue, awaited, route>>

Retired ==
  /\ at[Setup] = "retired"
  /\ reader[gen[Setup]] = "done"
  /\ socket' = [socket EXCEPT ![gen[Setup]] = "closed"]
  /\ EndSetup
  /\ UNCHANGED <<clientVars, lockVars, reader, queue, awaited, route>>

-----------------------------------------------------------------------------
(* _read_loop, and what Casa sends.                                        *)

ReaderStarts(g) ==
  /\ reader[g] = "created"
  /\ reader' = [reader EXCEPT ![g] = "reading"]
  /\ UNCHANGED <<clientVars, lockVars, taskVars, socket, queue, awaited, route>>

Reads(g) == reader[g] = "reading" /\ socket[g] = "open"

\* voice_route_registered arrives, with the capabilities or without.
RouteAnswered(g) ==
  /\ Reads(g)
  /\ route[g] = "heard"
  /\ \E answer \in {"accepted", "refused"} : route' = [route EXCEPT ![g] = answer]
  /\ reader' = [reader EXCEPT ![g] = "ackWait"]
  /\ UNCHANGED <<clientVars, lockVars, taskVars, socket, queue, awaited>>

\* Defect: the generation is not checked again under the lock.
RecordsStaleAck(g) == routeAck' = g /\ accepted' = (route[g] = "accepted")

RecordAck(g) ==
  IF Usable(g) THEN routeAck' = g /\ accepted' = (route[g] = "accepted")
               ELSE UNCHANGED <<routeAck, accepted>>

HandleRouteAck(g) ==
  /\ reader[g] = "ackWait"
  /\ writer = None
  /\ RecordAck(g)
  /\ reader' = [reader EXCEPT ![g] = "reading"]
  /\ UNCHANGED <<ws, generation, wsReader, registered, routed, state, closed, lockVars,
                 taskVars, socket, queue, awaited, route>>

Streaming(u) == frame[u] = "utterance"

\* The final frame of an utterance.  (A block changes nothing here.)
UtteranceAnswered(u) ==
  /\ Streaming(u)
  /\ at[u] \in {"sending", "streaming"}
  /\ Reads(gen[u])
  /\ queue[u] = <<>>
  /\ \E f \in {"handoff", "done"} : queue' = [queue EXCEPT ![u] = <<f>>]
  /\ UNCHANGED <<clientVars, lockVars, taskVars, reader, socket, awaited, route>>

\* The connection is lost.  Bound: not the last one.
Drop(g) ==
  /\ g < MaxGeneration
  /\ Open(g)
  /\ socket' = [socket EXCEPT ![g] = "closed"]
  /\ UNCHANGED <<clientVars, lockVars, taskVars, reader, queue, awaited, route>>

\* The reader finds the connection closed or broken.
ReaderEnds(g) ==
  /\ reader[g] = "reading"
  /\ socket[g] # "open"
  /\ socket' = [socket EXCEPT ![g] = "closed"]
  /\ reader' = [reader EXCEPT ![g] = "cleanup"]
  /\ UNCHANGED <<clientVars, lockVars, taskVars, queue, awaited, route>>

\* Defect: no utterance is told.
TellsNoUtterance(us) == UNCHANGED queue

\* "__closed__" is put in the queues of the utterances us.
TellClosed(us) ==
  queue' = [u \in Utterances |-> IF u \in us THEN Append(queue[u], "closed") ELSE queue[u]]

\* Defect: the reader of an older generation clears the current one.
ClearsAnyGeneration(g) == ws # None

OwnsCurrent(g) == ws = g

\* The finally block.
Cleanup(g) ==
  /\ reader[g] = "cleanup"
  /\ writer = None
  /\ IF OwnsCurrent(g) THEN Disconnect ELSE UNCHANGED <<ws, routeAck, accepted, state>>
  /\ TellClosed({u \in Utterances : Streaming(u) /\ gen[u] = g})
  /\ reader' = [reader EXCEPT ![g] = "done"]
  /\ UNCHANGED <<generation, wsReader, registered, routed, closed, lockVars, taskVars,
                 socket, awaited, route>>

\* queue.get returns.
TakeFrame(u) ==
  /\ at[u] = "streaming"
  /\ queue[u] # <<>>
  /\ Popped(u)
  /\ IF Head(queue[u]) = "handoff" THEN Send(u, gen[u], "receipt") ELSE End(u, "done")
  /\ UNCHANGED <<clientVars, lockVars, reader, socket, awaited, route>>

-----------------------------------------------------------------------------
(* _supervise_ws.                                                          *)

\* Defect: without a reader there is nothing to supervise.
GivesUpWithoutReader == IF closed \/ wsReader = None THEN "done" ELSE "watching"

AfterLoopHead ==
  CASE closed -> "done"
    [] ~closed /\ wsReader # None -> "watching"
    [] ~closed /\ wsReader = None /\ state = "auth_failed" -> "done"
    [] ~closed /\ wsReader = None /\ state # "auth_failed" -> "lockWait"

LoopHead ==
  /\ at[Supervisor] = "loop"
  /\ Go(Supervisor, AfterLoopHead)
  /\ awaited' = [awaited EXCEPT !.watched = IF AfterLoopHead = "watching" THEN wsReader ELSE None]
  /\ UNCHANGED <<clientVars, lockVars, gen, frame, reader, socket, queue, route>>

\* The awaited reader has ended, whether by itself or cancelled.
WatchEnds ==
  /\ at[Supervisor] = "watching"
  /\ reader[awaited.watched] = "done"
  /\ Go(Supervisor, IF closed \/ state = "auth_failed" THEN "done" ELSE "lockWait")
  /\ awaited' = [awaited EXCEPT !.watched = None]
  /\ UNCHANGED <<clientVars, lockVars, gen, frame, reader, socket, queue, route>>

BackoffEnds ==
  /\ at[Supervisor] = "sleeping"
  /\ Go(Supervisor, "loop")
  /\ UNCHANGED <<clientVars, lockVars, gen, frame, reader, socket, queue, awaited, route>>

-----------------------------------------------------------------------------
(* Cancellation, and close.                                                *)

Registering(t) == frame[t] = "route" \/ at[t] = "confirming"

\* A task is cancelled by its owner.  Bound: not while it makes the last socket.
Cancel(t) ==
  LET gone == IF t \in Utterances THEN "done" ELSE "idle" IN
  /\ at[t] \in {"undoing", "clearing"} => CancelCleanup
  /\ \/ /\ at[t] \in {"lockWait", "dialing", "installing", "clearing"}
        /\ Leave(t)
        /\ End(t, gone)
        /\ UNCHANGED <<reader, queue>>
     \/ /\ at[t] = "undoing"
        /\ Leave(t)
        /\ End(t, gone)
        /\ CancelReaders({gen[t]})
        /\ UNCHANGED queue
     \/ /\ Registering(t)
        /\ gen[t] < MaxGeneration
        /\ Undo(t)
        /\ UNCHANGED connector
     \/ /\ at[t] \in {"sendWait", "sending", "streaming"}
        /\ ~Registering(t)
        /\ SendRaises(t)
        /\ UNCHANGED connector
  /\ Unlock(t)
  /\ UNCHANGED <<clientVars, socket, awaited, route>>

CloseBegin ==
  LET undoes == Registering(Supervisor)
      awaits == IF at[Supervisor] \in {"idle", "done"} THEN {} ELSE {gen[Supervisor], awaited.watched}
  IN
  /\ ~closed
  /\ closed' = TRUE
  /\ state' = "disconnected"
  /\ awaited' = [watched |-> None, ws |-> ws, reader |-> wsReader]
  /\ CancelReaders(({wsReader} \cup awaits) \ {None})
  /\ at' = [at EXCEPT ![Closer] = "stopping",
              ![Supervisor] = IF undoes THEN "undoing" ELSE IF @ = "idle" THEN @ ELSE "done"]
  /\ gen' = [gen EXCEPT ![Supervisor] = IF undoes THEN @ ELSE None]
  /\ frame' = [frame EXCEPT ![Supervisor] = None]
  /\ connector' = IF connector = Supervisor /\ ~undoes THEN None ELSE connector
  /\ Unlock(Supervisor)
  /\ UNCHANGED <<ws, generation, wsReader, routeAck, accepted, registered, routed, socket,
                 queue, route>>

\* The supervisor and the reader have ended.
TasksStopped ==
  /\ at[Closer] = "stopping"
  /\ at[Supervisor] \in {"idle", "done"}
  /\ awaited.reader # None => reader[awaited.reader] = "done"
  /\ Go(Closer, "locking")
  /\ UNCHANGED <<clientVars, lockVars, gen, frame, reader, socket, queue, awaited, route>>

ShutSocket(g) ==
  socket' = [h \in Generations |-> IF h = g THEN "closed" ELSE socket[h]]

CloseSocket ==
  /\ at[Closer] = "locking"
  /\ writer = None
  /\ writer' = Closer
  /\ ShutSocket(awaited.ws)
  /\ Go(Closer, "shutting")
  /\ UNCHANGED <<clientVars, connector, gen, frame, reader, queue, awaited, route>>

CloseEnd ==
  /\ at[Closer] = "shutting"
  /\ Unlock(Closer)
  /\ ws' = None
  /\ wsReader' = None
  /\ registered' = None
  /\ routeAck' = None
  /\ accepted' = FALSE
  /\ TellClosed({u \in Utterances : Streaming(u)})
  /\ Go(Closer, "done")
  /\ awaited' = [watched |-> None, ws |-> None, reader |-> None]
  /\ UNCHANGED <<generation, routed, state, closed, connector, gen, frame, reader, socket,
                 route>>

-----------------------------------------------------------------------------
(* The specification.                                                      *)

ConnectStep(t) ==
  EnsureWs(t) \/ DialRefused(t) \/ DialFails(t) \/ DialSucceeds(t) \/ Install(t)
    \/ Confirm(t) \/ ReaderJoined(t) \/ Clear(t)

SendStep(t) == BeginSend(t) \/ EndSend(t) \/ BreakSend(t)

ReaderStep(g) ==
  ReaderStarts(g) \/ HandleRouteAck(g) \/ ReaderEnds(g) \/ Cleanup(g)

SupervisorStep == LoopHead \/ WatchEnds \/ BackoffEnds

CloseStep == TasksStopped \/ CloseSocket \/ CloseEnd

CallStep ==
  \/ StartBackground
  \/ \E s \in Senders : SendJobFrame(s)
  \/ \E u \in Utterances : StreamUtterance(u)
  \/ \E s \in Sessions : RegisterSession(s)
  \/ \E t \in Cancellable : Cancel(t)
  \/ CloseBegin

NetworkStep ==
  \/ \E g \in Generations : RouteAnswered(g) \/ Drop(g)
  \/ \E u \in Utterances : UtteranceAnswered(u)

TaskStep ==
  \/ \E t \in Connectors : ConnectStep(t)
  \/ \E t \in Connectors \cup Sessions : SendStep(t)
  \/ \E g \in Generations : ReaderStep(g)
  \/ \E u \in Utterances : TakeFrame(u)
  \/ Retire
  \/ Retired
  \/ SupervisorStep
  \/ CloseStep

WsNext == CallStep \/ NetworkStep \/ TaskStep

WsSafety == WsInit /\ [][WsNext]_vars

\* Tasks run on, sends end, the backoff ends, and of the connects that a task
\* makes again and again one succeeds.
WsSpec ==
  /\ WsSafety
  /\ \A t \in Connectors :
       /\ WF_vars(ConnectStep(t))
       /\ SF_vars(DialSucceeds(t))
  /\ \A t \in Connectors \cup Sessions : WF_vars(SendStep(t))
  /\ \A g \in Generations : WF_vars(ReaderStep(g))
  /\ WF_vars(Retire \/ Retired)
  /\ WF_vars(SupervisorStep)
  /\ WF_vars(CloseStep)

-----------------------------------------------------------------------------
(* Properties.                                                             *)

\* The type invariant of the client.
WsTypeOK ==
  /\ ws \in Generations \cup {None}
  /\ generation \in 0 .. MaxGeneration
  /\ wsReader \in Generations \cup {None}
  /\ routeAck \in Generations \cup {None}
  /\ accepted \in BOOLEAN
  /\ registered \in Generations \cup {None}
  /\ routed \in BOOLEAN
  /\ state \in {"disconnected", "connected", "auth_failed"}
  /\ closed \in BOOLEAN
  /\ connector \in Connectors \cup {None}
  /\ writer \in Tasks \cup {None}
  /\ gen \in [Tasks -> Generations \cup {None}]
  /\ frame \in [Tasks -> Frames \cup {None}]
  /\ reader \in [Generations ->
                   {"none", "created", "reading", "ackWait", "cleanup", "done"}]
  /\ socket \in [Generations -> {"none", "open", "broken", "closed"}]
  /\ route \in [Generations -> {"unknown", "heard", "accepted", "refused"}]

\* What was negotiated belongs to the current socket, and is what Casa answered
\* on that very socket: never an answer that outlived its connection.
NegotiationIsCurrent ==
  routeAck # None => routeAck = ws /\ accepted = (route[ws] = "accepted")

\* A job frame is only ever written to a socket on which Casa has accepted the
\* route with its capabilities, however often the connection was replaced since
\* the manager got the job.
JobFramesAfterAcceptance ==
  \A s \in Senders : at[s] = "sending" /\ frame[s] = "job" => route[gen[s]] = "accepted"

Alive(g) == reader[g] \in {"created", "reading", "ackWait", "cleanup"}

\* The entity of an agent is shown as available (CONNECTED) only while there is a
\* socket, and a reader that will notice its end, or a task in _ensure_ws that is
\* about to replace the socket or to give it up.
ConnectedIsWatched == state = "connected" => ws # None /\ (Alive(ws) \/ connector # None)

\* An utterance that waits for a frame is answered or told that its connection
\* is gone: its reader still lives, or close() has yet to tell it.
WaitingUtterancesAreTold ==
  \A u \in Utterances :
    at[u] = "streaming" /\ queue[u] = <<>> =>
      Alive(gen[u]) \/ at[Closer] \in {"stopping", "locking", "shutting"}

\* Once close() has returned nothing of the client is left: no supervisor, no
\* answer of Casa that is still believed, and no open socket, which could keep a
\* reader going, but one whose maker is about to close it.
ClosedForGood ==
  at[Closer] = "done" =>
    /\ ws = None
    /\ routeAck = None
    /\ state = "disconnected"
    /\ at[Supervisor] \in {"idle", "done"}
    /\ \A g \in Generations : socket[g] = "open" =>
         \E t \in Connectors : connector = t /\ gen[t] = g

\* A socket that would be handed out has a reader, or somebody about to replace
\* it: nobody is given a connection whose end goes unnoticed.
SocketsAreRead ==
  HasSocket => Alive(ws) \/ connector # None \/ closed

\* A rejected secret is not tried again and not forgotten: only close() changes
\* the state, and no socket is installed.
AuthFailureSticks ==
  [][state = "auth_failed" => (state' = "auth_failed" /\ generation' = generation) \/ closed']_vars

Connected == state = "connected" /\ HasSocket /\ Alive(ws)

\* The supervisor reconnects until the client closes or its secret is rejected.
Reconnects ==
  []<>(at[Setup] = "idle" \/ closed \/ state = "auth_failed" \/ Connected)

\* close() returns.
CloseReturns == closed ~> at[Closer] = "done"

=============================================================================
