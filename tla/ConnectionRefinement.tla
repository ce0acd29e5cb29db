------------------------ MODULE ConnectionRefinement ------------------------
(* The WebSocket client implements Connection.                             *)
EXTENDS WsClient

Nothing == [connection |-> None, job |-> FALSE]

\* What is being written under _ws_write_lock, unless close() closes the socket.
Written ==
  IF writer \in Tasks \ {Closer}
  THEN [connection |-> gen[writer], job |-> frame[writer] = "job"]
  ELSE Nothing

Terms ==
  IF routeAck = None THEN "none" ELSE IF accepted THEN "accepted" ELSE "refused"

Link == INSTANCE Connection WITH
  made <- generation,
  current <- ws,
  up <- HasSocket,
  terms <- Terms,
  writing <- Written,
  shown <- state,
  over <- closed

\* Whatever task connects, sends, fails, is cancelled or closes, and whichever
\* reader ends late: the client does to its connection what Connection lets it.
KeepsTheConnection == Link!ConnectionSpec

=============================================================================
