----------------------------- MODULE MCWsLiveness -----------------------------
(* Two sockets, which an utterance or a wake word may have made before       *)
(* start_background is called, as the tests do, and the first of which may   *)
(* fail: the client is connected again and again, and closes.                *)
EXTENDS WsClient, TLC

CONSTANTS renewal, question, wakeWord

=============================================================================
