----------------------------- MODULE MCWsCancelled -----------------------------
(* As MCWsLiveness, but an utterance may also be cancelled while it gives up *)
(* the socket it was making.                                                *)
EXTENDS WsClient, TLC

CONSTANTS renewal, question, wakeWord

=============================================================================
