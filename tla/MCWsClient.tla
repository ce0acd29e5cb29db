----------------------------- MODULE MCWsClient -----------------------------
(* A manager that sends job frames and an utterance, over three sockets of  *)
(* which the first two may fail at any moment.                              *)
EXTENDS WsClient, TLC

CONSTANTS renewal, question, wakeWord

=============================================================================
