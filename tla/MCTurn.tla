------------------------------- MODULE MCTurn -------------------------------
(* A turn over either transport.                                             *)
EXTENDS Turn, TLC

=============================================================================
