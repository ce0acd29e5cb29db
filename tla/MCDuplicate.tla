----------------------------- MODULE MCDuplicate -----------------------------
(* Two forms for one endpoint, filled in at the same time.                   *)
EXTENDS ConfigFlow, TLC

CONSTANTS one, another

=============================================================================
