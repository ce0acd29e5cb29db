----------------------------- MODULE MCRebind -------------------------------
(* One agent with two jobs for the kitchen, and two satellites that may be    *)
(* moved between kitchen and office, meet in one of them, or be removed.      *)
EXTENDS Delivery, TLC

CONSTANTS k1, k2, butler, kitchen, office, speaker, tablet, job, other

MCDeviceOf == [k \in Attempts |-> kitchen]
MCJobOf == (k1 :> job) @@ (k2 :> other)
MCManagerOf == [k \in Attempts |-> butler]
MCExpires == [k \in Attempts |-> 2]
MCStability == butler :> 1
MCOverride == (kitchen :> None) @@ (office :> None)

=============================================================================
