----------------------------- MODULE MCReoffer ------------------------------
(* One agent.  Two attempts of one job, both of which Casa may offer again    *)
(* and again, and an attempt of another job that competes for the one place   *)
(* of the delivered cache.                                                    *)
EXTENDS DeliveryRefinement, TLC

CONSTANTS first, retry, other, butler, kitchen, speaker, job, otherJob

MCDeviceOf == [k \in Attempts |-> kitchen]
MCJobOf == (first :> job) @@ (retry :> job) @@ (other :> otherJob)
MCManagerOf == [k \in Attempts |-> butler]
MCExpires == [k \in Attempts |-> 1]
MCStability == butler :> 0
MCOverride == kitchen :> None

=============================================================================
