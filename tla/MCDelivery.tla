----------------------------- MODULE MCDelivery -----------------------------
(* Two agents, butler and concierge, each with one job for the kitchen, which *)
(* has one satellite.  The concierge wants a stability interval of one.       *)
EXTENDS Delivery, TLC

CONSTANTS b1, c1, butler, concierge, kitchen, speaker, butlerJob, conciergeJob

MCDeviceOf == (b1 :> kitchen) @@ (c1 :> kitchen)
MCJobOf == (b1 :> butlerJob) @@ (c1 :> conciergeJob)
MCManagerOf == (b1 :> butler) @@ (c1 :> concierge)
MCExpires == (b1 :> 2) @@ (c1 :> 2)
MCStability == (butler :> 0) @@ (concierge :> 1)
MCOverride == kitchen :> None

=============================================================================
