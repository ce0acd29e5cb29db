----------------------------- MODULE MCLiveness -----------------------------
(* The instance of MCDelivery with offers that expire at once.               *)
EXTENDS Delivery, TLC

CONSTANTS b1, c1, butler, concierge, kitchen, speaker, butlerJob, conciergeJob

MCDeviceOf == (b1 :> kitchen) @@ (c1 :> kitchen)
MCJobOf == (b1 :> butlerJob) @@ (c1 :> conciergeJob)
MCManagerOf == (b1 :> butler) @@ (c1 :> concierge)
MCExpires == (b1 :> 1) @@ (c1 :> 1)
MCStability == (butler :> 0) @@ (concierge :> 1)
MCOverride == kitchen :> None

=============================================================================
