--------------------------- MODULE MCPlaybackSlot ---------------------------
(* Four attempts: three contend for one device, one has a device of its own. *)
EXTENDS PlaybackSlot, TLC

CONSTANTS a1, a2, a3, b1, kitchen, office

MCDeviceOf == (a1 :> kitchen) @@ (a2 :> kitchen) @@ (a3 :> kitchen) @@ (b1 :> office)

=============================================================================
