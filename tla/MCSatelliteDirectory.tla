------------------------ MODULE MCSatelliteDirectory ------------------------
(* Two devices, one of them with a fixed satellite, two satellites that move *)
(* between them, two deliveries that wait.                                   *)
EXTENDS DirectoryHistory, TLC

CONSTANTS k1, k2, kitchen, office, speaker, tablet

MCOverride == (kitchen :> None) @@ (office :> tablet)

=============================================================================
