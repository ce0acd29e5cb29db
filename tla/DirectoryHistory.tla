-------------------------- MODULE DirectoryHistory --------------------------
(***************************************************************************)
(* The satellite directory with a history beside it: the last instant at   *)
(* which each satellite was reported busy.  No action reads it; what the   *)
(* directory says of an idle stretch is measured against it.               *)
(***************************************************************************)
EXTENDS SatelliteDirectory

VARIABLE busyAt   \* history: the last busy report of each known satellite, or None

historyVars == <<now, directoryVars, busyAt>>

HistoryInit == DirectoryInit /\ busyAt = [e \in Entities |-> None]

\* A busy satellite is busy at every instant until another report.
RecordBusy ==
  busyAt' = [e \in Entities |->
    IF entityStates'[e] = "busy" THEN now'
    ELSE IF entityStates'[e] = None THEN None ELSE busyAt[e]]

HistoryNext == DirectoryNext /\ RecordBusy

HistorySpec == HistoryInit /\ [][HistoryNext]_historyVars

-----------------------------------------------------------------------------

\* The idle stretch a delivery measures for its stability window never reaches
\* back before the last instant at which the satellite was busy.
IdleStretchIsUnbroken ==
  \A e \in Entities :
    entityStates[e] = "idle" /\ busyAt[e] # None => entityIdleSince[e] >= busyAt[e]

=============================================================================
