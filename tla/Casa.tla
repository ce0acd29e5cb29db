-------------------------------- MODULE Casa --------------------------------
(* What the modules of the background delivery share.                      *)
EXTENDS Naturals, SequencesExt

CONSTANTS
  Attempts,   \* the delivery attempts: (job_id, delivery_attempt_id) pairs
  Devices,    \* the Home Assistant devices
  None        \* stands for Python's None and for an absent map entry

ASSUME NoneAssumption == None \notin Attempts \cup Devices

\* OrderedDict: the keys in order of their last use; j becomes the last one.
MoveToEnd(log, j) ==
  IF Contains(log, j)
  THEN Append(RemoveAt(log, CHOOSE i \in 1 .. Len(log) : log[i] = j), j)
  ELSE Append(log, j)

=============================================================================
