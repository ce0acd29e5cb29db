--------------------------- MODULE Announcements ----------------------------
(***************************************************************************)
(* What the background delivery promises, without saying how.  To Casa:    *)
(* the offers for one device are served one at a time and in their order,  *)
(* a result is spoken only with the permission that was asked for it and   *)
(* has not lapsed, and only jobs that were heard are reported delivered.   *)
(* To the user: on each device one result at a time is spoken, and a job   *)
(* that was spoken to the end lately is not spoken again.                  *)
(***************************************************************************)
EXTENDS Casa

CONSTANTS
  DeviceOf,    \* the device each attempt is meant for
  Managers,    \* the delivery managers, one for each agent
  JobOf,       \* the job of each attempt
  ManagerOf,   \* the manager of each attempt
  LruSize      \* how many jobs a manager remembers

VARIABLES
  waiting,     \* the offers that wait for each agent and device, in order
  serving,     \* the attempt each agent serves on each device, or None
  permission,  \* to speak each attempt: "none", "asked", "granted" or "used"
  speaking,    \* the attempt each device speaks, or None
  heard,       \* the jobs heard to the end, in order of the last time
  reporting    \* the attempts whose job is being reported delivered

orderVars == <<waiting, serving>>
audioVars == <<speaking, heard, reporting>>
announcementVars == <<orderVars, permission, audioVars>>

AgentLanes == Managers \X Devices
Lane(k) == <<ManagerOf[k], DeviceOf[k]>>

HeardLately(m, j) ==
  \E i \in 1 .. Len(heard[m]) : heard[m][i] = j /\ Len(heard[m]) - i < LruSize

AnnouncementsInit ==
  /\ waiting = [lane \in AgentLanes |-> <<>>]
  /\ serving = [lane \in AgentLanes |-> None]
  /\ permission = [k \in Attempts |-> "none"]
  /\ speaking = [d \in Devices |-> None]
  /\ heard = [m \in Managers |-> <<>>]
  /\ reporting = {}

\* Casa offers k, which neither waits nor is being served.
Offer(k) ==
  /\ ~Contains(waiting[Lane(k)], k)
  /\ serving[Lane(k)] # k
  /\ waiting' = [waiting EXCEPT ![Lane(k)] = Append(@, k)]
  /\ UNCHANGED <<serving, permission, audioVars>>

\* The next offer has its turn.
Serve(k) ==
  /\ serving[Lane(k)] = None
  /\ waiting[Lane(k)] # <<>>
  /\ Head(waiting[Lane(k)]) = k
  /\ waiting' = [waiting EXCEPT ![Lane(k)] = Tail(@)]
  /\ serving' = [serving EXCEPT ![Lane(k)] = k]
  /\ UNCHANGED <<permission, audioVars>>

Ask(k) ==
  /\ serving[Lane(k)] = k
  /\ permission[k] = "none"
  /\ permission' = [permission EXCEPT ![k] = "asked"]
  /\ UNCHANGED <<orderVars, audioVars>>

\* Casa permits what it was asked for.
Grant(k) ==
  /\ permission[k] = "asked"
  /\ permission' = [permission EXCEPT ![k] = "granted"]
  /\ UNCHANGED <<orderVars, audioVars>>

\* Casa revokes the offer, the lease is lost, or the delivery gives up.
Lapse(k) ==
  /\ permission' = [permission EXCEPT ![k] = "none"]
  /\ UNCHANGED <<orderVars, audioVars>>

\* Casa is told that k is about to be spoken, as it permitted.
Tell(k) ==
  /\ permission[k] = "granted"
  /\ permission' = [permission EXCEPT ![k] = "used"]
  /\ UNCHANGED <<orderVars, audioVars>>

\* What Casa was told of is spoken.
Begin(k) ==
  /\ serving[Lane(k)] = k
  /\ permission[k] = "used"
  /\ speaking[DeviceOf[k]] = None
  /\ ~HeardLately(ManagerOf[k], JobOf[k])
  /\ permission' = [permission EXCEPT ![k] = "none"]
  /\ speaking' = [speaking EXCEPT ![DeviceOf[k]] = k]
  /\ UNCHANGED <<orderVars, heard, reporting>>

\* The job was heard to the end; its report begins with that.
Complete(k) ==
  /\ speaking[DeviceOf[k]] = k
  /\ speaking' = [speaking EXCEPT ![DeviceOf[k]] = None]
  /\ heard' = [heard EXCEPT ![ManagerOf[k]] = MoveToEnd(@, JobOf[k])]
  /\ reporting' = reporting \cup {k}
  /\ UNCHANGED <<orderVars, permission>>

\* The announcement failed, or its manager was closed.
BreakOff(k) ==
  /\ speaking[DeviceOf[k]] = k
  /\ speaking' = [speaking EXCEPT ![DeviceOf[k]] = None]
  /\ UNCHANGED <<orderVars, permission, heard, reporting>>

ReportAgain(k) ==
  /\ serving[Lane(k)] = k
  /\ Contains(heard[ManagerOf[k]], JobOf[k])
  /\ reporting' = reporting \cup {k}
  /\ UNCHANGED <<orderVars, permission, speaking, heard>>

\* The report reached Casa, or did not.
ReportEnds(k) ==
  /\ reporting' = reporting \ {k}
  /\ UNCHANGED <<orderVars, permission, speaking, heard>>

\* The turn of k is over, in silence, and leaves nothing behind.
TurnOver(k) ==
  /\ serving[Lane(k)] = k
  /\ speaking[DeviceOf[k]] # k
  /\ serving' = [serving EXCEPT ![Lane(k)] = None]
  /\ permission' = [permission EXCEPT ![k] = "none"]
  /\ reporting' = reporting \ {k}
  /\ UNCHANGED <<waiting, speaking, heard>>

\* m, which serves nobody, forgets the offers that wait.
Close(m) ==
  /\ \A d \in Devices : serving[<<m, d>>] = None
  /\ waiting' = [lane \in AgentLanes |-> IF lane[1] = m THEN <<>> ELSE waiting[lane]]
  /\ UNCHANGED <<serving, permission, audioVars>>

AnnouncementsNext ==
  \/ \E k \in Attempts :
       \/ Offer(k) \/ Serve(k) \/ Ask(k) \/ Grant(k) \/ Lapse(k) \/ Tell(k)
       \/ Begin(k) \/ Complete(k) \/ BreakOff(k) \/ ReportAgain(k) \/ ReportEnds(k)
       \/ TurnOver(k)
  \/ \E m \in Managers : Close(m)

AnnouncementsSpec == AnnouncementsInit /\ [][AnnouncementsNext]_announcementVars

=============================================================================
