------------------------------ MODULE Delivery ------------------------------
(***************************************************************************)
(* BackgroundDeliveryManager (delivery.py): the Home Assistant side of     *)
(* Casa's background jobs.  Casa offers a finished job (job_ready); the    *)
(* manager claims it, waits for the playback slot of the device and for a  *)
(* stably idle satellite, asks Casa for authorization, announces the       *)
(* result, and reports the outcome.  Each agent has a manager of its own;  *)
(* all managers share one SatelliteDirectory and its playback slots.       *)
(*                                                                         *)
(* An attempt is a (job_id, delivery_attempt_id) pair; pc[k] is the await  *)
(* at which the worker of attempt k is suspended ("none": not in           *)
(* _attempts).  A send is two steps, since the worker is suspended in it:  *)
(* the worker enters the state named for the frame, and leaves it when the *)
(* client took the frame or raised.                                        *)
(*   queued        in the queue of its device                              *)
(*   revoking      sending job_revoked                                     *)
(*   reclaiming    sending job_claimed for a job delivered before          *)
(*   claiming      sending job_claimed                                     *)
(*   slotWait      in playback_slot, waiting for the lock                  *)
(*   inSlot        about to evaluate the loop of _wait_for_stable_idle     *)
(*   idleWait      in _wait_event_or_timeout                               *)
(*   starting      sending job_delivery_start                              *)
(*   authWait      in _wait_authorization                                  *)
(*   authorized, refused   leaving _wait_authorization with that answer    *)
(*   notifying     sending job_playback_started                            *)
(*   playing       in assist_satellite.announce                            *)
(*   acking        sending job_delivered                                   *)
(*   nacking       sending job_nack                                        *)
(*   unwinding     awaiting the cancelled lease renewer                    *)
(***************************************************************************)
EXTENDS PlaybackSlot, SatelliteDirectory

CONSTANTS
  Managers,    \* the delivery managers, one for each agent
  Jobs,        \* the background jobs
  JobOf,       \* job_id of each attempt
  ManagerOf,   \* the manager whose route_id each attempt names
  Expires,     \* expires_at of each attempt
  Stability,   \* _idle_stability_s of each manager
  LruSize,     \* _DELIVERED_LRU_SIZE
  Closable     \* bound: the managers that may be closed

\* Casa offers all attempts of a job to one agent, for one device.
ASSUME DeliveryConstants ==
  /\ JobOf \in [Attempts -> Jobs]
  /\ ManagerOf \in [Attempts -> Managers]
  /\ Expires \in [Attempts -> 1 .. MaxTime]
  /\ Stability \in [Managers -> Nat]
  /\ LruSize \in Nat \ {0}
  /\ Closable \subseteq Managers
  /\ \A a, b \in Attempts : JobOf[a] = JobOf[b] =>
       DeviceOf[a] = DeviceOf[b] /\ ManagerOf[a] = ManagerOf[b]

VARIABLES
  managerState,    \* _closed, and whether close() has returned
  queues,          \* _queues, by manager and device
  workers,         \* _workers: the manager and device pairs that have one
  delivered,       \* _delivered: the job ids, least recent first
  nackSends,       \* _owned_tasks: detached nacks of offers that were refused
  pc,              \* where the worker of each attempt is suspended
  entity,          \* delivery.entity_id
  deadline,        \* when the timeout of _wait_event_or_timeout fires
  authorization,   \* _authorization: "none", "pending", "granted", "denied"
  revoked,         \* delivery.revoked
  leaseLost,       \* delivery.lease_lost
  renewing,        \* the attempts whose lease renewer runs
  announced        \* history: the jobs each manager announced, in order of last time

managerVars == <<managerState, queues, workers, nackSends>>
memoryVars == <<delivered, announced>>
flagVars == <<entity, revoked, leaseLost>>
taskVars == <<pc, deadline, authorization, renewing>>
deliveryVars == <<managerVars, memoryVars, flagVars, taskVars>>
vars == <<deliveryVars, slotVars, now, directoryVars>>

Lanes == Managers \X Devices
LaneOf(k) == <<ManagerOf[k], DeviceOf[k]>>
Open(k) == managerState[ManagerOf[k]] = "open"

\* `job_id in self._delivered`.
Remembered(k) == Contains(delivered[ManagerOf[k]], JobOf[k])

DeliveryInit ==
  /\ SlotInit
  /\ DirectoryInit
  /\ managerState = [m \in Managers |-> "open"]
  /\ queues = [lane \in Lanes |-> <<>>]
  /\ workers = {}
  /\ delivered = [m \in Managers |-> <<>>]
  /\ nackSends = {}
  /\ pc = [k \in Attempts |-> "none"]
  /\ entity = [k \in Attempts |-> None]
  /\ deadline = [k \in Attempts |-> None]
  /\ authorization = [k \in Attempts |-> "none"]
  /\ revoked = {}
  /\ leaseLost = {}
  /\ renewing = {}
  /\ announced = [m \in Managers |-> <<>>]

-----------------------------------------------------------------------------
(* The frames Casa sends, and the detached nack.                           *)

InProgress(k) == pc[k] \notin {"none", "queued"}
LaneBusy(lane) == \E k \in Attempts : LaneOf(k) = lane /\ InProgress(k)

\* handle_frame, job_ready: a known attempt and an expired offer are ignored, a
\* device without one satellite is refused unless its job was delivered before,
\* and otherwise the offer is queued and the device given a worker.
\* Bound: one detached nack of an attempt at a time.
JobReady(k) ==
  LET e == IF Remembered(k) THEN None ELSE Resolve(DeviceOf[k])
      refuse == ~Remembered(k) /\ e = None
  IN
  /\ Open(k)
  /\ pc[k] = "none"
  /\ now < Expires[k]
  /\ k \notin nackSends
  /\ \/ /\ refuse
        /\ nackSends' = nackSends \cup {k}
        /\ UNCHANGED <<pc, entity, queues, workers>>
     \/ /\ ~refuse
        /\ pc' = [pc EXCEPT ![k] = "queued"]
        /\ entity' = [entity EXCEPT ![k] = e]
        /\ queues' = [queues EXCEPT ![LaneOf(k)] = Append(@, k)]
        /\ workers' = workers \cup {LaneOf(k)}
        /\ UNCHANGED nackSends
  /\ UNCHANGED <<managerState, memoryVars, revoked, leaseLost, deadline,
                 authorization, renewing, slotVars, now, directoryVars>>

\* The detached nack was sent, failed, or was cancelled by close.
NackSent(k) ==
  /\ k \in nackSends
  /\ nackSends' = nackSends \ {k}
  /\ UNCHANGED <<managerState, queues, workers, memoryVars, flagVars, taskVars,
                 slotVars, now, directoryVars>>

\* handle_frame, job_delivery_authorized: it counts only while pending.
JobAuthorized(k) ==
  /\ Open(k)
  /\ authorization[k] = "pending"
  /\ authorization' = [authorization EXCEPT ![k] = "granted"]
  /\ UNCHANGED <<managerVars, memoryVars, flagVars, pc, deadline, renewing,
                 slotVars, now, directoryVars>>

\* phase = "playing", which outlasts the announcement.
PlayingPhase(k) == pc[k] \in {"playing", "acking"} /\ UsesSlot(k)

\* handle_frame, job_revoke: too late once the phase is "playing".
JobRevoke(k) ==
  /\ Open(k)
  /\ pc[k] # "none"
  /\ ~PlayingPhase(k)
  /\ revoked' = revoked \cup {k}
  /\ authorization' = [authorization EXCEPT ![k] = IF @ = "pending" THEN "denied" ELSE @]
  /\ UNCHANGED <<managerVars, memoryVars, entity, leaseLost, pc, deadline, renewing,
                 slotVars, now, directoryVars>>

-----------------------------------------------------------------------------
(* The ways a delivery ends.                                               *)

\* Defect: the worker retires after each delivery, whatever waits in the queue.
RetiresWithWork(k) == workers' = IF Open(k) THEN workers \ {LaneOf(k)} ELSE workers

\* The worker of a drained queue retires.  A cancelled one just ends.
RetireWorker(k) ==
  workers' = IF Open(k) /\ queues[LaneOf(k)] = <<>> THEN workers \ {LaneOf(k)} ELSE workers

\* The end of a round of _worker: the attempt is forgotten.
ForgetAttempt(k) ==
  /\ pc' = [pc EXCEPT ![k] = "none"]
  /\ RetireWorker(k)
  /\ entity' = [entity EXCEPT ![k] = None]
  /\ revoked' = revoked \ {k}
  /\ leaseLost' = leaseLost \ {k}

\* Defect: the renewer is not cancelled with its delivery.
LeavesRenewer(k) == UNCHANGED renewing

StopRenewer(k) == renewing' = renewing \ {k}

\* _deliver returns or raises: a delivery inside playback_slot leaves it and
\* cancels its renewer, which it then awaits; any other ends right here.
EndDelivery(k) ==
  \/ /\ UsesSlot(k)
     /\ ReleaseSlot(k)
     /\ StopRenewer(k)
     /\ pc' = [pc EXCEPT ![k] = "unwinding"]
     /\ UNCHANGED <<workers, flagVars>>
  \/ /\ ~UsesSlot(k)
     /\ ForgetAttempt(k)
     /\ UNCHANGED <<renewing, slotVars>>

\* The pending authorization is popped when its try block is left.
DropAuthorization(k) == authorization' = [authorization EXCEPT ![k] = "none"]

\* k goes on to wait in state next; nothing but its pc moves.
GoTo(k, next) ==
  /\ pc' = [pc EXCEPT ![k] = next]
  /\ UNCHANGED <<workers, flagVars, renewing, slotVars>>

\* Defect: a lost lease is not looked at.
AnswersWithoutLease(k) == GoTo(k, IF k \in revoked THEN "revoking" ELSE "nacking")

\* _abort_idle_wait, _abort_preplay and the unauthorized exit: silence after a
\* lost lease, job_revoked after a revocation, job_nack otherwise.
Abort(k) ==
  IF k \in leaseLost THEN EndDelivery(k)
  ELSE GoTo(k, IF k \in revoked THEN "revoking" ELSE "nacking")

-----------------------------------------------------------------------------
(* The worker.                                                             *)

\* Defect: the cache is consulted when the offer comes, and no more.
NoSecondLook(k) ==
  CASE k \in revoked -> "revoking"
    [] k \notin revoked /\ entity[k] = None -> "reclaiming"
    [] OTHER -> "claiming"

\* The first frame of _deliver: a revoked delivery is acknowledged, one whose job
\* was delivered is reported again, any other is claimed.
FirstFrame(k) ==
  CASE k \in revoked -> "revoking"
    [] k \notin revoked /\ Remembered(k) -> "reclaiming"
    [] OTHER -> "claiming"

\* _worker takes the next delivery and _deliver begins.
StartDelivery(k) ==
  LET lane == LaneOf(k) IN
  /\ Open(k)
  /\ lane \in workers
  /\ ~LaneBusy(lane)
  /\ queues[lane] # <<>>
  /\ Head(queues[lane]) = k
  /\ queues' = [queues EXCEPT ![lane] = Tail(@)]
  /\ GoTo(k, FirstFrame(k))
  /\ UNCHANGED <<managerState, nackSends, memoryVars, deadline, authorization,
                 now, directoryVars>>

\* job_claimed was sent: the renewer starts and the slot is asked for.
ClaimSent(k) ==
  /\ Open(k)
  /\ pc[k] = "claiming"
  /\ renewing' = renewing \cup {k}
  /\ RequestSlot(k)
  /\ pc' = [pc EXCEPT ![k] = IF HoldsSlot(k)' THEN "inSlot" ELSE "slotWait"]
  /\ UNCHANGED <<managerVars, memoryVars, flagVars, deadline, authorization,
                 now, directoryVars>>

SlotGranted(k) ==
  /\ Open(k)
  /\ pc[k] = "slotWait"
  /\ GrantSlot(k)
  /\ pc' = [pc EXCEPT ![k] = "inSlot"]
  /\ UNCHANGED <<managerVars, memoryVars, flagVars, renewing, deadline,
                 authorization, now, directoryVars>>

Expired(k) == now >= Expires[k]
Withdrawn(k) == Expired(k) \/ k \in revoked \/ k \in leaseLost

\* The satellite found when the offer came is still the one of the device, and
\* is stably idle.  (A reoffer of a remembered job is given no satellite.)
SameSatellite(k) == entity[k] # None /\ Resolve(DeviceOf[k]) = entity[k]
StablyIdle(k) ==
  /\ entityStates[entity[k]] = "idle"
  /\ now - entityIdleSince[entity[k]] >= Stability[ManagerOf[k]]

\* Defect: the satellite found when the offer came is trusted.
TrustsOldBinding(k) == ~Withdrawn(k) /\ entity[k] # None /\ StablyIdle(k)

\* Defect: a revocation or expiry meanwhile is not looked at.
ClaimIgnoresWithdrawal(k) == SameSatellite(k) /\ StablyIdle(k)

\* _has_current_stable_idle_claim.
HasClaim(k) == ~Withdrawn(k) /\ SameSatellite(k) /\ StablyIdle(k)

\* The timeout of the wait: the end of the stability window of an idle
\* satellite, and in any case the expiry of the offer.
WaitUntil(k) ==
  LET e == entity[k]
      stable == entityIdleSince[e] + Stability[ManagerOf[k]]
  IN IF entityStates[e] = "idle" /\ stable < Expires[k] THEN stable ELSE Expires[k]

\* One round of _wait_for_stable_idle.  A round that succeeds goes on to the
\* authorization request, without a suspension: its claim check discards the
\* event of the device.
IdleCheck(k) ==
  LET d == DeviceOf[k] IN
  /\ Open(k)
  /\ pc[k] = "inSlot"
  /\ \/ /\ Withdrawn(k)
        /\ Abort(k)
        /\ UNCHANGED <<eventVars, deadline, authorization>>
     \/ /\ ~Withdrawn(k)
        /\ ~SameSatellite(k)
        /\ Abort(k)
        /\ IF Resolve(d) = None
           THEN DiscardEvent(d)
           ELSE deviceEvents' = deviceEvents \cup {d} /\ UNCHANGED <<listeners, pulsed>>
        /\ UNCHANGED <<deadline, authorization>>
     \/ /\ HasClaim(k)
        /\ DiscardEvent(d)
        /\ authorization' = [authorization EXCEPT ![k] = "pending"]
        /\ GoTo(k, "starting")
        /\ UNCHANGED deadline
     \/ /\ ~Withdrawn(k)
        /\ SameSatellite(k)
        /\ ~StablyIdle(k)
        /\ Listen(k, d)
        /\ deadline' = [deadline EXCEPT ![k] = WaitUntil(k)]
        /\ GoTo(k, "idleWait")
        /\ UNCHANGED authorization
  /\ UNCHANGED <<managerState, queues, nackSends, memoryVars, now, registryVars>>

\* Defect: the wait has no timeout.
SleepsThroughDeadline(k) == k \in pulsed \/ k \in revoked \/ k \in leaseLost

\* One of the four things _wait_event_or_timeout waits for has happened.
Awakened(k) == k \in pulsed \/ k \in revoked \/ k \in leaseLost \/ now >= deadline[k]

\* _wait_event_or_timeout returns.
Wake(k) ==
  /\ Open(k)
  /\ pc[k] = "idleWait"
  /\ Awakened(k)
  /\ StopListening(k)
  /\ deadline' = [deadline EXCEPT ![k] = None]
  /\ GoTo(k, "inSlot")
  /\ UNCHANGED <<managerState, queues, nackSends, memoryVars, authorization, now,
                 registryVars>>

\* Defect: whoever is not refused in time goes on.
TimeoutIsConsent(k) ==
  /\ Open(k)
  /\ pc[k] = "authWait"
  /\ GoTo(k, IF authorization[k] # "denied" THEN "authorized" ELSE "refused")
  /\ UNCHANGED <<managerState, queues, nackSends, memoryVars, deadline, authorization,
                 now, directoryVars>>

\* _wait_authorization decides.  Its ten seconds may be over at any time.
AuthorizationDecided(k) ==
  /\ Open(k)
  /\ pc[k] = "authWait"
  /\ GoTo(k, IF authorization[k] = "granted" THEN "authorized" ELSE "refused")
  /\ UNCHANGED <<managerState, queues, nackSends, memoryVars, deadline, authorization,
                 now, directoryVars>>

\* Back from _wait_authorization: a refusal ends the delivery; after a grant
\* the claim is checked before job_playback_started.
AuthorizationReturned(k) ==
  /\ Open(k)
  /\ pc[k] \in {"authorized", "refused"}
  /\ DropAuthorization(k)
  /\ \/ /\ pc[k] = "refused"
        /\ Abort(k)
        /\ UNCHANGED eventVars
     \/ /\ pc[k] = "authorized"
        /\ IF HasClaim(k) THEN GoTo(k, "notifying") ELSE Abort(k)
        /\ DiscardEvent(DeviceOf[k])
  /\ UNCHANGED <<managerState, queues, nackSends, memoryVars, deadline, now, registryVars>>

\* job_playback_started was sent: the claim is checked once more, and the
\* announcement begins.
PlaybackStartedSent(k) ==
  /\ Open(k)
  /\ pc[k] = "notifying"
  /\ IF HasClaim(k) THEN GoTo(k, "playing") ELSE Abort(k)
  /\ DiscardEvent(DeviceOf[k])
  /\ UNCHANGED <<managerState, queues, nackSends, memoryVars, deadline, authorization,
                 now, registryVars>>

\* Defect: the route is remembered in place of the job.
RemembersRoute(m, j) ==
  LET log == MoveToEnd(delivered[m], m) IN
  delivered' = [delivered EXCEPT ![m] = IF Len(log) > LruSize THEN Tail(log) ELSE log]

\* _remember_delivered: the cache keeps the LruSize latest jobs.
RememberDelivered(m, j) ==
  LET log == MoveToEnd(delivered[m], j) IN
  delivered' = [delivered EXCEPT ![m] = IF Len(log) > LruSize THEN Tail(log) ELSE log]

\* The announcement is over: the job is remembered, then reported.
AnnounceDone(k) ==
  LET m == ManagerOf[k] IN
  /\ Open(k)
  /\ pc[k] = "playing"
  /\ announced' = [announced EXCEPT ![m] = MoveToEnd(@, JobOf[k])]
  /\ RememberDelivered(m, JobOf[k])
  /\ GoTo(k, "acking")
  /\ UNCHANGED <<managerState, queues, nackSends, deadline, authorization, now, directoryVars>>

\* A frame was sent after which the worker goes on at once.
FrameSent(k) ==
  /\ Open(k)
  /\ \/ pc[k] = "starting" /\ GoTo(k, "authWait")
     \/ pc[k] = "reclaiming" /\ GoTo(k, "acking")
     \/ pc[k] \in {"revoking", "nacking", "acking"} /\ EndDelivery(k)
  /\ UNCHANGED <<managerState, queues, nackSends, memoryVars, deadline, authorization,
                 now, directoryVars>>

Sending == {"revoking", "reclaiming", "claiming", "starting", "notifying",
            "acking", "nacking"}

\* A send or the announcement raises: the worker logs it, and sends nothing.
DeliveryFails(k) ==
  /\ Open(k)
  /\ pc[k] \in Sending \cup {"playing"}
  /\ EndDelivery(k)
  /\ DropAuthorization(k)
  /\ UNCHANGED <<managerState, queues, nackSends, memoryVars, deadline, now, directoryVars>>

\* The renewer has ended: the finally block of _worker follows.
Finish(k) ==
  /\ pc[k] = "unwinding"
  /\ ForgetAttempt(k)
  /\ UNCHANGED <<managerState, queues, nackSends, memoryVars, deadline, authorization,
                 renewing, slotVars, now, directoryVars>>

\* A renewal could not be sent.  (One that was sent changes nothing here.)
RenewFails(k) ==
  /\ k \in renewing
  /\ renewing' = renewing \ {k}
  /\ leaseLost' = leaseLost \cup {k}
  /\ UNCHANGED <<managerVars, memoryVars, entity, revoked, pc, deadline,
                 authorization, slotVars, now, directoryVars>>

-----------------------------------------------------------------------------
(* close().                                                                *)

CloseBegin(m) ==
  /\ m \in Closable
  /\ managerState[m] = "open"
  /\ managerState' = [managerState EXCEPT ![m] = "closing"]
  /\ UNCHANGED <<queues, workers, nackSends, memoryVars, flagVars, taskVars,
                 slotVars, now, directoryVars>>

\* Defect: the announcement is shielded from the cancellation.
CancellableUnlessPlaying(k) == InProgress(k) /\ pc[k] \notin {"unwinding", "playing"}

\* The delivery of a cancelled worker that is not on its way out.
Cancellable(k) == InProgress(k) /\ pc[k] # "unwinding"

\* The cancelled worker raises CancelledError where it is suspended.
CancelDelivery(k) ==
  /\ ~Open(k)
  /\ Cancellable(k)
  /\ EndDelivery(k)
  /\ DropAuthorization(k)
  /\ StopListening(k)
  /\ deadline' = [deadline EXCEPT ![k] = None]
  /\ UNCHANGED <<managerState, queues, nackSends, memoryVars, now, registryVars>>

\* Every task has ended: the rest of the state is cleared.
CloseEnd(m) ==
  LET mine == {k \in Attempts : ManagerOf[k] = m} IN
  /\ managerState[m] = "closing"
  /\ \A k \in mine : ~InProgress(k) /\ k \notin nackSends
  /\ managerState' = [managerState EXCEPT ![m] = "closed"]
  /\ queues' = [lane \in Lanes |-> IF lane[1] = m THEN <<>> ELSE queues[lane]]
  /\ workers' = {lane \in workers : lane[1] # m}
  /\ delivered' = [delivered EXCEPT ![m] = <<>>]
  /\ pc' = [k \in Attempts |-> IF k \in mine THEN "none" ELSE pc[k]]
  /\ entity' = [k \in Attempts |-> IF k \in mine THEN None ELSE entity[k]]
  /\ revoked' = revoked \ mine
  /\ UNCHANGED <<nackSends, announced, leaseLost, deadline, authorization, renewing,
                 slotVars, now, directoryVars>>

-----------------------------------------------------------------------------

WorkerStep(k) ==
  \/ StartDelivery(k) \/ ClaimSent(k) \/ SlotGranted(k) \/ IdleCheck(k) \/ Wake(k)
  \/ AuthorizationDecided(k) \/ AuthorizationReturned(k) \/ PlaybackStartedSent(k)
  \/ AnnounceDone(k) \/ FrameSent(k) \/ DeliveryFails(k) \/ Finish(k) \/ CancelDelivery(k)

CasaStep(k) == JobReady(k) \/ JobAuthorized(k) \/ JobRevoke(k)

SatelliteStep ==
  /\ DirectoryChange
  /\ UNCHANGED <<deliveryVars, slotVars>>

ClockStep ==
  /\ Tick
  /\ UNCHANGED <<deliveryVars, slotVars>>

DeliveryNext ==
  \/ \E k \in Attempts : WorkerStep(k) \/ CasaStep(k) \/ RenewFails(k) \/ NackSent(k)
  \/ \E m \in Managers : CloseBegin(m) \/ CloseEnd(m)
  \/ SatelliteStep
  \/ ClockStep

DeliverySafety == DeliveryInit /\ [][DeliveryNext]_vars

\* Tasks that can run do run, time passes, sends and announcements end: with
\* success or with an exception.
DeliverySpec ==
  /\ DeliverySafety
  /\ \A k \in Attempts : WF_vars(WorkerStep(k)) /\ WF_vars(NackSent(k))
  /\ \A m \in Managers : WF_vars(CloseEnd(m))
  /\ WF_vars(ClockStep)

-----------------------------------------------------------------------------

Phases == {"none", "queued", "slotWait", "inSlot", "idleWait", "authWait", "authorized",
           "refused", "playing", "unwinding"} \cup Sending

DeliveryTypeOK ==
  /\ managerState \in [Managers -> {"open", "closing", "closed"}]
  /\ queues \in [Lanes -> Seq(Attempts)]
  /\ workers \in SUBSET Lanes
  /\ delivered \in [Managers -> Seq(Jobs)]
  /\ announced \in [Managers -> Seq(Jobs)]
  /\ nackSends \in SUBSET Attempts
  /\ pc \in [Attempts -> Phases]
  /\ entity \in [Attempts -> Entities \cup {None}]
  /\ deadline \in [Attempts -> 0 .. MaxTime \cup {None}]
  /\ authorization \in [Attempts -> {"none", "pending", "granted", "denied"}]
  /\ revoked \in SUBSET Attempts
  /\ leaseLost \in SUBSET Attempts
  /\ renewing \in SUBSET Attempts

\* "Serialize one device's playback across every agent manager": no satellite
\* speaks two results at once, whichever agents they come from.
OneAnnouncementPerDevice ==
  \A a, b \in Attempts :
    pc[a] = "playing" /\ pc[b] = "playing" /\ DeviceOf[a] = DeviceOf[b] => a = b

\* A delivery asleep in _wait_for_stable_idle has not missed a change, although
\* the deliveries before it discarded events of the device: it was woken, or
\* holds the current event and slept on the satellite and deadline it would
\* compute now.
ParkedHearsChanges ==
  \A k \in Attempts :
    pc[k] = "idleWait" =>
      \/ k \in pulsed
      \/ /\ k \in listeners[DeviceOf[k]]
         /\ Resolve(DeviceOf[k]) = entity[k]
         /\ deadline[k] = WaitUntil(k)

\* No offer is stranded between a worker that retires and one that starts: in
\* an open manager a queued attempt is in the queue of its device, which has a
\* worker; the worker has one delivery at a time, and is gone when idle.
EveryOfferHasAWorker ==
  \A k \in Attempts :
    /\ pc[k] = "queued" <=> Contains(queues[LaneOf(k)], k)
    /\ Open(k) => (LaneOf(k) \in workers <=>
                     \E x \in Attempts : LaneOf(x) = LaneOf(k) /\ pc[x] # "none")
    /\ \A x \in Attempts :
         LaneOf(x) = LaneOf(k) /\ InProgress(x) /\ InProgress(k) => x = k

\* j is among the LruSize jobs that m announced last.
LatelyAnnounced(m, j) ==
  \E i \in 1 .. Len(announced[m]) :
    announced[m][i] = j /\ Len(announced[m]) - i < LruSize

\* k begins its announcement.
Begins(k) == pc[k] # "playing" /\ pc'[k] = "playing"

\* A reoffer is reported "without repeating the audio" (README): a job among
\* the latest announced ones is never announced again, by another attempt or by
\* the same one, whatever became of its job_delivered.
NoRepeatedAnnouncement ==
  [][\A k \in Attempts : Begins(k) => ~LatelyAnnounced(ManagerOf[k], JobOf[k])]_vars

\* Nothing is spoken at the wrong moment: where an announcement begins, its offer
\* is neither expired nor revoked, its lease is kept, and its satellite is the
\* only one of the device and has been idle for the stability interval, also
\* when things changed while authorization and frames were on their way.
PlaybackStartsEntitled ==
  [][\A k \in Attempts : Begins(k) =>
       /\ now < Expires[k]
       /\ k \notin revoked \cup leaseLost
       /\ \E e \in deviceEntities[DeviceOf[k]] :
            /\ deviceEntities[DeviceOf[k]] = {e} \/ Override[DeviceOf[k]] = e
            /\ entity[k] = e
            /\ entityStates[e] = "idle"
            /\ entityIdleSince[e] + Stability[ManagerOf[k]] <= now]_vars

\* After a lost lease the attempt may be someone else's: no frame is begun for
\* it any more, but the report of an announcement that was under way.
LeaseLossSilences ==
  [][\A k \in Attempts :
       k \in leaseLost /\ pc'[k] # pc[k] /\ pc'[k] \in Sending => pc'[k] = "acking"]_vars

\* Nothing of an ended delivery stays behind: renewers, slot users, listeners and
\* pending authorizations belong to deliveries in progress.
NothingLeaks ==
  /\ renewing \subseteq {k \in Attempts : UsesSlot(k)}
  /\ \A k \in Attempts :
       /\ UsesSlot(k) => pc[k] \notin {"none", "queued", "claiming", "reclaiming", "unwinding"}
       /\ k \in pulsed \cup UNION {listeners[d] : d \in Devices} => pc[k] = "idleWait"
       /\ authorization[k] # "none" =>
            pc[k] \in {"starting", "authWait", "authorized", "refused"}
       /\ managerState[ManagerOf[k]] = "closed" =>
            pc[k] = "none" /\ k \notin nackSends /\ LaneOf(k) \notin workers

\* Every attempt comes to an end: no queue, slot or satellite keeps one forever.
EveryOfferEnds == \A k \in Attempts : pc[k] # "none" ~> pc[k] = "none"

\* close() returns.
CloseCompletes ==
  \A m \in Managers : managerState[m] = "closing" ~> managerState[m] = "closed"

=============================================================================
