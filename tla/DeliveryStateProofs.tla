------------------------ MODULE DeliveryStateProofs ------------------------
(* Deliveries leave nothing behind, are silent after a lost lease, and      *)
(* speak only with every right to, for any number of agents, attempts,      *)
(* devices and satellites.                                                  *)
EXTENDS DeliveryProofs, SatelliteDirectoryProofs

-----------------------------------------------------------------------------
(* The directory under the steps of the managers.                           *)

\* What a delivery does to the events of the directory.
EventStep ==
  /\ UNCHANGED <<now, registryVars>>
  /\ \/ UNCHANGED eventVars
     \/ \E d \in Devices : DiscardEvent(d)
     \/ \E d \in Devices, k \in Attempts : Resolve(d) # None /\ Listen(k, d)
     \/ \E d \in Devices :
          /\ Resolve(d) # None
          /\ deviceEvents' = deviceEvents \cup {d}
          /\ UNCHANGED <<listeners, pulsed>>
     \/ \E k \in Attempts : StopListening(k)

\* Such a step keeps the maps of the directory and its events in order.
LEMMA EventStepInv ==
  ASSUME DirectoryInv, EventStep
  PROVE  DirectoryInv'
<1>1. RegistryMapsAgree'
  BY DEF EventStep, DirectoryInv, RegistryMapsAgree, registryVars
<1>2. \A d \in Devices : Resolve(d) # None => deviceEntities[d] # {}
  BY ResolvedIsListed
<1>3. DirectoryTypeOK' /\ DepartedDevicesLeaveNoEvent'
  <2> USE DEF DirectoryInv, DirectoryTypeOK, DepartedDevicesLeaveNoEvent, registryVars
  <2>1. CASE UNCHANGED eventVars
    BY <2>1 DEF EventStep, eventVars
  <2>2. ASSUME NEW d \in Devices, DiscardEvent(d)
        PROVE  DirectoryTypeOK' /\ DepartedDevicesLeaveNoEvent'
    BY <2>2 DEF EventStep, DiscardEvent
  <2>3. ASSUME NEW d \in Devices, NEW k \in Attempts, Resolve(d) # None, Listen(k, d)
        PROVE  DirectoryTypeOK' /\ DepartedDevicesLeaveNoEvent'
    BY <1>2, <2>3 DEF EventStep, Listen
  <2>4. ASSUME NEW d \in Devices, Resolve(d) # None,
               deviceEvents' = deviceEvents \cup {d}, UNCHANGED <<listeners, pulsed>>
        PROVE  DirectoryTypeOK' /\ DepartedDevicesLeaveNoEvent'
    BY <1>2, <2>4 DEF EventStep
  <2>5. ASSUME NEW k \in Attempts, StopListening(k)
        PROVE  DirectoryTypeOK' /\ DepartedDevicesLeaveNoEvent'
    BY <2>5 DEF EventStep, StopListening
  <2> QED BY <2>1, <2>2, <2>3, <2>4, <2>5 DEF EventStep
<1> QED BY <1>1, <1>3 DEF DirectoryInv

\* A worker changes events only.
LEMMA WorkerEventStep ==
  ASSUME NEW k \in Attempts, WorkerStep(k)
  PROVE  EventStep
<1> USE DEF EventStep, directoryVars
<1>0. DeviceOf[k] \in Devices
  BY SlotConstants
<1>1. CASE StartDelivery(k)
  BY <1>1 DEF StartDelivery
<1>2. CASE ClaimSent(k)
  BY <1>2 DEF ClaimSent
<1>3. CASE SlotGranted(k)
  BY <1>3 DEF SlotGranted
<1>4. CASE IdleCheck(k)
  <2>1. UNCHANGED <<now, registryVars>>
    BY <1>4 DEF IdleCheck
  <2>2. SameSatellite(k) => Resolve(DeviceOf[k]) # None
    BY DEF SameSatellite
  <2> HIDE DEF EventStep
  <2>3. \/ UNCHANGED eventVars
        \/ DiscardEvent(DeviceOf[k])
        \/ /\ Resolve(DeviceOf[k]) # None
           /\ deviceEvents' = deviceEvents \cup {DeviceOf[k]}
           /\ UNCHANGED <<listeners, pulsed>>
        \/ Resolve(DeviceOf[k]) # None /\ Listen(k, DeviceOf[k])
    BY <1>4, <2>2 DEF IdleCheck
  <2> QED BY <1>0, <2>1, <2>3 DEF EventStep
<1>5. CASE Wake(k)
  BY <1>5 DEF Wake
<1>6. CASE AuthorizationDecided(k)
  BY <1>6 DEF AuthorizationDecided
<1>7. CASE AuthorizationReturned(k)
  BY <1>0, <1>7 DEF AuthorizationReturned
<1>8. CASE PlaybackStartedSent(k)
  BY <1>0, <1>8 DEF PlaybackStartedSent
<1>9. CASE AnnounceDone(k)
  BY <1>9 DEF AnnounceDone
<1>10. CASE FrameSent(k)
  BY <1>10 DEF FrameSent
<1>11. CASE DeliveryFails(k)
  BY <1>11 DEF DeliveryFails
<1>12. CASE Finish(k)
  BY <1>12 DEF Finish
<1>13. CASE CancelDelivery(k)
  BY <1>13 DEF CancelDelivery
<1> QED BY <1>1, <1>2, <1>3, <1>4, <1>5, <1>6, <1>7, <1>8, <1>9, <1>10, <1>11, <1>12, <1>13
        DEF WorkerStep

\* The directory keeps its invariant, whatever the managers do with its events.
LEMMA DeliveryDirectoryStep ==
  ASSUME DirectoryInv, [DeliveryNext]_vars
  PROVE  DirectoryInv'
<1>1. CASE SatelliteStep \/ ClockStep
  BY <1>1, DirectoryNextInv DEF SatelliteStep, ClockStep, DirectoryNext
<1>2. ASSUME NEW k \in Attempts, CasaStep(k) \/ RenewFails(k) \/ NackSent(k)
      PROVE  EventStep
  BY <1>2 DEF CasaStep, JobReady, JobAuthorized, JobRevoke, RenewFails, NackSent, EventStep,
              directoryVars
<1>3. ASSUME NEW m \in Managers, CloseBegin(m) \/ CloseEnd(m)
      PROVE  EventStep
  BY <1>3 DEF CloseBegin, CloseEnd, EventStep, directoryVars
<1>4. ASSUME UNCHANGED vars PROVE EventStep
  BY <1>4 DEF vars, EventStep, directoryVars
<1> QED BY <1>1, <1>2, <1>3, <1>4, WorkerEventStep, EventStepInv DEF DeliveryNext

-----------------------------------------------------------------------------
(* Types.                                                                   *)

\* Moving a job to the end of a log leaves a log of jobs.
LEMMA MoveToEndType ==
  ASSUME NEW S, NEW log \in Seq(S), NEW j \in S
  PROVE  MoveToEnd(log, j) \in Seq(S)
<1>1. CASE Contains(log, j)
  <2> DEFINE i == CHOOSE i \in 1 .. Len(log) : log[i] = j
  <2>1. i \in 1 .. Len(log)
    BY <1>1 DEF Contains
  <2>2. RemoveAt(log, i) \in Seq(S)
    BY <2>1, RemoveAtProperties
  <2> QED BY <1>1, <2>2, AppendProperties DEF MoveToEnd
<1>2. CASE ~Contains(log, j)
  BY <1>2, AppendProperties DEF MoveToEnd
<1> QED BY <1>1, <1>2

\* The types of what the end of a delivery changes.
TaskTypes ==
  /\ pc \in [Attempts -> Phases]
  /\ workers \in SUBSET Lanes
  /\ entity \in [Attempts -> Entities \cup {None}]
  /\ revoked \in SUBSET Attempts
  /\ leaseLost \in SUBSET Attempts
  /\ renewing \in SUBSET Attempts

\* However a delivery goes on, gives up or ends, those types are kept.
LEMMA TaskTypesStep ==
  ASSUME DeliveryTypeOK, NEW k \in Attempts,
         \/ EndDelivery(k)
         \/ Abort(k)
         \/ \E next \in Phases : GoTo(k, next)
         \/ ForgetAttempt(k) /\ UNCHANGED renewing
  PROVE  TaskTypes'
<1> USE DEF DeliveryTypeOK, TaskTypes
<1>1. {"none", "unwinding", "revoking", "nacking"} \subseteq Phases
  BY DEF Phases, Sending
<1>2. ASSUME NEW next \in Phases, GoTo(k, next) PROVE TaskTypes'
  BY <1>2 DEF GoTo, flagVars
<1>3. ASSUME ForgetAttempt(k), renewing' = renewing PROVE TaskTypes'
  BY <1>1, <1>3 DEF ForgetAttempt, RetireWorker
<1>4. ASSUME EndDelivery(k) PROVE TaskTypes'
  BY <1>1, <1>3, <1>4 DEF EndDelivery, StopRenewer, flagVars
<1>5. ASSUME Abort(k) PROVE TaskTypes'
  BY <1>1, <1>2, <1>4, <1>5 DEF Abort
<1> QED BY <1>2, <1>3, <1>4, <1>5

\* The instant at which a wait ends.
LEMMA WaitUntilType ==
  ASSUME DirectoryInv, DeliveryTypeOK, NEW k \in Attempts, entity[k] # None
  PROVE  WaitUntil(k) \in 0 .. MaxTime
<1>1. /\ Expires[k] \in 1 .. MaxTime
      /\ Stability[ManagerOf[k]] \in Nat
      /\ MaxTime \in Nat
      /\ entity[k] \in Entities
  BY DeliveryConstants, DirectoryConstants DEF DeliveryTypeOK
<1>2. entityStates[entity[k]] = "idle" => entityIdleSince[entity[k]] \in 0 .. MaxTime
  BY <1>1 DEF DirectoryInv, DirectoryTypeOK, RegistryMapsAgree
<1> QED BY <1>1, <1>2 DEF WaitUntil

\* A step of a worker keeps the types.
LEMMA WorkerTypesStep ==
  ASSUME DirectoryInv, DeliveryTypeOK, NEW k \in Attempts, WorkerStep(k)
  PROVE  DeliveryTypeOK'
<1> USE DEF DeliveryTypeOK, TaskTypes, memoryVars
<1>0. /\ ManagerOf[k] \in Managers
      /\ JobOf[k] \in Jobs
      /\ LaneOf(k) \in Lanes
  BY DeliveryConstants, SlotConstants DEF LaneOf, Lanes
<1>1. CASE StartDelivery(k)
  <2>1. FirstFrame(k) \in Phases
    BY DEF FirstFrame, Phases, Sending
  <2>2. TaskTypes'
    BY <1>1, <2>1, TaskTypesStep DEF StartDelivery
  <2>3. queues' \in [Lanes -> Seq(Attempts)]
    BY <1>0, <1>1, HeadTailProperties DEF StartDelivery
  <2> QED BY <1>1, <2>2, <2>3 DEF StartDelivery
<1>2. CASE ClaimSent(k)
  BY <1>2 DEF ClaimSent, managerVars, flagVars, Phases
<1>3. CASE SlotGranted(k)
  BY <1>3 DEF SlotGranted, managerVars, flagVars, Phases
<1>4. CASE IdleCheck(k)
  <2>1. {"starting", "idleWait"} \subseteq Phases
    BY DEF Phases, Sending
  <2>2. TaskTypes'
    BY <1>4, <2>1, TaskTypesStep DEF IdleCheck
  <2>3. deadline' \in [Attempts -> 0 .. MaxTime \cup {None}]
    BY <1>4, WaitUntilType DEF IdleCheck, SameSatellite
  <2>4. authorization' \in [Attempts -> {"none", "pending", "granted", "denied"}]
    BY <1>4 DEF IdleCheck
  <2> QED BY <1>4, <2>2, <2>3, <2>4 DEF IdleCheck
<1>5. CASE Wake(k)
  <2>1. TaskTypes'
    BY <1>5, TaskTypesStep DEF Wake, Phases
  <2> QED BY <1>5, <2>1 DEF Wake
<1>6. CASE AuthorizationDecided(k)
  <2>1. TaskTypes'
    BY <1>6, TaskTypesStep DEF AuthorizationDecided, Phases
  <2> QED BY <1>6, <2>1 DEF AuthorizationDecided
<1>7. CASE AuthorizationReturned(k)
  <2>1. "notifying" \in Phases
    BY DEF Phases, Sending
  <2>2. TaskTypes'
    BY <1>7, <2>1, TaskTypesStep DEF AuthorizationReturned
  <2> QED BY <1>7, <2>2 DEF AuthorizationReturned, DropAuthorization
<1>8. CASE PlaybackStartedSent(k)
  <2>1. "playing" \in Phases
    BY DEF Phases
  <2>2. TaskTypes'
    BY <1>8, <2>1, TaskTypesStep DEF PlaybackStartedSent
  <2> QED BY <1>8, <2>2 DEF PlaybackStartedSent
<1>9. CASE AnnounceDone(k)
  <2>1. "acking" \in Phases
    BY DEF Phases, Sending
  <2>2. TaskTypes'
    BY <1>9, <2>1, TaskTypesStep DEF AnnounceDone
  <2>3. announced' \in [Managers -> Seq(Jobs)]
    BY <1>0, <1>9, MoveToEndType DEF AnnounceDone
  <2>4. delivered' \in [Managers -> Seq(Jobs)]
    <3> DEFINE log == MoveToEnd(delivered[ManagerOf[k]], JobOf[k])
    <3>1. log \in Seq(Jobs)
      BY <1>0, MoveToEndType
    <3>2. Len(log) > LruSize => log # <<>>
      BY DeliveryConstants, EmptySeq
    <3>3. Len(log) > LruSize => Tail(log) \in Seq(Jobs)
      BY <3>1, <3>2, HeadTailProperties
    <3> HIDE DEF log
    <3>4. delivered' = [delivered EXCEPT ![ManagerOf[k]] =
                          IF Len(log) > LruSize THEN Tail(log) ELSE log]
      BY <1>9 DEF AnnounceDone, RememberDelivered, log
    <3> QED BY <1>0, <3>1, <3>3, <3>4
  <2> QED BY <1>9, <2>2, <2>3, <2>4 DEF AnnounceDone
<1>10. CASE FrameSent(k)
  <2>1. {"authWait", "acking"} \subseteq Phases
    BY DEF Phases, Sending
  <2>2. TaskTypes'
    BY <1>10, <2>1, TaskTypesStep DEF FrameSent
  <2> QED BY <1>10, <2>2 DEF FrameSent
<1>11. CASE DeliveryFails(k)
  <2>1. TaskTypes'
    BY <1>11, TaskTypesStep DEF DeliveryFails
  <2> QED BY <1>11, <2>1 DEF DeliveryFails, DropAuthorization
<1>12. CASE Finish(k)
  <2>1. TaskTypes'
    BY <1>12, TaskTypesStep DEF Finish
  <2> QED BY <1>12, <2>1 DEF Finish
<1>13. CASE CancelDelivery(k)
  <2>1. TaskTypes'
    BY <1>13, TaskTypesStep DEF CancelDelivery
  <2> QED BY <1>13, <2>1 DEF CancelDelivery, DropAuthorization
<1> QED BY <1>1, <1>2, <1>3, <1>4, <1>5, <1>6, <1>7, <1>8, <1>9, <1>10, <1>11, <1>12, <1>13
        DEF WorkerStep

\* So does every step of the managers.
LEMMA DeliveryTypesStep ==
  ASSUME DirectoryInv, DeliveryTypeOK, [DeliveryNext]_vars
  PROVE  DeliveryTypeOK'
<1> USE DEF DeliveryTypeOK, memoryVars, managerVars, flagVars, taskVars
<1>1. ASSUME NEW k \in Attempts, JobReady(k) PROVE DeliveryTypeOK'
  <2> DEFINE e == IF Remembered(k) THEN None ELSE Resolve(DeviceOf[k])
  <2>1. e \in Entities \cup {None}
    BY SlotConstants, DirectoryConstants DEF Resolve
  <2>2. LaneOf(k) \in Lanes
    BY DeliveryConstants, SlotConstants DEF LaneOf, Lanes
  <2>3. Append(queues[LaneOf(k)], k) \in Seq(Attempts)
    BY <2>2, AppendProperties
  <2> HIDE DEF e
  <2>4. /\ UNCHANGED <<managerState, memoryVars, revoked, leaseLost, deadline, authorization,
                       renewing>>
        /\ \/ /\ nackSends' = nackSends \cup {k}
              /\ UNCHANGED <<pc, entity, queues, workers>>
           \/ /\ pc' = [pc EXCEPT ![k] = "queued"]
              /\ entity' = [entity EXCEPT ![k] = e]
              /\ queues' = [queues EXCEPT ![LaneOf(k)] = Append(@, k)]
              /\ workers' = workers \cup {LaneOf(k)}
              /\ UNCHANGED nackSends
    BY <1>1 DEF JobReady, e
  <2>5. queues' \in [Lanes -> Seq(Attempts)]
    <3> DEFINE longer == Append(queues[LaneOf(k)], k)
    <3>1. queues' = queues \/ queues' = [queues EXCEPT ![LaneOf(k)] = longer]
      BY <2>4
    <3>2. longer \in Seq(Attempts) /\ queues \in [Lanes -> Seq(Attempts)]
      BY <2>3
    <3> HIDE DEF longer, DeliveryTypeOK
    <3> QED BY <3>1, <3>2
  <2>6. entity' \in [Attempts -> Entities \cup {None}]
    BY <2>1, <2>4
  <2>7. pc' \in [Attempts -> Phases]
    BY <2>4 DEF Phases
  <2> QED BY <2>2, <2>4, <2>5, <2>6, <2>7
<1>2. ASSUME NEW k \in Attempts, JobAuthorized(k) \/ JobRevoke(k) PROVE DeliveryTypeOK'
  BY <1>2 DEF JobAuthorized, JobRevoke
<1>3. ASSUME NEW k \in Attempts, RenewFails(k) \/ NackSent(k) PROVE DeliveryTypeOK'
  BY <1>3 DEF RenewFails, NackSent
<1>4. ASSUME NEW m \in Managers, CloseBegin(m) PROVE DeliveryTypeOK'
  BY <1>4 DEF CloseBegin
<1>5. ASSUME NEW m \in Managers, CloseEnd(m) PROVE DeliveryTypeOK'
  <2>1. <<>> \in Seq(Attempts) /\ <<>> \in Seq(Jobs)
    BY EmptySeq
  <2> QED BY <1>5, <2>1 DEF CloseEnd, Phases
<1>6. CASE SatelliteStep \/ ClockStep
  BY <1>6 DEF SatelliteStep, ClockStep, deliveryVars
<1>7. CASE UNCHANGED vars
  BY <1>7 DEF vars, deliveryVars
<1> QED BY <1>1, <1>2, <1>3, <1>4, <1>5, <1>6, <1>7, WorkerTypesStep DEF DeliveryNext, CasaStep

-----------------------------------------------------------------------------
(* Slots, renewers, events and authorizations belong to deliveries.         *)

\* Where a delivery is not inside playback_slot.
Outside == {"none", "queued", "claiming", "reclaiming", "unwinding"}

\* Where its authorization may be pending.
Asking == {"starting", "authWait", "authorized", "refused"}

Listens(k) == k \in pulsed \/ \E d \in Devices : k \in listeners[d]

\* The inductive form of NothingLeaks; leases are lost by deliveries in progress.
Clean ==
  /\ \A k \in renewing : UsesSlot(k)
  /\ \A k \in Attempts :
       /\ UsesSlot(k) => pc[k] \notin Outside
       /\ Listens(k) => pc[k] = "idleWait"
       /\ authorization[k] # "none" => pc[k] \in Asking
       /\ k \in leaseLost => InProgress(k)
       /\ managerState[ManagerOf[k]] = "closed" =>
            pc[k] = "none" /\ k \notin nackSends /\ LaneOf(k) \notin workers

\* Who is inside after an entry, an exit, or neither.
LEMMA SlotUse ==
  ASSUME SlotInv, NEW k \in Attempts
  PROVE  /\ UNCHANGED slotVars => \A a \in Attempts : UsesSlot(a)' <=> UsesSlot(a)
         /\ GrantSlot(k) => \A a \in Attempts : UsesSlot(a)' <=> UsesSlot(a)
         /\ RequestSlot(k) => \A a \in Attempts : UsesSlot(a)' <=> UsesSlot(a) \/ a = k
         /\ ReleaseSlot(k) => \A a \in Attempts : UsesSlot(a)' <=> UsesSlot(a) /\ a # k
<1>1. ASSUME UNCHANGED slotVars, NEW a \in Attempts PROVE UsesSlot(a)' <=> UsesSlot(a)
  BY <1>1 DEF slotVars, UsesSlot
<1>2. ASSUME GrantSlot(k), NEW a \in Attempts PROVE UsesSlot(a)' <=> UsesSlot(a)
  BY <1>2 DEF GrantSlot, UsesSlot
<1>3. ASSUME RequestSlot(k), NEW a \in Attempts PROVE UsesSlot(a)' <=> UsesSlot(a) \/ a = k
  <2>1. SlotFor(k) \in Attempts
    BY SlotConstants, NoneAssumption DEF SlotFor, SlotInv, SlotTypeOK
  <2>2. slotUsers' = [slotUsers EXCEPT ![SlotFor(k)] = @ \cup {k}]
    BY <1>3 DEF RequestSlot
  <2> QED BY <2>1, <2>2 DEF UsesSlot, SlotInv, SlotTypeOK
<1>4. ASSUME ReleaseSlot(k), NEW a \in Attempts PROVE UsesSlot(a)' <=> UsesSlot(a) /\ a # k
  <2>1. /\ SlotOf(k) \in Attempts
        /\ \A s \in Attempts : k \in slotUsers[s] => s = SlotOf(k)
    BY <1>4, SlotOfUser DEF ReleaseSlot
  <2>2. slotUsers' = [slotUsers EXCEPT ![SlotOf(k)] = @ \ {k}]
    BY <1>4 DEF ReleaseSlot
  <2> QED BY <2>1, <2>2 DEF UsesSlot, SlotInv, SlotTypeOK
<1> QED BY <1>1, <1>2, <1>3, <1>4

\* k goes from one await to next: what that may do to slots, renewers, leases
\* and workers.
Moves(k, next) ==
  /\ pc[k] # "none"
  /\ pc' = [pc EXCEPT ![k] = next]
  /\ \A a \in Attempts : UsesSlot(a)' => IF a = k THEN next \notin Outside ELSE UsesSlot(a)
  /\ \A a \in renewing' : a \in Attempts /\ UsesSlot(a)'
  /\ leaseLost' \subseteq leaseLost
  /\ k \in leaseLost' => next \notin {"none", "queued"}
  /\ workers' \subseteq workers

\* A delivery that goes on elsewhere.
LEMMA GoToMoves ==
  ASSUME SlotInv, DeliveryTypeOK, Clean, NEW k \in Attempts, NEW next, GoTo(k, next),
         pc[k] # "none", next \notin {"none", "queued"}, next \in Outside => ~UsesSlot(k)
  PROVE  Moves(k, next)
<1>1. \A a \in Attempts : UsesSlot(a)' <=> UsesSlot(a)
  BY SlotUse DEF GoTo
<1> QED BY <1>1 DEF GoTo, Moves, Clean, DeliveryTypeOK, flagVars

\* A delivery that ends is in no slot any more, nor is its renewer.
LEMMA EndMoves ==
  ASSUME SlotInv, DeliveryTypeOK, Clean, NEW k \in Attempts, EndDelivery(k), InProgress(k)
  PROVE  Moves(k, "unwinding") \/ Moves(k, "none")
<1>1. CASE UsesSlot(k) /\ ReleaseSlot(k)
  <2>1. \A a \in Attempts : UsesSlot(a)' <=> UsesSlot(a) /\ a # k
    BY <1>1, SlotUse
  <2>2. /\ renewing' = renewing \ {k}
        /\ pc' = [pc EXCEPT ![k] = "unwinding"]
        /\ UNCHANGED <<workers, flagVars>>
    BY <1>1 DEF EndDelivery, StopRenewer
  <2> QED BY <2>1, <2>2 DEF Moves, Clean, DeliveryTypeOK, flagVars, InProgress, Outside
<1>2. CASE ~UsesSlot(k) /\ ForgetAttempt(k) /\ UNCHANGED <<renewing, slotVars>>
  <2>1. \A a \in Attempts : UsesSlot(a)' <=> UsesSlot(a)
    BY <1>2, SlotUse
  <2> QED BY <1>2, <2>1
          DEF ForgetAttempt, RetireWorker, Moves, Clean, DeliveryTypeOK, InProgress, Outside
<1> QED BY <1>1, <1>2 DEF EndDelivery

\* So does one that gives up, unless it sends a last frame.
LEMMA AbortMoves ==
  ASSUME SlotInv, DeliveryTypeOK, Clean, NEW k \in Attempts, Abort(k), InProgress(k)
  PROVE  \E next \in {"unwinding", "none", "revoking", "nacking"} :
           Moves(k, next) /\ (k \in leaseLost => next \in {"unwinding", "none"})
<1>1. CASE k \in leaseLost
  BY <1>1, EndMoves DEF Abort
<1>2. CASE k \notin leaseLost
  <2>1. PICK next \in {"revoking", "nacking"} : GoTo(k, next)
    BY <1>2 DEF Abort
  <2>2. next \notin Outside /\ pc[k] # "none"
    BY DEF Outside, InProgress
  <2> QED BY <1>2, <2>1, <2>2, GoToMoves
<1> QED BY <1>1, <1>2

\* Who holds an event that may be set, after each thing that is done to events.
LEMMA ListenUse ==
  ASSUME DirectoryTypeOK, NEW k \in Attempts, NEW d \in Devices
  PROVE  /\ UNCHANGED eventVars => \A a \in Attempts : Listens(a)' => Listens(a)
         /\ UNCHANGED <<listeners, pulsed>> => \A a \in Attempts : Listens(a)' => Listens(a)
         /\ DiscardEvent(d) => \A a \in Attempts : Listens(a)' => Listens(a)
         /\ Listen(k, d) => \A a \in Attempts : Listens(a)' => Listens(a) \/ a = k
         /\ StopListening(k) => \A a \in Attempts : Listens(a)' => Listens(a) /\ a # k
BY DEF DirectoryTypeOK, Listens, eventVars, DiscardEvent, Listen, StopListening

\* A step of k to next that does to events and authorizations what next allows,
\* and that begins no frame after a lost lease and no announcement without a claim.
Proper(k, next) ==
  /\ Moves(k, next)
  /\ \A a \in Attempts : Listens(a)' => IF a = k THEN next = "idleWait" ELSE Listens(a)
  /\ \A a \in Attempts : authorization'[a] # "none" =>
       IF a = k THEN next \in Asking ELSE authorization[a] # "none"
  /\ next = "playing" => HasClaim(k)
  /\ k \in leaseLost /\ next \in Sending => next = "acking"
  /\ UNCHANGED <<managerState, nackSends>>

\* A queue has each attempt that waits in it once.
QueuesHoldTheQueued ==
  \A k \in Attempts :
    pc[k] = "queued" <=> \E i \in 1 .. Len(queues[LaneOf(k)]) : queues[LaneOf(k)][i] = k

QueuesAreOrderly ==
  \A lane \in Lanes : \A i, j \in 1 .. Len(queues[lane]) :
    /\ LaneOf(queues[lane][i]) = lane
    /\ queues[lane][i] = queues[lane][j] => i = j

\* The worker of a lane has one delivery, and is there as long as there is one.
WorkersWork ==
  \A k \in Attempts :
    /\ Open(k) => (LaneOf(k) \in workers <=>
                     \E x \in Attempts : LaneOf(x) = LaneOf(k) /\ pc[x] # "none")
    /\ \A x \in Attempts :
         LaneOf(x) = LaneOf(k) /\ InProgress(x) /\ InProgress(k) => x = k

StateInv ==
  /\ QueuesHoldTheQueued
  /\ QueuesAreOrderly
  /\ WorkersWork
  /\ SlotInv
  /\ DirectoryInv
  /\ DeliveryTypeOK
  /\ PhasesHold
  /\ Clean

\* Every step of a worker is proper.
LEMMA WorkerIsProper ==
  ASSUME StateInv, NEW k \in Attempts, WorkerStep(k)
  PROVE  \E next : Proper(k, next)
<1> USE DEF StateInv
<1>0. /\ DeviceOf[k] \in Devices
      /\ DirectoryTypeOK
  BY SlotConstants DEF DirectoryInv
<1>1. CASE StartDelivery(k)
  <2>1. pc[k] = "queued"
    <3>1. /\ queues[LaneOf(k)] \in Seq(Attempts)
          /\ queues[LaneOf(k)] # <<>>
          /\ Head(queues[LaneOf(k)]) = k
      BY <1>1, DeliveryConstants, SlotConstants
         DEF StartDelivery, DeliveryTypeOK, LaneOf, Lanes
    <3>2. /\ 1 \in 1 .. Len(queues[LaneOf(k)])
          /\ queues[LaneOf(k)][1] = k
      BY <3>1, EmptySeq, HeadTailProperties
    <3> QED BY <3>2 DEF QueuesHoldTheQueued
  <2>2. /\ ~Listens(k) /\ ~UsesSlot(k) /\ k \notin leaseLost
        /\ authorization[k] = "none"
        /\ UNCHANGED <<managerState, nackSends, authorization>>
    BY <1>1, <2>1 DEF StartDelivery, Clean, Asking, Outside, InProgress
  <2>3. \A a \in Attempts : Listens(a)' => Listens(a)
    BY <1>0, <1>1, ListenUse DEF StartDelivery, directoryVars
  <2>4. FirstFrame(k) \notin {"none", "queued", "playing"}
    BY DEF FirstFrame
  <2>5. Moves(k, FirstFrame(k))
    BY <1>1, <2>1, <2>2, <2>4, GoToMoves DEF StartDelivery
  <2> QED BY <2>2, <2>3, <2>4, <2>5 DEF Proper
<1>2. CASE ClaimSent(k)
  <2> DEFINE next == IF HoldsSlot(k)' THEN "inSlot" ELSE "slotWait"
  <2>1. \A a \in Attempts : UsesSlot(a)' <=> UsesSlot(a) \/ a = k
    BY <1>2, SlotUse DEF ClaimSent
  <2>2. \A a \in Attempts : Listens(a)' => Listens(a)
    BY <1>0, <1>2, ListenUse DEF ClaimSent, directoryVars
  <2>3. /\ pc[k] = "claiming"
        /\ pc' = [pc EXCEPT ![k] = next]
        /\ renewing' = renewing \cup {k}
        /\ UNCHANGED <<managerState, nackSends, workers, leaseLost, authorization>>
    BY <1>2 DEF ClaimSent, managerVars, flagVars
  <2>4. ~Listens(k) /\ authorization[k] = "none"
    BY <2>3 DEF Clean, Asking
  <2>5. next \notin Outside /\ next \notin Sending /\ next # "playing"
    BY DEF Outside, Sending
  <2>6. next \notin {"none", "queued"}
    OBVIOUS
  <2> HIDE DEF next
  <2>7. Moves(k, next)
    BY <2>1, <2>3, <2>5, <2>6 DEF Moves, Clean, DeliveryTypeOK
  <2> QED BY <2>2, <2>3, <2>4, <2>5, <2>7 DEF Proper
<1>3. CASE SlotGranted(k)
  <2>1. \A a \in Attempts : UsesSlot(a)' <=> UsesSlot(a)
    BY <1>3, SlotUse DEF SlotGranted
  <2>2. \A a \in Attempts : Listens(a)' => Listens(a)
    BY <1>0, <1>3, ListenUse DEF SlotGranted, directoryVars
  <2>3. /\ pc[k] = "slotWait"
        /\ pc' = [pc EXCEPT ![k] = "inSlot"]
        /\ UNCHANGED <<managerState, nackSends, workers, leaseLost, authorization, renewing>>
    BY <1>3 DEF SlotGranted, managerVars, flagVars
  <2>4. ~Listens(k) /\ authorization[k] = "none"
    BY <2>3 DEF Clean, Asking
  <2>5. Moves(k, "inSlot")
    BY <2>1, <2>3 DEF Moves, Clean, DeliveryTypeOK, Outside
  <2> QED BY <2>2, <2>3, <2>4, <2>5 DEF Proper, Sending
<1>4. CASE IdleCheck(k)
  <2> DEFINE d == DeviceOf[k]
  <2>1. /\ pc[k] = "inSlot"
        /\ InProgress(k)
        /\ ~Listens(k)
        /\ authorization[k] = "none"
        /\ UNCHANGED <<managerState, nackSends>>
    BY <1>4 DEF IdleCheck, InProgress, Clean, Asking
  <2>2. CASE /\ Abort(k)
             /\ authorization' = authorization
             /\ UNCHANGED eventVars \/ DiscardEvent(d) \/ UNCHANGED <<listeners, pulsed>>
    <3>1. \A a \in Attempts : Listens(a)' => Listens(a)
      BY <1>0, <2>2, ListenUse
    <3> QED BY <2>1, <2>2, <3>1, AbortMoves DEF Proper, Sending
  <2>3. CASE HasClaim(k) /\ DiscardEvent(d) /\ GoTo(k, "starting")
             /\ authorization' = [authorization EXCEPT ![k] = "pending"]
    <3>1. \A a \in Attempts : Listens(a)' => Listens(a)
      BY <1>0, <2>3, ListenUse
    <3>2. Moves(k, "starting")
      BY <2>1, <2>3, GoToMoves DEF Outside
    <3>3. k \notin leaseLost
      BY <2>3 DEF HasClaim, Withdrawn
    <3> QED BY <2>1, <2>3, <3>1, <3>2, <3>3 DEF Proper, Asking, DeliveryTypeOK
  <2>4. CASE Listen(k, d) /\ GoTo(k, "idleWait") /\ authorization' = authorization
    <3>1. \A a \in Attempts : Listens(a)' => Listens(a) \/ a = k
      BY <1>0, <2>4, ListenUse
    <3>2. Moves(k, "idleWait")
      BY <2>1, <2>4, GoToMoves DEF Outside
    <3> QED BY <2>1, <2>4, <3>1, <3>2 DEF Proper, Sending
  <2> QED BY <1>4, <2>2, <2>3, <2>4 DEF IdleCheck
<1>5. CASE Wake(k)
  <2>1. /\ pc[k] = "idleWait"
        /\ authorization[k] = "none"
        /\ UNCHANGED <<managerState, nackSends, authorization>>
    BY <1>5 DEF Wake, Clean, Asking
  <2>2. \A a \in Attempts : Listens(a)' => Listens(a) /\ a # k
    BY <1>0, <1>5, ListenUse DEF Wake
  <2>3. Moves(k, "inSlot")
    BY <1>5, <2>1, GoToMoves DEF Wake, Outside
  <2> QED BY <2>1, <2>2, <2>3 DEF Proper, Sending
<1>6. CASE AuthorizationDecided(k)
  <2>1. PICK next \in {"authorized", "refused"} : GoTo(k, next)
    BY <1>6 DEF AuthorizationDecided
  <2>2. /\ pc[k] = "authWait"
        /\ ~Listens(k)
        /\ UNCHANGED <<managerState, nackSends, authorization>>
    BY <1>6 DEF AuthorizationDecided, Clean
  <2>3. \A a \in Attempts : Listens(a)' => Listens(a)
    BY <1>0, <1>6, ListenUse DEF AuthorizationDecided, directoryVars
  <2>4. next \in Asking /\ next \notin Outside \cup Sending \cup {"playing", "none", "queued"}
    BY DEF Asking, Outside, Sending
  <2>5. Moves(k, next)
    BY <2>1, <2>2, <2>4, GoToMoves
  <2> QED BY <2>2, <2>3, <2>4, <2>5 DEF Proper
<1>7. CASE AuthorizationReturned(k)
  <2>1. /\ InProgress(k) /\ pc[k] # "none"
        /\ ~Listens(k)
        /\ authorization' = [authorization EXCEPT ![k] = "none"]
        /\ UNCHANGED <<managerState, nackSends>>
    BY <1>7 DEF AuthorizationReturned, DropAuthorization, Clean, InProgress
  <2>2. \A a \in Attempts : Listens(a)' => Listens(a)
    BY <1>0, <1>7, ListenUse DEF AuthorizationReturned
  <2>3. \A a \in Attempts : authorization'[a] # "none" => a # k /\ authorization[a] # "none"
    BY <2>1 DEF DeliveryTypeOK
  <2>4. CASE Abort(k)
    BY <2>1, <2>2, <2>3, <2>4, AbortMoves DEF Proper, Sending
  <2>5. CASE HasClaim(k) /\ GoTo(k, "notifying")
    <3>1. Moves(k, "notifying")
      BY <2>1, <2>5, GoToMoves DEF Outside
    <3>2. k \notin leaseLost
      BY <2>5 DEF HasClaim, Withdrawn
    <3> QED BY <2>1, <2>2, <2>3, <3>1, <3>2 DEF Proper
  <2> QED BY <1>7, <2>4, <2>5 DEF AuthorizationReturned
<1>8. CASE PlaybackStartedSent(k)
  <2>1. /\ InProgress(k) /\ pc[k] # "none"
        /\ ~Listens(k)
        /\ authorization[k] = "none"
        /\ UNCHANGED <<managerState, nackSends, authorization>>
    BY <1>8 DEF PlaybackStartedSent, Clean, InProgress, Asking
  <2>2. \A a \in Attempts : Listens(a)' => Listens(a)
    BY <1>0, <1>8, ListenUse DEF PlaybackStartedSent
  <2>3. CASE Abort(k)
    BY <2>1, <2>2, <2>3, AbortMoves DEF Proper, Sending
  <2>4. CASE HasClaim(k) /\ GoTo(k, "playing")
    <3>1. Moves(k, "playing")
      BY <2>1, <2>4, GoToMoves DEF Outside
    <3> QED BY <2>1, <2>2, <2>4, <3>1 DEF Proper, Sending
  <2> QED BY <1>8, <2>3, <2>4 DEF PlaybackStartedSent
<1>9. CASE AnnounceDone(k)
  <2>1. /\ pc[k] = "playing"
        /\ ~Listens(k)
        /\ authorization[k] = "none"
        /\ UNCHANGED <<managerState, nackSends, authorization>>
    BY <1>9 DEF AnnounceDone, Clean, Asking
  <2>2. \A a \in Attempts : Listens(a)' => Listens(a)
    BY <1>0, <1>9, ListenUse DEF AnnounceDone, directoryVars
  <2>3. Moves(k, "acking")
    BY <1>9, <2>1, GoToMoves DEF AnnounceDone, Outside
  <2> QED BY <2>1, <2>2, <2>3 DEF Proper
<1>10. CASE FrameSent(k)
  <2>1. /\ InProgress(k) /\ pc[k] # "none"
        /\ ~Listens(k)
        /\ UNCHANGED <<managerState, nackSends, authorization>>
    BY <1>10 DEF FrameSent, Clean, InProgress
  <2>2. \A a \in Attempts : Listens(a)' => Listens(a)
    BY <1>0, <1>10, ListenUse DEF FrameSent, directoryVars
  <2>3. CASE pc[k] = "starting" /\ GoTo(k, "authWait")
    <3>1. Moves(k, "authWait")
      BY <2>1, <2>3, GoToMoves DEF Outside
    <3> QED BY <2>1, <2>2, <3>1 DEF Proper, Asking, Sending
  <2>4. CASE pc[k] = "reclaiming" /\ GoTo(k, "acking")
    <3>1. Moves(k, "acking")
      BY <2>1, <2>4, GoToMoves DEF Outside
    <3>2. authorization[k] = "none"
      BY <2>4 DEF Clean, Asking
    <3> QED BY <2>1, <2>2, <3>1, <3>2 DEF Proper
  <2>5. CASE pc[k] \in {"revoking", "nacking", "acking"} /\ EndDelivery(k)
    <3>1. authorization[k] = "none"
      BY <2>5 DEF Clean, Asking
    <3> QED BY <2>1, <2>2, <2>5, <3>1, EndMoves DEF Proper, Sending
  <2> QED BY <1>10, <2>3, <2>4, <2>5 DEF FrameSent
<1>11. CASE DeliveryFails(k)
  <2>1. /\ InProgress(k)
        /\ ~Listens(k)
        /\ authorization' = [authorization EXCEPT ![k] = "none"]
        /\ UNCHANGED <<managerState, nackSends>>
    BY <1>11 DEF DeliveryFails, DropAuthorization, Clean, InProgress, Sending
  <2>2. \A a \in Attempts : Listens(a)' => Listens(a)
    BY <1>0, <1>11, ListenUse DEF DeliveryFails, directoryVars
  <2>3. \A a \in Attempts : authorization'[a] # "none" => a # k /\ authorization[a] # "none"
    BY <2>1 DEF DeliveryTypeOK
  <2> QED BY <1>11, <2>1, <2>2, <2>3, EndMoves DEF DeliveryFails, Proper, Sending
<1>12. CASE Finish(k)
  <2>1. /\ pc[k] = "unwinding"
        /\ ~Listens(k) /\ ~UsesSlot(k)
        /\ authorization[k] = "none"
        /\ UNCHANGED <<managerState, nackSends, authorization, renewing>>
    BY <1>12 DEF Finish, Clean, Asking, Outside
  <2>2. \A a \in Attempts : Listens(a)' => Listens(a)
    BY <1>0, <1>12, ListenUse DEF Finish, directoryVars
  <2>3. \A a \in Attempts : UsesSlot(a)' <=> UsesSlot(a)
    BY <1>12, SlotUse DEF Finish
  <2>4. Moves(k, "none")
    BY <1>12, <2>1, <2>3
       DEF Finish, ForgetAttempt, RetireWorker, Moves, Clean, DeliveryTypeOK
  <2> QED BY <2>1, <2>2, <2>4 DEF Proper, Sending
<1>13. CASE CancelDelivery(k)
  <2>1. /\ InProgress(k)
        /\ authorization' = [authorization EXCEPT ![k] = "none"]
        /\ UNCHANGED <<managerState, nackSends>>
    BY <1>13 DEF CancelDelivery, Cancellable, DropAuthorization
  <2>2. \A a \in Attempts : Listens(a)' => Listens(a) /\ a # k
    BY <1>0, <1>13, ListenUse DEF CancelDelivery
  <2>3. \A a \in Attempts : authorization'[a] # "none" => a # k /\ authorization[a] # "none"
    BY <2>1 DEF DeliveryTypeOK
  <2> QED BY <1>13, <2>1, <2>2, <2>3, EndMoves DEF CancelDelivery, Proper, Sending
<1> QED BY <1>1, <1>2, <1>3, <1>4, <1>5, <1>6, <1>7, <1>8, <1>9, <1>10, <1>11, <1>12, <1>13
        DEF WorkerStep

\* A proper step leaves nothing behind.
LEMMA ProperStepIsClean ==
  ASSUME StateInv, NEW k \in Attempts, NEW next, Proper(k, next)
  PROVE  Clean'
<1> USE DEF StateInv, Proper, Moves
<1>1. /\ pc' = [pc EXCEPT ![k] = next]
      /\ pc \in [Attempts -> Phases]
  BY DEF DeliveryTypeOK
<1>2. \A a \in renewing' : UsesSlot(a)'
  OBVIOUS
<1>3. ASSUME NEW a \in Attempts
      PROVE  /\ UsesSlot(a)' => pc'[a] \notin Outside
             /\ Listens(a)' => pc'[a] = "idleWait"
             /\ authorization'[a] # "none" => pc'[a] \in Asking
             /\ a \in leaseLost' => InProgress(a)'
             /\ managerState'[ManagerOf[a]] = "closed" =>
                  pc'[a] = "none" /\ a \notin nackSends' /\ LaneOf(a) \notin workers'
  <2>1. CASE a = k
    <3>1. pc'[a] = next
      BY <1>1, <2>1
    <3> QED BY <2>1, <3>1 DEF Clean, InProgress
  <2>2. CASE a # k
    <3>1. pc'[a] = pc[a]
      BY <1>1, <2>2
    <3> QED BY <2>2, <3>1 DEF Clean, InProgress
  <2> QED BY <2>1, <2>2
<1> QED BY <1>2, <1>3 DEF Clean, LaneOf

\* A change of the directory makes nobody a listener.
LEMMA ChangeMakesNoListener ==
  ASSUME DirectoryInv, DirectoryChange, NEW a \in Attempts, Listens(a)'
  PROVE  Listens(a)
<1>1. ASSUME NEW ds \in SUBSET Devices, NEW retired, Notify(ds, retired) PROVE Listens(a)
  BY <1>1 DEF Notify, Listens, DirectoryInv, DirectoryTypeOK
<1>2. ASSUME NEW e \in Entities, RemoveSatellite(e) PROVE Listens(a)
  <2>1. {entityDevices[e]} \ {None} \in SUBSET Devices
    BY DEF DirectoryInv, DirectoryTypeOK
  <2> QED BY <1>1, <1>2, <2>1 DEF RemoveSatellite
<1>3. ASSUME NEW e \in Entities, NEW d \in Devices, Rebind(d, e) PROVE Listens(a)
  <2>1. {d} \cup PreviousDevice(d, e) \in SUBSET Devices
    BY PreviousDevices
  <2> QED BY <1>1, <1>3, <2>1 DEF Rebind
<1> QED BY <1>2, <1>3 DEF DirectoryChange, SetEntityState

\* Nor does any other step.
LEMMA CleanStep ==
  ASSUME StateInv, [DeliveryNext]_vars
  PROVE  Clean'
<1> USE DEF StateInv
<1>0. DirectoryTypeOK
  BY DEF DirectoryInv
<1>1. ASSUME UNCHANGED <<managerState, workers, nackSends, leaseLost, pc, authorization, renewing,
                         slotVars>>,
             \A a \in Attempts : Listens(a)' => Listens(a)
      PROVE  Clean'
  <2>1. \A a \in Attempts : UsesSlot(a)' <=> UsesSlot(a)
    BY <1>1 DEF UsesSlot, slotVars
  <2> QED BY <1>1, <2>1 DEF Clean, DeliveryTypeOK, InProgress, LaneOf
<1>2. ASSUME UNCHANGED directoryVars PROVE \A a \in Attempts : Listens(a)' => Listens(a)
  BY <1>2 DEF directoryVars, eventVars, Listens
<1>3. ASSUME UNCHANGED slotVars PROVE \A a \in Attempts : UsesSlot(a)' <=> UsesSlot(a)
  BY <1>3 DEF UsesSlot, slotVars
<1>4. ASSUME NEW k \in Attempts, JobReady(k) PROVE Clean'
  <2>1. /\ Open(k) /\ pc[k] = "none"
        /\ \A a \in Attempts : Listens(a)' => Listens(a)
        /\ \A a \in Attempts : UsesSlot(a)' <=> UsesSlot(a)
        /\ UNCHANGED <<managerState, leaseLost, authorization, renewing>>
        /\ \/ nackSends' = nackSends \cup {k} /\ UNCHANGED <<pc, workers>>
           \/ /\ pc' = [pc EXCEPT ![k] = "queued"]
              /\ workers' = workers \cup {LaneOf(k)}
              /\ UNCHANGED nackSends
    BY <1>2, <1>3, <1>4 DEF JobReady
  <2>2. ~UsesSlot(k) /\ ~Listens(k) /\ authorization[k] = "none" /\ k \notin leaseLost
    BY <2>1 DEF Clean, Outside, Asking, InProgress
  <2>3. /\ managerState[ManagerOf[k]] # "closed"
        /\ \A a \in Attempts : LaneOf(a) = LaneOf(k) => ManagerOf[a] = ManagerOf[k]
    BY <2>1 DEF Open, LaneOf
  <2> QED BY <2>1, <2>2, <2>3 DEF Clean, DeliveryTypeOK, InProgress, LaneOf
<1>5. ASSUME NEW k \in Attempts, JobAuthorized(k) PROVE Clean'
  <2>1. /\ authorization[k] = "pending"
        /\ authorization' = [authorization EXCEPT ![k] = "granted"]
        /\ UNCHANGED <<managerState, workers, nackSends, leaseLost, pc, renewing>>
        /\ \A a \in Attempts : Listens(a)' => Listens(a)
        /\ \A a \in Attempts : UsesSlot(a)' <=> UsesSlot(a)
    BY <1>2, <1>3, <1>5 DEF JobAuthorized, managerVars, flagVars
  <2> QED BY <2>1 DEF Clean, DeliveryTypeOK, InProgress, LaneOf
<1>6. ASSUME NEW k \in Attempts, JobRevoke(k) PROVE Clean'
  <2>1. /\ authorization' = [authorization EXCEPT ![k] = IF @ = "pending" THEN "denied" ELSE @]
        /\ UNCHANGED <<managerState, workers, nackSends, leaseLost, pc, renewing>>
        /\ \A a \in Attempts : Listens(a)' => Listens(a)
        /\ \A a \in Attempts : UsesSlot(a)' <=> UsesSlot(a)
    BY <1>2, <1>3, <1>6 DEF JobRevoke, managerVars
  <2> QED BY <2>1 DEF Clean, DeliveryTypeOK, InProgress, LaneOf
<1>7. ASSUME NEW k \in Attempts, RenewFails(k) PROVE Clean'
  <2>1. /\ k \in renewing
        /\ renewing' = renewing \ {k}
        /\ leaseLost' = leaseLost \cup {k}
        /\ UNCHANGED <<managerState, workers, nackSends, pc, authorization>>
        /\ \A a \in Attempts : Listens(a)' => Listens(a)
        /\ \A a \in Attempts : UsesSlot(a)' <=> UsesSlot(a)
    BY <1>2, <1>3, <1>7 DEF RenewFails, managerVars
  <2>2. InProgress(k)
    BY <2>1 DEF Clean, Outside, InProgress
  <2> QED BY <2>1, <2>2 DEF Clean, DeliveryTypeOK, InProgress, LaneOf
<1>8. ASSUME NEW k \in Attempts, NackSent(k) PROVE Clean'
  <2>1. /\ nackSends' = nackSends \ {k}
        /\ UNCHANGED <<managerState, workers, leaseLost, pc, authorization, renewing>>
        /\ \A a \in Attempts : Listens(a)' => Listens(a)
        /\ \A a \in Attempts : UsesSlot(a)' <=> UsesSlot(a)
    BY <1>2, <1>3, <1>8 DEF NackSent, flagVars, taskVars
  <2> QED BY <2>1 DEF Clean, DeliveryTypeOK, InProgress, LaneOf
<1>9. ASSUME NEW m \in Managers, CloseBegin(m) PROVE Clean'
  <2>1. /\ managerState' = [managerState EXCEPT ![m] = "closing"]
        /\ UNCHANGED <<workers, nackSends, leaseLost, pc, authorization, renewing>>
        /\ \A a \in Attempts : Listens(a)' => Listens(a)
        /\ \A a \in Attempts : UsesSlot(a)' <=> UsesSlot(a)
    BY <1>2, <1>3, <1>9 DEF CloseBegin, flagVars, taskVars
  <2>2. \A a \in Attempts : ManagerOf[a] \in Managers
    BY DeliveryConstants
  <2> QED BY <2>1, <2>2 DEF Clean, DeliveryTypeOK, InProgress, LaneOf
<1>10. ASSUME NEW m \in Managers, CloseEnd(m) PROVE Clean'
  <2> DEFINE mine == {k \in Attempts : ManagerOf[k] = m}
  <2>1. /\ \A k \in mine : ~InProgress(k) /\ k \notin nackSends
        /\ managerState' = [managerState EXCEPT ![m] = "closed"]
        /\ workers' = {lane \in workers : lane[1] # m}
        /\ pc' = [k \in Attempts |-> IF k \in mine THEN "none" ELSE pc[k]]
        /\ UNCHANGED <<nackSends, leaseLost, authorization, renewing>>
        /\ \A a \in Attempts : Listens(a)' => Listens(a)
        /\ \A a \in Attempts : UsesSlot(a)' <=> UsesSlot(a)
    BY <1>2, <1>3, <1>10 DEF CloseEnd
  <2>2. \A a \in Attempts : ManagerOf[a] \in Managers /\ LaneOf(a)[1] = ManagerOf[a]
    BY DeliveryConstants DEF LaneOf
  <2>3. \A a \in mine : /\ ~UsesSlot(a) /\ ~Listens(a)
                        /\ authorization[a] = "none" /\ a \notin leaseLost
    BY <2>1 DEF Clean, Outside, Asking, InProgress
  <2>4. \A a \in Attempts : pc'[a] = IF a \in mine THEN "none" ELSE pc[a]
    BY <2>1
  <2> QED BY <2>1, <2>2, <2>3, <2>4 DEF Clean, DeliveryTypeOK, InProgress, LaneOf
<1>11. CASE SatelliteStep
  BY <1>1, <1>11, ChangeMakesNoListener
     DEF SatelliteStep, deliveryVars, managerVars, flagVars, taskVars
<1>12. CASE ClockStep
  BY <1>1, <1>2, <1>12 DEF ClockStep, Tick, deliveryVars, managerVars, flagVars, taskVars
<1>13. CASE UNCHANGED vars
  BY <1>1, <1>2, <1>13 DEF vars, deliveryVars, managerVars, flagVars, taskVars
<1>14. ASSUME NEW k \in Attempts, WorkerStep(k) PROVE Clean'
  BY <1>14, WorkerIsProper, ProperStepIsClean
<1> QED BY <1>4, <1>5, <1>6, <1>7, <1>8, <1>9, <1>10, <1>11, <1>12, <1>13, <1>14
        DEF DeliveryNext, CasaStep

-----------------------------------------------------------------------------
(* Queues and workers.                                                      *)

LanesInv == QueuesHoldTheQueued /\ QueuesAreOrderly /\ WorkersWork

\* The lane of an attempt, and its queue.
LEMMA LaneTypes ==
  ASSUME DeliveryTypeOK, NEW k \in Attempts
  PROVE  LaneOf(k) \in Lanes /\ queues[LaneOf(k)] \in Seq(Attempts)
BY DeliveryConstants, SlotConstants DEF LaneOf, Lanes, DeliveryTypeOK

\* A delivery that stays in progress, with queues and workers as they were.
LEMMA StayingKeepsLanes ==
  ASSUME DeliveryTypeOK, LanesInv, NEW k \in Attempts, InProgress(k),
         NEW next, next \notin {"none", "queued"}, pc' = [pc EXCEPT ![k] = next],
         UNCHANGED <<queues, workers, managerState>>
  PROVE  LanesInv'
<1>1. \A a \in Attempts : /\ pc'[a] = "queued" <=> pc[a] = "queued"
                          /\ pc'[a] = "none" <=> pc[a] = "none"
  BY DEF DeliveryTypeOK, InProgress
<1>2. QueuesHoldTheQueued' /\ QueuesAreOrderly'
  BY <1>1 DEF LanesInv, QueuesHoldTheQueued, QueuesAreOrderly, LaneOf
<1>3. WorkersWork'
  BY <1>1 DEF LanesInv, WorkersWork, LaneOf, Open, InProgress
<1> QED BY <1>2, <1>3 DEF LanesInv

\* An attempt that is forgotten, and the worker that may retire.
LEMMA ForgettingKeepsLanes ==
  ASSUME DeliveryTypeOK, LanesInv, NEW k \in Attempts, InProgress(k), ForgetAttempt(k),
         UNCHANGED <<queues, managerState>>
  PROVE  LanesInv'
<1>1. /\ pc' = [pc EXCEPT ![k] = "none"]
      /\ pc[k] \notin {"none", "queued"}
      /\ workers' = IF Open(k) /\ queues[LaneOf(k)] = <<>> THEN workers \ {LaneOf(k)} ELSE workers
  BY DEF ForgetAttempt, RetireWorker, InProgress
<1>2. \A a \in Attempts : pc'[a] = IF a = k THEN "none" ELSE pc[a]
  BY <1>1 DEF DeliveryTypeOK
<1>3. QueuesHoldTheQueued' /\ QueuesAreOrderly'
  BY <1>1, <1>2 DEF LanesInv, QueuesHoldTheQueued, QueuesAreOrderly, LaneOf
<1>4. ASSUME NEW a \in Attempts, NEW x \in Attempts, LaneOf(x) = LaneOf(a), InProgress(x)',
             InProgress(a)'
      PROVE  x = a
  BY <1>1, <1>2, <1>4 DEF LanesInv, WorkersWork, InProgress
<1>5. ASSUME NEW a \in Attempts, Open(a)
      PROVE  LaneOf(a) \in workers' <=>
               \E x \in Attempts : LaneOf(x) = LaneOf(a) /\ pc'[x] # "none"
  <2>0. LaneOf(a) \in workers <=> \E x \in Attempts : LaneOf(x) = LaneOf(a) /\ pc[x] # "none"
    BY <1>5 DEF LanesInv, WorkersWork
  <2>1. CASE LaneOf(a) # LaneOf(k)
    BY <1>1, <1>2, <2>0, <2>1
  <2>2. CASE LaneOf(a) = LaneOf(k) /\ queues[LaneOf(k)] = <<>>
    <3>1. \A x \in Attempts : LaneOf(x) = LaneOf(k) => pc[x] # "queued"
      BY <2>2, EmptySeq DEF LanesInv, QueuesHoldTheQueued
    <3>2. \A x \in Attempts : LaneOf(x) = LaneOf(k) /\ pc[x] # "none" => x = k
      BY <1>1, <3>1 DEF LanesInv, WorkersWork, InProgress
    <3>3. LaneOf(a) \notin workers'
      BY <1>1, <1>5, <2>2 DEF Open, LaneOf
    <3> QED BY <1>2, <2>2, <3>2, <3>3
  <2>3. CASE LaneOf(a) = LaneOf(k) /\ queues[LaneOf(k)] # <<>>
    <3>1. LaneOf(k) \in Lanes /\ queues[LaneOf(k)] \in Seq(Attempts)
      BY LaneTypes
    <3>2. 1 \in 1 .. Len(queues[LaneOf(k)])
      BY <2>3, <3>1, EmptySeq, LenProperties
    <3> DEFINE x == queues[LaneOf(k)][1]
    <3>3. x \in Attempts
      BY <3>1, <3>2, ElementOfSeq
    <3>4. LaneOf(x) = LaneOf(k)
      BY <3>1, <3>2 DEF LanesInv, QueuesAreOrderly
    <3>5. pc[x] = "queued"
      BY <3>2, <3>3, <3>4 DEF LanesInv, QueuesHoldTheQueued
    <3>6. LaneOf(k) \in workers /\ workers' = workers
      BY <1>1, <2>0, <2>3
    <3>7. pc'[x] # "none"
      BY <1>1, <1>2, <3>3, <3>5
    <3> QED BY <2>3, <3>3, <3>4, <3>6, <3>7
  <2> QED BY <2>1, <2>2, <2>3
<1>6. WorkersWork'
  BY <1>4, <1>5 DEF WorkersWork, LaneOf, Open
<1> QED BY <1>3, <1>6 DEF LanesInv

\* Either way, for a delivery that goes on, gives up or ends.
LEMMA OutcomeKeepsLanes ==
  ASSUME DeliveryTypeOK, LanesInv, NEW k \in Attempts, InProgress(k),
         UNCHANGED <<queues, managerState>>,
         \/ EndDelivery(k)
         \/ Abort(k)
         \/ \E next : GoTo(k, next) /\ next \notin {"none", "queued"}
  PROVE  LanesInv'
<1>1. ASSUME NEW next, GoTo(k, next), next \notin {"none", "queued"} PROVE LanesInv'
  BY <1>1, StayingKeepsLanes DEF GoTo
<1>2. ASSUME EndDelivery(k) PROVE LanesInv'
  <2>1. CASE pc' = [pc EXCEPT ![k] = "unwinding"] /\ UNCHANGED workers
    BY <2>1, StayingKeepsLanes
  <2>2. CASE ForgetAttempt(k)
    BY <2>2, ForgettingKeepsLanes
  <2> QED BY <1>2, <2>1, <2>2 DEF EndDelivery
<1>3. ASSUME Abort(k) PROVE LanesInv'
  BY <1>1, <1>2, <1>3 DEF Abort
<1> QED BY <1>1, <1>2, <1>3

\* The worker takes the first offer of its queue.
LEMMA StartKeepsLanes ==
  ASSUME DeliveryTypeOK, LanesInv, NEW k \in Attempts, StartDelivery(k)
  PROVE  LanesInv'
<1> DEFINE lane == LaneOf(k)
           rest == Tail(queues[lane])
<1>1. /\ lane \in Lanes
      /\ queues[lane] \in Seq(Attempts)
      /\ queues[lane] # <<>>
      /\ Head(queues[lane]) = k
      /\ ~LaneBusy(lane)
      /\ queues' = [queues EXCEPT ![lane] = rest]
      /\ UNCHANGED <<managerState, workers>>
  BY LaneTypes DEF StartDelivery, GoTo
<1>2. PICK next : next \notin {"none", "queued"} /\ pc' = [pc EXCEPT ![k] = next]
  <2>1. FirstFrame(k) \notin {"none", "queued"}
    BY DEF FirstFrame
  <2> QED BY <2>1 DEF StartDelivery, GoTo
<1>3. /\ queues[lane][1] = k
      /\ rest \in Seq(Attempts)
      /\ Len(queues[lane]) \in Nat \ {0}
      /\ Len(rest) = Len(queues[lane]) - 1
      /\ \A i \in 1 .. Len(rest) : rest[i] = queues[lane][i + 1]
  BY <1>1, HeadTailProperties, EmptySeq
<1> HIDE DEF rest, lane
<1>4. /\ \A a \in Attempts : pc'[a] = IF a = k THEN next ELSE pc[a]
      /\ \A l \in Lanes : queues'[l] = IF l = lane THEN rest ELSE queues[l]
  BY <1>1, <1>2 DEF DeliveryTypeOK
<1>5. QueuesAreOrderly'
  <2>1. ASSUME NEW l \in Lanes, NEW i \in 1 .. Len(queues'[l]), NEW j \in 1 .. Len(queues'[l])
        PROVE  /\ LaneOf(queues'[l][i]) = l
               /\ queues'[l][i] = queues'[l][j] => i = j
    <3>1. CASE l = lane
      <4>1. /\ i + 1 \in 1 .. Len(queues[lane]) /\ j + 1 \in 1 .. Len(queues[lane])
            /\ queues'[l][i] = queues[lane][i + 1]
            /\ queues'[l][j] = queues[lane][j + 1]
        <5>1. queues'[l] = rest
          BY <1>4, <3>1
        <5>2. i \in 1 .. Len(rest) /\ j \in 1 .. Len(rest)
          BY <5>1
        <5>3. rest[i] = queues[lane][i + 1] /\ rest[j] = queues[lane][j + 1]
          BY <1>3, <5>2
        <5>4. i + 1 \in 1 .. Len(queues[lane]) /\ j + 1 \in 1 .. Len(queues[lane])
          <6>1. Len(queues[lane]) \in Nat /\ Len(rest) = Len(queues[lane]) - 1
            BY <1>3
          <6> QED BY <5>2, <6>1
        <5> QED BY <5>1, <5>3, <5>4
      <4> QED BY <1>1, <3>1, <4>1 DEF LanesInv, QueuesAreOrderly
    <3>2. CASE l # lane
      BY <1>4, <2>1, <3>2 DEF LanesInv, QueuesAreOrderly
    <3> QED BY <3>1, <3>2
  <2> QED BY <2>1 DEF QueuesAreOrderly, LaneOf
<1>6. QueuesHoldTheQueued'
  <2>1. ASSUME NEW a \in Attempts
        PROVE  pc'[a] = "queued" <=>
                 \E i \in 1 .. Len(queues'[LaneOf(a)]) : queues'[LaneOf(a)][i] = a
    <3>0. /\ LaneOf(a) \in Lanes
          /\ pc[a] = "queued" <=> \E i \in 1 .. Len(queues[LaneOf(a)]) : queues[LaneOf(a)][i] = a
      BY LaneTypes DEF LanesInv, QueuesHoldTheQueued
    <3>1. CASE LaneOf(a) # lane
      BY <1>4, <3>0, <3>1 DEF lane
    <3>2. CASE LaneOf(a) = lane
      <4>1. queues'[LaneOf(a)] = rest
        BY <1>4, <3>0, <3>2
      <4>2. ASSUME NEW i \in 1 .. Len(rest), rest[i] = a PROVE a # k /\ pc[a] = "queued"
        <5>1. i + 1 \in 1 .. Len(queues[lane]) /\ queues[lane][i + 1] = a /\ i + 1 # 1
          BY <1>3, <4>2
        <5>2. 1 \in 1 .. Len(queues[lane])
          BY <1>3
        <5>3. a # k
          BY <1>1, <1>3, <5>1, <5>2 DEF LanesInv, QueuesAreOrderly
        <5> QED BY <3>0, <3>2, <5>1, <5>3
      <4>3. ASSUME pc[a] = "queued", a # k PROVE \E i \in 1 .. Len(rest) : rest[i] = a
        <5>1. PICK i \in 1 .. Len(queues[lane]) : queues[lane][i] = a
          BY <3>0, <3>2, <4>3
        <5>2. i # 1
          BY <1>3, <4>3, <5>1
        <5>3. i - 1 \in 1 .. Len(rest) /\ rest[i - 1] = a
          BY <1>3, <5>1, <5>2
        <5> QED BY <5>3
      <4>4. pc'[k] # "queued"
        BY <1>2, <1>4
      <4> QED BY <1>4, <4>1, <4>2, <4>3, <4>4
    <3> QED BY <3>1, <3>2
  <2> QED BY <2>1 DEF QueuesHoldTheQueued, LaneOf
<1>7. pc[k] = "queued"
  <2>1. 1 \in 1 .. Len(queues[lane])
    BY <1>3
  <2> QED BY <1>3, <2>1 DEF LanesInv, QueuesHoldTheQueued, lane
<1>8. WorkersWork'
  <2>1. ASSUME NEW a \in Attempts, NEW x \in Attempts, LaneOf(x) = LaneOf(a), InProgress(x)',
               InProgress(a)'
        PROVE  x = a
    <3>1. \A y \in Attempts : LaneOf(y) = lane => ~InProgress(y)
      BY <1>1 DEF LaneBusy
    <3> QED BY <1>4, <2>1, <3>1 DEF LanesInv, WorkersWork, InProgress, lane
  <2>2. \A x \in Attempts : pc'[x] # "none" <=> pc[x] # "none"
    BY <1>2, <1>4, <1>7
  <2> QED BY <1>1, <2>1, <2>2 DEF LanesInv, WorkersWork, LaneOf, Open
<1> QED BY <1>5, <1>6, <1>8 DEF LanesInv

\* An accepted offer joins its queue, and its lane has a worker.
LEMMA OfferKeepsLanes ==
  ASSUME DeliveryTypeOK, LanesInv, NEW k \in Attempts, JobReady(k)
  PROVE  LanesInv'
<1> DEFINE lane == LaneOf(k)
           q == queues[lane]
<1>1. /\ lane \in Lanes
      /\ q \in Seq(Attempts)
      /\ pc[k] = "none"
      /\ UNCHANGED managerState
  BY LaneTypes DEF JobReady
<1>2. CASE UNCHANGED <<pc, queues, workers>>
  BY <1>1, <1>2 DEF LanesInv, QueuesHoldTheQueued, QueuesAreOrderly, WorkersWork, LaneOf,
                    Open, InProgress
<1>3. CASE /\ pc' = [pc EXCEPT ![k] = "queued"]
           /\ queues' = [queues EXCEPT ![lane] = Append(@, k)]
           /\ workers' = workers \cup {lane}
  <2>1. /\ \A a \in Attempts : pc'[a] = IF a = k THEN "queued" ELSE pc[a]
        /\ \A l \in Lanes : queues'[l] = IF l = lane THEN Append(q, k) ELSE queues[l]
    BY <1>3 DEF DeliveryTypeOK
  <2>2. /\ Len(q) \in Nat
        /\ Len(Append(q, k)) = Len(q) + 1
        /\ \A i \in 1 .. Len(q) : Append(q, k)[i] = q[i]
        /\ Append(q, k)[Len(q) + 1] = k
    BY <1>1, AppendProperties, LenProperties
  <2>3. \A i \in 1 .. Len(q) : q[i] # k
    BY <1>1 DEF LanesInv, QueuesHoldTheQueued
  <2> HIDE DEF lane, q
  <2>4. QueuesAreOrderly'
    <3>1. ASSUME NEW l \in Lanes, NEW i \in 1 .. Len(queues'[l]), NEW j \in 1 .. Len(queues'[l])
          PROVE  /\ LaneOf(queues'[l][i]) = l
                 /\ queues'[l][i] = queues'[l][j] => i = j
      <4>1. CASE l = lane
        <5>0. queues'[l] = Append(q, k)
          BY <2>1, <4>1
        <5>1. /\ i \in 1 .. Len(q) + 1
              /\ j \in 1 .. Len(q) + 1
          BY <2>2, <3>1, <5>0
        <5>2. \A x \in 1 .. Len(q) : LaneOf(q[x]) = lane
          BY <1>1 DEF LanesInv, QueuesAreOrderly, q
        <5>3. \A x, y \in 1 .. Len(q) : q[x] = q[y] => x = y
          BY <1>1 DEF LanesInv, QueuesAreOrderly, q
        <5>4. \A x \in 1 .. Len(q) + 1 :
                \/ x \in 1 .. Len(q) /\ Append(q, k)[x] = q[x]
                \/ x = Len(q) + 1 /\ Append(q, k)[x] = k
          <6>1. \A x \in 1 .. Len(q) + 1 : x \in 1 .. Len(q) \/ x = Len(q) + 1
            BY <2>2
          <6> QED BY <2>2, <6>1
        <5>5. LaneOf(Append(q, k)[i]) = l
          BY <4>1, <5>1, <5>2, <5>4 DEF lane
        <5>6. Append(q, k)[i] = Append(q, k)[j] => i = j
          BY <2>3, <5>1, <5>3, <5>4
        <5> QED BY <5>0, <5>5, <5>6
      <4>2. CASE l # lane
        BY <2>1, <3>1, <4>2 DEF LanesInv, QueuesAreOrderly
      <4> QED BY <4>1, <4>2
    <3> QED BY <3>1 DEF QueuesAreOrderly, LaneOf
  <2>5. QueuesHoldTheQueued'
    <3>1. ASSUME NEW a \in Attempts
          PROVE  pc'[a] = "queued" <=>
                   \E i \in 1 .. Len(queues'[LaneOf(a)]) : queues'[LaneOf(a)][i] = a
      <4>0. /\ LaneOf(a) \in Lanes
            /\ pc[a] = "queued" <=> \E i \in 1 .. Len(queues[LaneOf(a)]) : queues[LaneOf(a)][i] = a
        BY LaneTypes DEF LanesInv, QueuesHoldTheQueued
      <4>1. CASE LaneOf(a) # lane
        BY <2>1, <4>0, <4>1 DEF lane
      <4>2. CASE LaneOf(a) = lane
        <5>1. queues'[LaneOf(a)] = Append(q, k) /\ queues[LaneOf(a)] = q
          BY <2>1, <4>0, <4>2 DEF q
        <5>2. CASE a = k
          <6>1. Len(q) + 1 \in 1 .. Len(Append(q, k))
            BY <2>2
          <6> QED BY <2>1, <2>2, <5>1, <5>2, <6>1
        <5>3. CASE a # k
          <6>1. ASSUME NEW i \in 1 .. Len(Append(q, k)), Append(q, k)[i] = a
                PROVE  i \in 1 .. Len(q) /\ q[i] = a
            BY <2>2, <5>3, <6>1
          <6>2. ASSUME NEW i \in 1 .. Len(q), q[i] = a
                PROVE  i \in 1 .. Len(Append(q, k)) /\ Append(q, k)[i] = a
            BY <2>2, <6>2
          <6> QED BY <2>1, <4>0, <5>1, <5>3, <6>1, <6>2
        <5> QED BY <5>2, <5>3
      <4> QED BY <4>1, <4>2
    <3> QED BY <3>1 DEF QueuesHoldTheQueued, LaneOf
  <2>6. WorkersWork'
    <3>1. \A x \in Attempts : InProgress(x)' <=> InProgress(x)
      BY <1>1, <2>1 DEF InProgress
    <3>2. ASSUME NEW a \in Attempts, Open(a)
          PROVE  LaneOf(a) \in workers' <=>
                   \E x \in Attempts : LaneOf(x) = LaneOf(a) /\ pc'[x] # "none"
      <4>1. CASE LaneOf(a) = lane
        BY <1>3, <2>1, <4>1 DEF lane
      <4>2. CASE LaneOf(a) # lane
        BY <1>3, <2>1, <3>2, <4>2 DEF LanesInv, WorkersWork, lane
      <4> QED BY <4>1, <4>2
    <3> QED BY <1>1, <3>1, <3>2 DEF LanesInv, WorkersWork, LaneOf, Open
  <2> QED BY <2>4, <2>5, <2>6 DEF LanesInv
<1> QED BY <1>2, <1>3 DEF JobReady

\* A closed manager has neither offers nor workers.
LEMMA ClosingKeepsLanes ==
  ASSUME DeliveryTypeOK, LanesInv, NEW m \in Managers, CloseBegin(m) \/ CloseEnd(m)
  PROVE  LanesInv'
<1>0. \A a \in Attempts : /\ LaneOf(a) \in Lanes
                          /\ LaneOf(a)[1] = ManagerOf[a]
                          /\ ManagerOf[a] \in Managers
  BY DeliveryConstants, SlotConstants DEF LaneOf, Lanes
<1>1. CASE CloseBegin(m)
  <2>1. /\ managerState' = [managerState EXCEPT ![m] = "closing"]
        /\ UNCHANGED <<queues, workers, pc>>
    BY <1>1 DEF CloseBegin, taskVars
  <2>2. \A a \in Attempts : Open(a)' => Open(a)
    BY <1>0, <2>1 DEF Open, DeliveryTypeOK
  <2>3. QueuesHoldTheQueued' /\ QueuesAreOrderly'
    BY <2>1 DEF LanesInv, QueuesHoldTheQueued, QueuesAreOrderly, LaneOf
  <2>4. WorkersWork'
    BY <2>1, <2>2 DEF LanesInv, WorkersWork, LaneOf, InProgress
  <2> QED BY <2>3, <2>4 DEF LanesInv
<1>2. CASE CloseEnd(m)
  <2>1. /\ managerState' = [managerState EXCEPT ![m] = "closed"]
        /\ workers' = {lane \in workers : lane[1] # m}
        /\ \A l \in Lanes : queues'[l] = IF l[1] = m THEN <<>> ELSE queues[l]
        /\ \A a \in Attempts : pc'[a] = IF ManagerOf[a] = m THEN "none" ELSE pc[a]
    BY <1>2 DEF CloseEnd
  <2>2. QueuesAreOrderly'
    <3>1. ASSUME NEW l \in Lanes, NEW i \in 1 .. Len(queues'[l]), NEW j \in 1 .. Len(queues'[l])
          PROVE  /\ LaneOf(queues'[l][i]) = l
                 /\ queues'[l][i] = queues'[l][j] => i = j
      <4>1. CASE l[1] = m
        BY <2>1, <3>1, <4>1, EmptySeq
      <4>2. CASE l[1] # m
        BY <2>1, <3>1, <4>2 DEF LanesInv, QueuesAreOrderly
      <4> QED BY <4>1, <4>2
    <3> QED BY <3>1 DEF QueuesAreOrderly, LaneOf
  <2>3. QueuesHoldTheQueued'
    <3>1. ASSUME NEW a \in Attempts
          PROVE  pc'[a] = "queued" <=>
                   \E i \in 1 .. Len(queues'[LaneOf(a)]) : queues'[LaneOf(a)][i] = a
      <4>1. CASE ManagerOf[a] = m
        <5>1. queues'[LaneOf(a)] = <<>> /\ pc'[a] = "none"
          BY <1>0, <2>1, <4>1
        <5> QED BY <5>1, EmptySeq
      <4>2. CASE ManagerOf[a] # m
        BY <1>0, <2>1, <4>2 DEF LanesInv, QueuesHoldTheQueued
      <4> QED BY <4>1, <4>2
    <3> QED BY <3>1 DEF QueuesHoldTheQueued, LaneOf
  <2>4. WorkersWork'
    <3>1. ASSUME NEW a \in Attempts, NEW x \in Attempts, LaneOf(x) = LaneOf(a), InProgress(x)',
                 InProgress(a)'
          PROVE  x = a
      BY <2>1, <3>1 DEF LanesInv, WorkersWork, InProgress
    <3>2. ASSUME NEW a \in Attempts, Open(a)'
          PROVE  LaneOf(a) \in workers' <=>
                   \E x \in Attempts : LaneOf(x) = LaneOf(a) /\ pc'[x] # "none"
      <4>1. ManagerOf[a] # m /\ Open(a)
        BY <1>0, <2>1, <3>2 DEF Open, DeliveryTypeOK
      <4>2. LaneOf(a) \in workers' <=> LaneOf(a) \in workers
        BY <1>0, <2>1, <4>1
      <4>3. \A x \in Attempts : LaneOf(x) = LaneOf(a) => pc'[x] = pc[x]
        BY <1>0, <2>1, <4>1
      <4> QED BY <4>1, <4>2, <4>3 DEF LanesInv, WorkersWork
    <3> QED BY <3>1, <3>2 DEF WorkersWork, LaneOf
  <2> QED BY <2>2, <2>3, <2>4 DEF LanesInv
<1> QED BY <1>1, <1>2

\* Every step keeps queues and workers together.
LEMMA LanesStep ==
  ASSUME DeliveryTypeOK, LanesInv, [DeliveryNext]_vars
  PROVE  LanesInv'
<1>1. ASSUME UNCHANGED <<pc, queues, workers, managerState>> PROVE LanesInv'
  BY <1>1 DEF LanesInv, QueuesHoldTheQueued, QueuesAreOrderly, WorkersWork, LaneOf, Open,
              InProgress
<1>2. ASSUME NEW k \in Attempts, WorkerStep(k) PROVE LanesInv'
  <2>1. CASE StartDelivery(k)
    BY <2>1, StartKeepsLanes
  <2>2. CASE ClaimSent(k)
    <3>1. /\ InProgress(k)
          /\ \E next \in {"inSlot", "slotWait"} : pc' = [pc EXCEPT ![k] = next]
          /\ UNCHANGED <<queues, workers, managerState>>
      BY <2>2 DEF ClaimSent, InProgress, managerVars
    <3> QED BY <3>1, StayingKeepsLanes
  <2>3. CASE SlotGranted(k)
    <3>1. /\ InProgress(k)
          /\ pc' = [pc EXCEPT ![k] = "inSlot"]
          /\ UNCHANGED <<queues, workers, managerState>>
      BY <2>3 DEF SlotGranted, InProgress, managerVars
    <3> QED BY <3>1, StayingKeepsLanes
  <2>4. CASE IdleCheck(k)
    <3>1. /\ InProgress(k)
          /\ Abort(k) \/ \E next \in {"starting", "idleWait"} : GoTo(k, next)
          /\ UNCHANGED <<queues, managerState>>
      BY <2>4 DEF IdleCheck, InProgress
    <3> QED BY <3>1, OutcomeKeepsLanes
  <2>5. CASE Wake(k)
    <3>1. InProgress(k) /\ GoTo(k, "inSlot") /\ UNCHANGED <<queues, managerState>>
      BY <2>5 DEF Wake, InProgress
    <3> QED BY <3>1, OutcomeKeepsLanes
  <2>6. CASE AuthorizationDecided(k)
    <3>1. /\ InProgress(k)
          /\ \E next \in {"authorized", "refused"} : GoTo(k, next)
          /\ UNCHANGED <<queues, managerState>>
      BY <2>6 DEF AuthorizationDecided, InProgress
    <3> QED BY <3>1, OutcomeKeepsLanes
  <2>7. CASE AuthorizationReturned(k)
    <3>1. /\ InProgress(k)
          /\ Abort(k) \/ GoTo(k, "notifying")
          /\ UNCHANGED <<queues, managerState>>
      BY <2>7 DEF AuthorizationReturned, InProgress
    <3> QED BY <3>1, OutcomeKeepsLanes
  <2>8. CASE PlaybackStartedSent(k)
    <3>1. /\ InProgress(k)
          /\ Abort(k) \/ GoTo(k, "playing")
          /\ UNCHANGED <<queues, managerState>>
      BY <2>8 DEF PlaybackStartedSent, InProgress
    <3> QED BY <3>1, OutcomeKeepsLanes
  <2>9. CASE AnnounceDone(k)
    <3>1. InProgress(k) /\ GoTo(k, "acking") /\ UNCHANGED <<queues, managerState>>
      BY <2>9 DEF AnnounceDone, InProgress
    <3> QED BY <3>1, OutcomeKeepsLanes
  <2>10. CASE FrameSent(k)
    <3>1. /\ InProgress(k)
          /\ EndDelivery(k) \/ \E next \in {"authWait", "acking"} : GoTo(k, next)
          /\ UNCHANGED <<queues, managerState>>
      BY <2>10 DEF FrameSent, InProgress
    <3> QED BY <3>1, OutcomeKeepsLanes
  <2>11. CASE DeliveryFails(k)
    <3>1. InProgress(k) /\ EndDelivery(k) /\ UNCHANGED <<queues, managerState>>
      BY <2>11 DEF DeliveryFails, InProgress, Sending
    <3> QED BY <3>1, OutcomeKeepsLanes
  <2>12. CASE Finish(k)
    <3>1. InProgress(k) /\ ForgetAttempt(k) /\ UNCHANGED <<queues, managerState>>
      BY <2>12 DEF Finish, InProgress
    <3> QED BY <3>1, ForgettingKeepsLanes
  <2>13. CASE CancelDelivery(k)
    <3>1. InProgress(k) /\ EndDelivery(k) /\ UNCHANGED <<queues, managerState>>
      BY <2>13 DEF CancelDelivery, Cancellable
    <3> QED BY <3>1, OutcomeKeepsLanes
  <2> QED BY <1>2, <2>1, <2>2, <2>3, <2>4, <2>5, <2>6, <2>7, <2>8, <2>9, <2>10, <2>11, <2>12,
             <2>13 DEF WorkerStep
<1>3. ASSUME NEW k \in Attempts,
             JobAuthorized(k) \/ JobRevoke(k) \/ RenewFails(k) \/ NackSent(k)
      PROVE  LanesInv'
  BY <1>1, <1>3 DEF JobAuthorized, JobRevoke, RenewFails, NackSent, managerVars, taskVars
<1>4. CASE SatelliteStep \/ ClockStep \/ UNCHANGED vars
  BY <1>1, <1>4 DEF SatelliteStep, ClockStep, vars, deliveryVars, managerVars, taskVars
<1> QED BY <1>2, <1>3, <1>4, OfferKeepsLanes, ClosingKeepsLanes DEF DeliveryNext, CasaStep

-----------------------------------------------------------------------------
(* The invariant and what follows from it.                                  *)

\* The managers and the directory start with nothing, and so does the invariant.
LEMMA StateInit == DeliveryInit => StateInv
<1> SUFFICES ASSUME DeliveryInit PROVE StateInv
  OBVIOUS
<1>1. SlotInv /\ PhasesHold
  BY DeliveryInitSlots, SlotInitInv
<1>2. DirectoryInv
  BY DirectoryInitInv DEF DeliveryInit
<1>3. DeliveryTypeOK
  BY EmptySeq, DeliveryConstants, NoneAssumption DEF DeliveryInit, DeliveryTypeOK, Phases
<1>4. \A k \in Attempts : /\ LaneOf(k) \in Lanes
                          /\ ManagerOf[k] \in Managers
  BY LaneTypes, <1>3, DeliveryConstants
<1>5. QueuesHoldTheQueued /\ QueuesAreOrderly /\ WorkersWork
  BY <1>4, EmptySeq
     DEF DeliveryInit, QueuesHoldTheQueued, QueuesAreOrderly, WorkersWork, InProgress
<1>6. Clean
  BY <1>4 DEF DeliveryInit, SlotInit, DirectoryInit, Clean, UsesSlot, Listens
<1> QED BY <1>1, <1>2, <1>3, <1>5, <1>6 DEF StateInv

\* Every step keeps it.
LEMMA StateStep ==
  ASSUME StateInv, [DeliveryNext]_vars
  PROVE  StateInv'
<1>1. SlotInv' /\ PhasesHold'
  <2>1. [SlotNext]_slotVars /\ PhasesHold'
    BY DeliverySlotStep DEF SlotStep, SlotInv, StateInv
  <2> QED BY <2>1, SlotInvStep DEF StateInv
<1>2. DirectoryInv'
  BY DeliveryDirectoryStep DEF StateInv
<1>3. DeliveryTypeOK'
  BY DeliveryTypesStep DEF StateInv
<1>4. QueuesHoldTheQueued' /\ QueuesAreOrderly' /\ WorkersWork'
  BY LanesStep DEF StateInv, LanesInv
<1>5. Clean'
  BY CleanStep
<1> QED BY <1>1, <1>2, <1>3, <1>4, <1>5 DEF StateInv

\* The managers, their queues and workers, the slots and the directory fit
\* together in every reachable state.
THEOREM DeliveryStateInvariant == DeliverySafety => []StateInv
<1>1. StateInv /\ [DeliveryNext]_vars => StateInv'
  BY StateStep
<1> QED BY <1>1, StateInit, PTL DEF DeliverySafety

\* The state of the managers keeps its types.
THEOREM DeliveryTypes == DeliverySafety => []DeliveryTypeOK
<1>1. StateInv => DeliveryTypeOK
  BY DEF StateInv
<1> QED BY <1>1, DeliveryStateInvariant, PTL

\* No offer is stranded between a worker that retires and one that starts: an
\* offer that waits is in the queue of its device, and the device has a worker.
THEOREM NoOfferIsStranded == DeliverySafety => []EveryOfferHasAWorker
<1>1. StateInv => EveryOfferHasAWorker
  <2> SUFFICES ASSUME StateInv PROVE EveryOfferHasAWorker
    OBVIOUS
  <2>1. ASSUME NEW k \in Attempts
        PROVE  pc[k] = "queued" <=> Contains(queues[LaneOf(k)], k)
    BY DEF StateInv, QueuesHoldTheQueued, Contains
  <2> QED BY <2>1 DEF StateInv, WorkersWork, EveryOfferHasAWorker
<1> QED BY <1>1, DeliveryStateInvariant, PTL

\* A delivery that has ended, in whatever way, has left its slot, its event, its
\* renewer and its authorization, and a closed manager has no task at all.
THEOREM DeliveryLeaksNothing == DeliverySafety => []NothingLeaks
<1>1. StateInv => NothingLeaks
  <2> SUFFICES ASSUME StateInv PROVE NothingLeaks
    OBVIOUS
  <2>1. \A k \in Attempts :
          k \in pulsed \cup UNION {listeners[d] : d \in Devices} => Listens(k)
    BY DEF Listens
  <2>2. renewing \subseteq {k \in Attempts : UsesSlot(k)}
    BY DEF StateInv, Clean, DeliveryTypeOK
  <2> QED BY <2>1, <2>2 DEF StateInv, Clean, NothingLeaks, Outside, Asking
<1> QED BY <1>1, DeliveryStateInvariant, PTL

-----------------------------------------------------------------------------
(* What single steps do.                                                    *)

\* A step that is no worker's offers an attempt, forgets it, or leaves it alone.
LEMMA OtherStepsStartNothing ==
  ASSUME DeliveryTypeOK, [DeliveryNext]_vars, NEW k \in Attempts,
         \A a \in Attempts : ~WorkerStep(a)
  PROVE  pc'[k] \in {pc[k], "queued", "none"}
<1>1. ASSUME NEW a \in Attempts, JobReady(a) PROVE pc'[k] \in {pc[k], "queued", "none"}
  BY <1>1 DEF JobReady, DeliveryTypeOK
<1>2. ASSUME NEW m \in Managers, CloseEnd(m) PROVE pc'[k] \in {pc[k], "queued", "none"}
  BY <1>2 DEF CloseEnd
<1>3. ASSUME UNCHANGED pc PROVE pc'[k] \in {pc[k], "queued", "none"}
  BY <1>3
<1>4. ASSUME NEW a \in Attempts,
             JobAuthorized(a) \/ JobRevoke(a) \/ RenewFails(a) \/ NackSent(a)
      PROVE  UNCHANGED pc
  BY <1>4 DEF JobAuthorized, JobRevoke, RenewFails, NackSent, taskVars
<1>5. ASSUME NEW m \in Managers, CloseBegin(m) PROVE UNCHANGED pc
  BY <1>5 DEF CloseBegin, taskVars
<1>6. CASE SatelliteStep \/ ClockStep \/ UNCHANGED vars
  BY <1>3, <1>6 DEF SatelliteStep, ClockStep, vars, deliveryVars, taskVars
<1> QED BY <1>1, <1>2, <1>3, <1>4, <1>5, <1>6 DEF DeliveryNext, CasaStep

\* Every step of the managers is proper for the attempt it moves.
LEMMA MovesAreProper ==
  ASSUME StateInv, [DeliveryNext]_vars, NEW k \in Attempts,
         pc'[k] # pc[k], pc'[k] \notin {"queued", "none"}
  PROVE  Proper(k, pc'[k])
<1>0. DeliveryTypeOK
  BY DEF StateInv
<1>1. PICK a \in Attempts : WorkerStep(a)
  BY <1>0, OtherStepsStartNothing
<1>2. PICK next : Proper(a, next)
  BY <1>1, WorkerIsProper
<1>3. pc' = [pc EXCEPT ![a] = next]
  BY <1>2 DEF Proper, Moves
<1>4. a = k /\ pc'[k] = next
  BY <1>0, <1>3 DEF DeliveryTypeOK
<1> QED BY <1>2, <1>4

\* After a lost lease the attempt may be someone else's, and no frame is begun
\* for it but the report of an announcement under way.
THEOREM LostLeaseIsSilent == DeliverySafety => LeaseLossSilences
<1> DEFINE Silent == \A k \in Attempts :
       k \in leaseLost /\ pc'[k] # pc[k] /\ pc'[k] \in Sending => pc'[k] = "acking"
<1>1. StateInv /\ [DeliveryNext]_vars => [Silent]_vars
  <2> SUFFICES ASSUME StateInv, [DeliveryNext]_vars PROVE Silent
    OBVIOUS
  <2>1. "queued" \notin Sending /\ "none" \notin Sending
    BY DEF Sending
  <2> QED BY <2>1, MovesAreProper DEF Proper
<1> QED BY <1>1, DeliveryStateInvariant, PTL DEF DeliverySafety, LeaseLossSilences

\* Nothing is spoken at the wrong moment: an announcement begins only while the
\* offer stands, the lease is kept, and the satellite is the one of the device and
\* has been idle for the stability interval.
THEOREM PlaybackIsEntitled == DeliverySafety => PlaybackStartsEntitled
<1> DEFINE Entitled == \A k \in Attempts : Begins(k) =>
       /\ now < Expires[k]
       /\ k \notin revoked \cup leaseLost
       /\ \E e \in deviceEntities[DeviceOf[k]] :
            /\ deviceEntities[DeviceOf[k]] = {e} \/ Override[DeviceOf[k]] = e
            /\ entity[k] = e
            /\ entityStates[e] = "idle"
            /\ entityIdleSince[e] + Stability[ManagerOf[k]] <= now
<1>1. StateInv /\ [DeliveryNext]_vars => [Entitled]_vars
  <2> SUFFICES ASSUME StateInv, [DeliveryNext]_vars, NEW k \in Attempts, Begins(k)
               PROVE  /\ now < Expires[k]
                      /\ k \notin revoked \cup leaseLost
                      /\ \E e \in deviceEntities[DeviceOf[k]] :
                           /\ deviceEntities[DeviceOf[k]] = {e} \/ Override[DeviceOf[k]] = e
                           /\ entity[k] = e
                           /\ entityStates[e] = "idle"
                           /\ entityIdleSince[e] + Stability[ManagerOf[k]] <= now
    OBVIOUS
  <2>1. HasClaim(k)
    BY MovesAreProper DEF Begins, Proper
  <2>2. /\ DirectoryTypeOK /\ RegistryMapsAgree
        /\ DeviceOf[k] \in Devices
        /\ Expires[k] \in Nat
        /\ Stability[ManagerOf[k]] \in Nat
    BY DeliveryConstants, SlotConstants, DirectoryConstants DEF StateInv, DirectoryInv
  <2>3. now < Expires[k] /\ k \notin revoked \cup leaseLost
    BY <2>1, <2>2, DirectoryConstants DEF HasClaim, Withdrawn, Expired, DirectoryTypeOK
  <2> DEFINE e == entity[k]
  <2>4. e # None /\ Resolve(DeviceOf[k]) = e
    BY <2>1 DEF HasClaim, SameSatellite
  <2>5. /\ e \in deviceEntities[DeviceOf[k]]
        /\ deviceEntities[DeviceOf[k]] = {e} \/ Override[DeviceOf[k]] = e
    BY <2>4 DEF Resolve
  <2>6. e \in Entities
    BY <2>2, <2>5 DEF DirectoryTypeOK
  <2>7. entityStates[e] = "idle" /\ now - entityIdleSince[e] >= Stability[ManagerOf[k]]
    BY <2>1 DEF HasClaim, StablyIdle
  <2>8. entityIdleSince[e] \in Nat /\ now \in Nat
    BY <2>2, <2>6, <2>7, DirectoryConstants DEF RegistryMapsAgree, DirectoryTypeOK
  <2>9. entityIdleSince[e] + Stability[ManagerOf[k]] <= now
    BY <2>2, <2>7, <2>8
  <2> QED BY <2>3, <2>5, <2>7, <2>9
<1> QED BY <1>1, DeliveryStateInvariant, PTL DEF DeliverySafety, PlaybackStartsEntitled

-----------------------------------------------------------------------------
(* Who waits for whom.                                                      *)

StandsIn(line, a) == \E i \in 1 .. Len(line) : line[i] = a

InLine(a) == \E s \in Attempts : StandsIn(slotLine[s], a)

\* Beside StateInv: the lines of the locks are the deliveries suspended in them.
LinesHoldTheWaiting == \A k \in Attempts : pc[k] = "slotWait" <=> InLine(k)

\* The lock is released and k is the first of its line.
CanTake(k) ==
  \E s \in Attempts :
    slotOwner[s] = None /\ slotLine[s] # <<>> /\ Head(slotLine[s]) = k

\* k is the first of its queue, whose worker has nothing to do.
CanStart(k) ==
  /\ LaneOf(k) \in workers
  /\ ~LaneBusy(LaneOf(k))
  /\ queues[LaneOf(k)] # <<>>
  /\ Head(queues[LaneOf(k)]) = k

\* Deliveries wait for each other in two places: for the lock of the device, which
\* the agents share, and in the queue of their own agent.  A wait for the lock is
\* for a holder that is past both, or for nobody; a wait in the queue of an open
\* manager is for a delivery that has left the queue, or for nobody.
NoWaitIsCircular ==
  \A k \in Attempts :
    /\ pc[k] = "slotWait" =>
         \E x \in Attempts :
           /\ DeviceOf[x] = DeviceOf[k]
           /\ \/ HoldsSlot(x) /\ pc[x] \notin {"none", "queued", "slotWait"}
              \/ pc[x] = "slotWait" /\ CanTake(x)
    /\ pc[k] = "queued" /\ Open(k) =>
         \E x \in Attempts : LaneOf(x) = LaneOf(k) /\ (InProgress(x) \/ CanStart(x))

\* Who stands in a line that someone joins at the end, or leaves.
LEMMA WhoStandsInLine ==
  ASSUME NEW S, NEW line \in Seq(S), NEW k \in S
  PROVE  /\ \A a : StandsIn(Append(line, k), a) <=> StandsIn(line, a) \/ a = k
         /\ line # <<>> =>
              \A a : StandsIn(line, a) <=> StandsIn(Tail(line), a) \/ a = Head(line)
         /\ \A i \in 1 .. Len(line) :
              \A a : StandsIn(line, a) <=> StandsIn(RemoveAt(line, i), a) \/ a = line[i]
<1>0. Len(line) \in Nat
  BY LenProperties
<1>1. ASSUME NEW a PROVE StandsIn(Append(line, k), a) <=> StandsIn(line, a) \/ a = k
  <2>1. /\ Len(Append(line, k)) = Len(line) + 1
        /\ \A i \in 1 .. Len(line) : Append(line, k)[i] = line[i]
        /\ Append(line, k)[Len(line) + 1] = k
    BY AppendProperties
  <2> QED BY <1>0, <2>1 DEF StandsIn
<1>2. ASSUME line # <<>>, NEW a
      PROVE  StandsIn(line, a) <=> StandsIn(Tail(line), a) \/ a = Head(line)
  <2>1. /\ Len(line) # 0
        /\ Head(line) = line[1]
        /\ Len(Tail(line)) = Len(line) - 1
        /\ \A i \in 1 .. Len(Tail(line)) : Tail(line)[i] = line[i + 1]
    BY <1>2, HeadTailProperties, EmptySeq
  <2>2. ASSUME NEW i \in 1 .. Len(line), line[i] = a
        PROVE  StandsIn(Tail(line), a) \/ a = Head(line)
    <3>1. i = 1 \/ i - 1 \in 1 .. Len(Tail(line))
      BY <1>0, <2>1
    <3>2. CASE i - 1 \in 1 .. Len(Tail(line))
      <4>1. Tail(line)[i - 1] = line[i]
        BY <1>0, <2>1, <3>2
      <4> QED BY <2>2, <3>2, <4>1 DEF StandsIn
    <3> QED BY <2>1, <2>2, <3>1, <3>2
  <2>3. ASSUME NEW i \in 1 .. Len(Tail(line)), Tail(line)[i] = a PROVE StandsIn(line, a)
    <3>1. i + 1 \in 1 .. Len(line)
      BY <1>0, <2>1
    <3> QED BY <2>1, <2>3, <3>1 DEF StandsIn
  <2>4. 1 \in 1 .. Len(line)
    BY <1>0, <2>1
  <2> QED BY <2>1, <2>2, <2>3, <2>4 DEF StandsIn
<1>3. ASSUME NEW i \in 1 .. Len(line), NEW a
      PROVE  StandsIn(line, a) <=> StandsIn(RemoveAt(line, i), a) \/ a = line[i]
  <2> DEFINE rest == RemoveAt(line, i)
  <2>1. /\ Len(rest) = Len(line) - 1
        /\ \A j \in 1 .. Len(line) - 1 : rest[j] = IF j < i THEN line[j] ELSE line[j + 1]
    BY RemoveAtProperties
  <2> HIDE DEF rest
  <2>2. ASSUME NEW j \in 1 .. Len(line), line[j] = a
        PROVE  StandsIn(rest, a) \/ a = line[i]
    <3>1. CASE j < i
      <4>1. j \in 1 .. Len(rest) /\ rest[j] = line[j]
        BY <1>0, <2>1, <3>1
      <4> QED BY <2>2, <4>1 DEF StandsIn
    <3>2. CASE j > i
      <4>1. j - 1 \in 1 .. Len(rest) /\ rest[j - 1] = line[j]
        BY <1>0, <2>1, <3>2
      <4> QED BY <2>2, <4>1 DEF StandsIn
    <3> QED BY <1>0, <2>2, <3>1, <3>2
  <2>3. ASSUME NEW j \in 1 .. Len(rest), rest[j] = a PROVE StandsIn(line, a)
    <3>1. j \in 1 .. Len(line) /\ j + 1 \in 1 .. Len(line)
      BY <1>0, <2>1
    <3>2. rest[j] = line[j] \/ rest[j] = line[j + 1]
      BY <2>1, <3>1
    <3> QED BY <2>3, <3>1, <3>2 DEF StandsIn
  <2> QED BY <2>2, <2>3 DEF StandsIn, rest
<1> QED BY <1>1, <1>2, <1>3

\* Those in line use the slot, and do not hold it.
LEMMA WaitersUseTheSlot ==
  ASSUME SlotInv, NEW a \in Attempts, InLine(a)
  PROVE  /\ UsesSlot(a) /\ ~HoldsSlot(a)
         /\ \A s \in Attempts : StandsIn(slotLine[s], a) => s = SlotOf(a)
<1>1. PICK s \in Attempts : StandsIn(slotLine[s], a)
  BY DEF InLine
<1>2. \A t \in Attempts : StandsIn(slotLine[t], a) => a \in slotUsers[t] /\ slotOwner[t] # a
  BY DEF StandsIn, SlotInv, LinesAreOrderly, Waiting
<1>3. UsesSlot(a)
  BY <1>1, <1>2 DEF UsesSlot
<1>4. \A t \in Attempts : a \in slotUsers[t] => t = SlotOf(a)
  BY <1>3, SlotOfUser
<1>5. \A t \in Attempts : slotOwner[t] = a => a \in slotUsers[t]
  BY NoneAssumption DEF SlotInv, OwnersAreUsers
<1> QED BY <1>1, <1>2, <1>3, <1>4, <1>5 DEF HoldsSlot

\* What the lines are after an entry, a grant or an exit.
LEMMA LinesAfter ==
  ASSUME SlotInv, NEW k \in Attempts
  PROVE  /\ UNCHANGED slotVars => \A a \in Attempts : InLine(a)' <=> InLine(a)
         /\ RequestSlot(k) =>
              \A a \in Attempts : InLine(a)' <=> InLine(a) \/ (a = k /\ ~HoldsSlot(k)')
         /\ GrantSlot(k) => \A a \in Attempts : InLine(a)' <=> InLine(a) /\ a # k
         /\ ReleaseSlot(k) => \A a \in Attempts : InLine(a)' <=> InLine(a) /\ a # k
<1>0. \A s \in Attempts : slotLine[s] \in Seq(Attempts)
  BY DEF SlotInv, SlotTypeOK
<1>1. ASSUME UNCHANGED slotVars, NEW a \in Attempts PROVE InLine(a)' <=> InLine(a)
  BY <1>1 DEF slotVars, InLine, StandsIn
<1>2. ASSUME RequestSlot(k), NEW a \in Attempts
      PROVE  InLine(a)' <=> InLine(a) \/ (a = k /\ ~HoldsSlot(k)')
  <2> DEFINE s == SlotFor(k)
  <2>1. s \in Attempts
    BY SlotConstants, NoneAssumption DEF SlotFor, SlotInv, SlotTypeOK
  <2>2. ~InLine(k)
    BY <1>2, WaitersUseTheSlot DEF RequestSlot
  <2>3. ~HoldsSlot(k)
    BY <1>2, NoneAssumption DEF RequestSlot, HoldsSlot, UsesSlot, SlotInv, OwnersAreUsers
  <2>4. CASE slotOwner' = [slotOwner EXCEPT ![s] = k] /\ UNCHANGED slotLine
    <3>1. HoldsSlot(k)'
      BY <2>1, <2>4 DEF HoldsSlot, SlotInv, SlotTypeOK
    <3>2. InLine(a)' <=> InLine(a)
      BY <2>4 DEF InLine, StandsIn
    <3> QED BY <3>1, <3>2
  <2>5. CASE slotLine' = [slotLine EXCEPT ![s] = Append(@, k)] /\ UNCHANGED slotOwner
    <3>1. ~HoldsSlot(k)'
      BY <2>3, <2>5 DEF HoldsSlot
    <3>2. StandsIn(Append(slotLine[s], k), a) <=> StandsIn(slotLine[s], a) \/ a = k
      BY <1>0, <2>1, WhoStandsInLine
    <3>3. \A t \in Attempts :
            slotLine'[t] = IF t = s THEN Append(slotLine[s], k) ELSE slotLine[t]
      BY <2>1, <2>5 DEF SlotInv, SlotTypeOK
    <3> HIDE DEF s
    <3>4. InLine(a)' <=> \E t \in Attempts : StandsIn(slotLine'[t], a)
      BY DEF InLine, StandsIn
    <3> QED BY <2>1, <3>1, <3>2, <3>3, <3>4 DEF InLine
  <2> QED BY <1>2, <2>4, <2>5 DEF RequestSlot
<1>3. ASSUME NEW s \in Attempts, NEW i \in 1 .. Len(slotLine[s]), slotLine[s][i] = k,
             NEW rest, slotLine' = [slotLine EXCEPT ![s] = rest],
             \A a : StandsIn(slotLine[s], a) <=> StandsIn(rest, a) \/ a = k,
             ~StandsIn(rest, k),
             NEW a \in Attempts
      PROVE  InLine(a)' <=> InLine(a) /\ a # k
  <2>1. StandsIn(slotLine[s], k)
    BY <1>3 DEF StandsIn
  <2>2. \A t \in Attempts : StandsIn(slotLine[t], k) => t = s
    BY <2>1, WaitersUseTheSlot DEF InLine
  <2>3. \A t \in Attempts : slotLine'[t] = IF t = s THEN rest ELSE slotLine[t]
    BY <1>3 DEF SlotInv, SlotTypeOK
  <2>4. InLine(a)' <=> \E t \in Attempts : StandsIn(slotLine'[t], a)
    BY DEF InLine, StandsIn
  <2> QED BY <1>3, <2>2, <2>3, <2>4 DEF InLine
<1>4. ASSUME GrantSlot(k), NEW a \in Attempts PROVE InLine(a)' <=> InLine(a) /\ a # k
  <2>1. PICK s \in Attempts :
          /\ slotLine[s] # <<>>
          /\ Head(slotLine[s]) = k
          /\ slotLine' = [slotLine EXCEPT ![s] = Tail(@)]
    BY <1>4 DEF GrantSlot
  <2>2. /\ \A x : StandsIn(slotLine[s], x) <=> StandsIn(Tail(slotLine[s]), x) \/ x = k
        /\ Waiting(Tail(slotLine[s]), slotUsers[s], k)
    BY <1>0, <2>1, WhoStandsInLine, WaiterServed DEF SlotInv, LinesAreOrderly
  <2>3. 1 \in 1 .. Len(slotLine[s]) /\ slotLine[s][1] = k
    BY <1>0, <2>1, HeadTailProperties, EmptySeq, LenProperties
  <2>4. ~StandsIn(Tail(slotLine[s]), k)
    BY <2>2 DEF StandsIn, Waiting
  <2> QED BY <1>3, <2>1, <2>2, <2>3, <2>4
<1>5. ASSUME ReleaseSlot(k), NEW a \in Attempts PROVE InLine(a)' <=> InLine(a) /\ a # k
  <2> DEFINE s == SlotOf(k)
  <2>1. s \in Attempts /\ LeaveLock(s, k)
    BY <1>5, SlotOfUser DEF ReleaseSlot
  <2> HIDE DEF s
  <2>2. CASE slotOwner[s] = k /\ UNCHANGED slotLine
    <3>1. HoldsSlot(k)
      BY <2>1, <2>2 DEF HoldsSlot
    <3>2. ~InLine(k)
      BY <3>1, WaitersUseTheSlot
    <3> QED BY <2>2, <3>2 DEF InLine, StandsIn
  <2>3. ASSUME NEW i \in 1 .. Len(slotLine[s]), slotLine[s][i] = k,
               slotLine' = [slotLine EXCEPT ![s] = RemoveAt(@, i)]
        PROVE  InLine(a)' <=> InLine(a) /\ a # k
    <3>1. \A x : StandsIn(slotLine[s], x) <=> StandsIn(RemoveAt(slotLine[s], i), x) \/ x = k
      BY <1>0, <2>1, <2>3, WhoStandsInLine
    <3>2. Waiting(RemoveAt(slotLine[s], i), slotUsers[s] \ {k}, slotOwner[s])
      BY <1>0, <2>1, <2>3, WaiterLeaves DEF SlotInv, LinesAreOrderly
    <3>3. ~StandsIn(RemoveAt(slotLine[s], i), k)
      BY <3>2 DEF StandsIn, Waiting
    <3> QED BY <1>3, <2>1, <2>3, <3>1, <3>3
  <2> QED BY <2>1, <2>2, <2>3 DEF LeaveLock
<1> QED BY <1>1, <1>2, <1>4, <1>5

\* k goes on to next, and is in a line of a lock if that is where it goes.
ComesAndGoes(k, next) ==
  /\ pc' = [pc EXCEPT ![k] = next]
  /\ \/ RequestSlot(k) /\ (next = "slotWait" <=> ~HoldsSlot(k)')
     \/ GrantSlot(k) /\ next # "slotWait"
     \/ ReleaseSlot(k) /\ next # "slotWait"
     \/ UNCHANGED slotVars /\ next # "slotWait" /\ (pc[k] = "slotWait" => ~UsesSlot(k))

\* That is what every step of a worker does.
LEMMA WorkerComesAndGoes ==
  ASSUME StateInv, NEW k \in Attempts, WorkerStep(k)
  PROVE  \E next : ComesAndGoes(k, next)
<1>1. ASSUME NEW next, GoTo(k, next), pc[k] # "slotWait", next # "slotWait"
      PROVE  ComesAndGoes(k, next)
  BY <1>1 DEF GoTo, ComesAndGoes
<1>2. ASSUME EndDelivery(k) PROVE \E next : ComesAndGoes(k, next)
  <2>1. CASE ReleaseSlot(k) /\ pc' = [pc EXCEPT ![k] = "unwinding"]
    <3>1. ComesAndGoes(k, "unwinding")
      BY <2>1 DEF ComesAndGoes
    <3> QED BY <3>1
  <2>2. CASE ~UsesSlot(k) /\ ForgetAttempt(k) /\ UNCHANGED slotVars
    <3>1. ComesAndGoes(k, "none")
      BY <2>2 DEF ForgetAttempt, ComesAndGoes
    <3> QED BY <3>1
  <2> QED BY <1>2, <2>1, <2>2 DEF EndDelivery
<1>3. ASSUME Abort(k), pc[k] # "slotWait" PROVE \E next : ComesAndGoes(k, next)
  <2>1. EndDelivery(k) \/ \E next \in {"revoking", "nacking"} : GoTo(k, next)
    BY <1>3 DEF Abort
  <2> QED BY <1>1, <1>2, <1>3, <2>1
<1>4. CASE StartDelivery(k)
  <2>1. FirstFrame(k) # "slotWait"
    BY DEF FirstFrame
  <2>2. pc[k] # "slotWait"
    BY <1>4 DEF StartDelivery, LaneBusy, InProgress
  <2>3. GoTo(k, FirstFrame(k))
    BY <1>4 DEF StartDelivery
  <2> QED BY <1>1, <2>1, <2>2, <2>3
<1>5. CASE ClaimSent(k)
  <2>1. ComesAndGoes(k, IF HoldsSlot(k)' THEN "inSlot" ELSE "slotWait")
    BY <1>5 DEF ClaimSent, ComesAndGoes
  <2> QED BY <2>1
<1>6. CASE SlotGranted(k)
  <2>1. ComesAndGoes(k, "inSlot")
    BY <1>6 DEF SlotGranted, ComesAndGoes
  <2> QED BY <2>1
<1>7. CASE IdleCheck(k)
  <2>1. /\ pc[k] # "slotWait"
        /\ Abort(k) \/ \E next \in {"starting", "idleWait"} : GoTo(k, next)
    BY <1>7 DEF IdleCheck
  <2> QED BY <1>1, <1>3, <2>1
<1>8. CASE Wake(k) \/ AuthorizationDecided(k)
  <2>1. /\ pc[k] # "slotWait"
        /\ \E next \in {"inSlot", "authorized", "refused"} : GoTo(k, next)
    BY <1>8 DEF Wake, AuthorizationDecided
  <2> QED BY <1>1, <2>1
<1>9. CASE AuthorizationReturned(k) \/ PlaybackStartedSent(k)
  <2>1. /\ pc[k] # "slotWait"
        /\ Abort(k) \/ \E next \in {"notifying", "playing"} : GoTo(k, next)
    BY <1>9 DEF AuthorizationReturned, PlaybackStartedSent
  <2> QED BY <1>1, <1>3, <2>1
<1>10. CASE AnnounceDone(k) \/ FrameSent(k)
  <2>1. /\ pc[k] # "slotWait"
        /\ EndDelivery(k) \/ \E next \in {"acking", "authWait"} : GoTo(k, next)
    BY <1>10 DEF AnnounceDone, FrameSent
  <2> QED BY <1>1, <1>2, <2>1
<1>11. CASE DeliveryFails(k) \/ CancelDelivery(k)
  BY <1>2, <1>11 DEF DeliveryFails, CancelDelivery
<1>12. CASE Finish(k)
  <2>1. ComesAndGoes(k, "none")
    BY <1>12 DEF Finish, ForgetAttempt, ComesAndGoes
  <2> QED BY <2>1
<1> QED BY <1>4, <1>5, <1>6, <1>7, <1>8, <1>9, <1>10, <1>11, <1>12 DEF WorkerStep

\* Every step keeps the lines what they are.
LEMMA WaitingStep ==
  ASSUME StateInv, LinesHoldTheWaiting, [DeliveryNext]_vars
  PROVE  LinesHoldTheWaiting'
<1>0. pc \in [Attempts -> Phases]
  BY DEF StateInv, DeliveryTypeOK
<1>1. ASSUME NEW k \in Attempts, WorkerStep(k) PROVE LinesHoldTheWaiting'
  <2> SUFFICES ASSUME NEW a \in Attempts PROVE pc'[a] = "slotWait" <=> InLine(a)'
    BY DEF LinesHoldTheWaiting, InLine
  <2>1. PICK next : ComesAndGoes(k, next)
    BY <1>1, WorkerComesAndGoes
  <2>2. pc'[a] = IF a = k THEN next ELSE pc[a]
    BY <1>0, <2>1 DEF ComesAndGoes
  <2>3. pc[a] = "slotWait" <=> InLine(a)
    BY DEF LinesHoldTheWaiting
  <2>4. InLine(k) => UsesSlot(k)
    BY WaitersUseTheSlot DEF StateInv
  <2>5. pc[k] = "slotWait" <=> InLine(k)
    BY DEF LinesHoldTheWaiting
  <2>6. CASE RequestSlot(k) /\ (next = "slotWait" <=> ~HoldsSlot(k)')
    <3>1. InLine(a)' <=> InLine(a) \/ (a = k /\ ~HoldsSlot(k)')
      BY <2>6, LinesAfter DEF StateInv
    <3>2. ~InLine(k)
      BY <2>4, <2>6 DEF RequestSlot
    <3> QED BY <2>2, <2>3, <2>6, <3>1, <3>2
  <2>7. CASE (GrantSlot(k) \/ ReleaseSlot(k)) /\ next # "slotWait"
    <3>1. InLine(a)' <=> InLine(a) /\ a # k
      BY <2>7, LinesAfter DEF StateInv
    <3> QED BY <2>2, <2>3, <2>7, <3>1
  <2>8. CASE UNCHANGED slotVars /\ next # "slotWait" /\ (pc[k] = "slotWait" => ~UsesSlot(k))
    <3>1. InLine(a)' <=> InLine(a)
      BY <2>8, LinesAfter DEF StateInv
    <3> QED BY <2>2, <2>3, <2>4, <2>5, <2>8, <3>1
  <2> QED BY <2>1, <2>6, <2>7, <2>8 DEF ComesAndGoes
<1>2. ASSUME UNCHANGED slotVars,
             \A a \in Attempts : pc'[a] = "slotWait" <=> pc[a] = "slotWait"
      PROVE  LinesHoldTheWaiting'
  BY <1>2 DEF LinesHoldTheWaiting, InLine, StandsIn, slotVars
<1>3. ASSUME NEW k \in Attempts, JobReady(k) PROVE LinesHoldTheWaiting'
  <2>1. pc' = pc \/ (pc[k] = "none" /\ pc' = [pc EXCEPT ![k] = "queued"])
    BY <1>3 DEF JobReady
  <2>2. UNCHANGED slotVars
    BY <1>3 DEF JobReady
  <2> QED BY <1>0, <1>2, <2>1, <2>2
<1>4. ASSUME NEW k \in Attempts,
             JobAuthorized(k) \/ JobRevoke(k) \/ RenewFails(k) \/ NackSent(k)
      PROVE  LinesHoldTheWaiting'
  <2>1. UNCHANGED <<pc, slotVars>>
    BY <1>4 DEF JobAuthorized, JobRevoke, RenewFails, NackSent, taskVars
  <2> QED BY <1>2, <2>1
<1>5. ASSUME NEW m \in Managers, CloseBegin(m) PROVE LinesHoldTheWaiting'
  <2>1. UNCHANGED <<pc, slotVars>>
    BY <1>5 DEF CloseBegin, taskVars
  <2> QED BY <1>2, <2>1
<1>6. ASSUME NEW m \in Managers, CloseEnd(m) PROVE LinesHoldTheWaiting'
  <2>1. UNCHANGED slotVars
    BY <1>6 DEF CloseEnd
  <2>2. \A a \in Attempts :
          pc'[a] = pc[a] \/ (pc[a] \in {"none", "queued"} /\ pc'[a] = "none")
    BY <1>6 DEF CloseEnd, InProgress
  <2> QED BY <1>2, <2>1, <2>2
<1>7. CASE SatelliteStep \/ ClockStep \/ UNCHANGED vars
  <2>1. UNCHANGED <<pc, slotVars>>
    BY <1>7 DEF SatelliteStep, ClockStep, vars, deliveryVars, taskVars
  <2> QED BY <1>2, <2>1
<1> QED BY <1>1, <1>3, <1>4, <1>5, <1>6, <1>7 DEF DeliveryNext, CasaStep

\* In every reachable state, for any number of agents, jobs and devices, no
\* deliveries wait for each other in a circle.
THEOREM DeliveriesNeverDeadlock == DeliverySafety => []NoWaitIsCircular
<1>1. DeliveryInit => LinesHoldTheWaiting
  <2> SUFFICES ASSUME DeliveryInit, NEW k \in Attempts PROVE pc[k] # "slotWait" /\ ~InLine(k)
    BY DEF LinesHoldTheWaiting
  <2>1. \A s \in Attempts : Len(slotLine[s]) = 0
    BY EmptySeq DEF DeliveryInit, SlotInit
  <2> QED BY <2>1 DEF DeliveryInit, InLine, StandsIn
<1>2. StateInv /\ LinesHoldTheWaiting /\ [DeliveryNext]_vars => LinesHoldTheWaiting'
  BY WaitingStep
<1>3. StateInv /\ LinesHoldTheWaiting => NoWaitIsCircular
  <2> SUFFICES ASSUME StateInv, LinesHoldTheWaiting, NEW k \in Attempts
               PROVE  /\ pc[k] = "slotWait" =>
                           \E x \in Attempts :
                             /\ DeviceOf[x] = DeviceOf[k]
                             /\ \/ HoldsSlot(x) /\ pc[x] \notin {"none", "queued", "slotWait"}
                                \/ pc[x] = "slotWait" /\ CanTake(x)
                      /\ pc[k] = "queued" /\ Open(k) =>
                           \E x \in Attempts :
                             LaneOf(x) = LaneOf(k) /\ (InProgress(x) \/ CanStart(x))
    BY DEF NoWaitIsCircular
  <2>1. ASSUME pc[k] = "slotWait"
        PROVE  \E x \in Attempts :
                 /\ DeviceOf[x] = DeviceOf[k]
                 /\ \/ HoldsSlot(x) /\ pc[x] \notin {"none", "queued", "slotWait"}
                    \/ pc[x] = "slotWait" /\ CanTake(x)
    <3>1. PICK s \in Attempts : StandsIn(slotLine[s], k)
      BY <2>1 DEF LinesHoldTheWaiting, InLine
    <3>2. /\ slotLine[s] \in Seq(Attempts)
          /\ Len(slotLine[s]) \in Nat \ {0}
          /\ \A i \in 1 .. Len(slotLine[s]) : slotLine[s][i] \in slotUsers[s]
      BY <3>1, LenProperties
         DEF StandsIn, StateInv, SlotInv, SlotTypeOK, LinesAreOrderly, Waiting
    <3>3. /\ \A x \in slotUsers[s] : x \in Attempts /\ DeviceOf[x] = DeviceOf[s]
          /\ k \in slotUsers[s]
      BY <3>1, <3>2 DEF StandsIn, StateInv, SlotInv, SlotTypeOK, UsersShareTheMappedSlot
    <3>4. CASE slotOwner[s] # None
      <4> DEFINE x == slotOwner[s]
      <4>1. x \in slotUsers[s] /\ x \in Attempts
        BY <3>3, <3>4 DEF StateInv, SlotInv, OwnersAreUsers
      <4>2. HoldsSlot(x) /\ UsesSlot(x)
        BY <4>1 DEF HoldsSlot, UsesSlot
      <4>3. ~InLine(x)
        BY <4>1, <4>2, WaitersUseTheSlot DEF StateInv
      <4>4. pc[x] \notin {"none", "queued", "slotWait"}
        BY <4>1, <4>2, <4>3 DEF LinesHoldTheWaiting, StateInv, Clean, Outside
      <4> QED BY <3>3, <4>1, <4>2, <4>4
    <3>5. CASE slotOwner[s] = None
      <4> DEFINE x == Head(slotLine[s])
      <4>1. slotLine[s] # <<>> /\ x = slotLine[s][1]
        BY <3>2, EmptySeq
      <4>2. x \in slotUsers[s] /\ x \in Attempts
        BY <3>2, <3>3, <4>1
      <4>3. InLine(x)
        BY <3>2, <4>1 DEF InLine, StandsIn
      <4>4. pc[x] = "slotWait" /\ CanTake(x)
        BY <3>5, <4>1, <4>2, <4>3 DEF LinesHoldTheWaiting, CanTake
      <4> QED BY <3>3, <4>2, <4>4
    <3> QED BY <3>4, <3>5
  <2>2. ASSUME pc[k] = "queued", Open(k)
        PROVE  \E x \in Attempts : LaneOf(x) = LaneOf(k) /\ (InProgress(x) \/ CanStart(x))
    <3>1. LaneOf(k) \in workers
      BY <2>2 DEF StateInv, WorkersWork
    <3>2. /\ LaneOf(k) \in Lanes
          /\ queues[LaneOf(k)] \in Seq(Attempts)
      BY LaneTypes DEF StateInv
    <3>3. Len(queues[LaneOf(k)]) \in Nat \ {0}
      BY <2>2, <3>2, LenProperties DEF StateInv, QueuesHoldTheQueued
    <3> DEFINE x == Head(queues[LaneOf(k)])
    <3>4. queues[LaneOf(k)] # <<>> /\ x = queues[LaneOf(k)][1]
      BY <3>3, EmptySeq
    <3>5. x \in Attempts
      BY <3>2, <3>4, HeadTailProperties
    <3>6. LaneOf(x) = LaneOf(k)
      BY <3>2, <3>3, <3>4 DEF StateInv, QueuesAreOrderly
    <3> QED BY <3>1, <3>4, <3>5, <3>6 DEF LaneBusy, CanStart
  <2> QED BY <2>1, <2>2
<1> QED BY <1>1, <1>2, <1>3, DeliveryStateInvariant, PTL DEF DeliverySafety

=============================================================================
