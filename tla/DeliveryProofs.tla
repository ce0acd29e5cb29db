--------------------------- MODULE DeliveryProofs ---------------------------
(* The delivery managers use the playback slots as PlaybackSlot prescribes, *)
(* so a device never speaks two results at once, for any number of agents,  *)
(* jobs, devices and satellites, and any clock.                             *)
EXTENDS Delivery, PlaybackSlotProofs

\* Where a delivery is inside `async with self.directory.playback_slot(...)`, from
\* the wait for idle to the announcement.
Holding == {"inSlot", "idleWait", "starting", "authWait", "authorized", "refused",
            "notifying", "playing"}

\* The inductive invariant, beside SlotInv: those deliveries hold the lock.
PhasesHold ==
  /\ pc \in [Attempts -> Phases]
  /\ \A k \in Attempts : pc[k] \in Holding => HoldsSlot(k)

\* What every step of the managers does to the slots and the phases.
SlotStep == [SlotNext]_slotVars /\ PhasesHold'

\* A step of k on the slots takes no lock away from another delivery.
LEMMA OthersKeepTheSlot ==
  ASSUME SlotTypeOK, NEW k \in Attempts, NEW a \in Attempts, a # k, HoldsSlot(a),
         RequestSlot(k) \/ GrantSlot(k) \/ ReleaseSlot(k)
  PROVE  HoldsSlot(a)'
<1>1. PICK s \in Attempts : slotOwner[s] = a
  BY DEF HoldsSlot
<1>2. slotOwner'[s] = a
  <2>1. CASE RequestSlot(k)
    BY <1>1, <2>1, NoneAssumption DEF RequestSlot, LockFree, SlotTypeOK
  <2>2. CASE GrantSlot(k)
    BY <1>1, <2>2, NoneAssumption DEF GrantSlot, SlotTypeOK
  <2>3. CASE ReleaseSlot(k)
    BY <1>1, <2>3 DEF ReleaseSlot, LeaveLock, SlotTypeOK
  <2> QED BY <2>1, <2>2, <2>3
<1> QED BY <1>2 DEF HoldsSlot

\* A delivery that leaves the slot, or ends without one, is past the announcement.
LEMMA EndDeliveryStep ==
  ASSUME SlotTypeOK, PhasesHold, NEW k \in Attempts, EndDelivery(k)
  PROVE  SlotStep
<1>1. CASE UsesSlot(k) /\ ReleaseSlot(k) /\ pc' = [pc EXCEPT ![k] = "unwinding"]
  <2>1. SlotNext
    BY <1>1 DEF SlotNext
  <2>2. \A a \in Attempts : pc'[a] \in Holding => a # k /\ HoldsSlot(a)
    BY <1>1 DEF PhasesHold, Holding
  <2>3. pc' \in [Attempts -> Phases]
    BY <1>1 DEF PhasesHold, Phases
  <2> QED BY <1>1, <2>1, <2>2, <2>3, OthersKeepTheSlot DEF SlotStep, PhasesHold
<1>2. CASE ForgetAttempt(k) /\ UNCHANGED slotVars
  <2>1. pc' = [pc EXCEPT ![k] = "none"] /\ slotOwner' = slotOwner
    BY <1>2 DEF ForgetAttempt, slotVars
  <2> QED BY <1>2, <2>1 DEF SlotStep, PhasesHold, Phases, Holding, HoldsSlot
<1> QED BY <1>1, <1>2 DEF EndDelivery

\* A delivery that goes on inside the slot, or to a last frame, moves no lock.
LEMMA GoToStep ==
  ASSUME PhasesHold, NEW k \in Attempts, NEW next \in Phases, GoTo(k, next),
         next \in Holding => HoldsSlot(k)
  PROVE  SlotStep
<1>1. /\ pc' = [pc EXCEPT ![k] = next]
      /\ UNCHANGED slotVars
      /\ slotOwner' = slotOwner
  BY DEF GoTo, slotVars
<1> QED BY <1>1 DEF SlotStep, PhasesHold, HoldsSlot

\* A delivery that gives up before the announcement ends, or sends a last frame;
\* it plays nothing.
LEMMA AbortStep ==
  ASSUME SlotTypeOK, PhasesHold, NEW k \in Attempts, Abort(k)
  PROVE  SlotStep
<1>1. CASE k \in leaseLost
  BY <1>1, EndDeliveryStep DEF Abort
<1>2. CASE k \notin leaseLost
  <2>1. PICK next \in {"revoking", "nacking"} : GoTo(k, next)
    BY <1>2 DEF Abort
  <2> QED BY <2>1, GoToStep DEF Phases, Sending, Holding
<1> QED BY <1>1, <1>2

\* What moves neither phases nor locks keeps everything.
LEMMA IdleStep ==
  ASSUME PhasesHold, UNCHANGED <<pc, slotVars>>
  PROVE  SlotStep
BY DEF SlotStep, PhasesHold, HoldsSlot, slotVars

-----------------------------------------------------------------------------

\* A step of the worker of k enters, is granted, holds or leaves its slot, and is
\* inside the announcement only while it holds it.
LEMMA WorkerSlotStep ==
  ASSUME SlotTypeOK, PhasesHold, NEW k \in Attempts, WorkerStep(k)
  PROVE  SlotStep
<1>1. CASE StartDelivery(k)
  <2>1. FirstFrame(k) \in Phases /\ FirstFrame(k) \notin Holding
    BY DEF FirstFrame, Phases, Sending, Holding
  <2> QED BY <1>1, <2>1, GoToStep DEF StartDelivery
<1>2. CASE ClaimSent(k)
  <2>1. /\ RequestSlot(k)
        /\ pc' = [pc EXCEPT ![k] = IF HoldsSlot(k)' THEN "inSlot" ELSE "slotWait"]
    BY <1>2 DEF ClaimSent
  <2>2. SlotNext
    BY <2>1 DEF SlotNext
  <2>3. pc' \in [Attempts -> Phases]
    BY <2>1 DEF PhasesHold, Phases
  <2>4. ASSUME NEW a \in Attempts, pc'[a] \in Holding PROVE HoldsSlot(a)'
    <3>1. CASE a = k
      <4>1. pc'[k] = IF HoldsSlot(k)' THEN "inSlot" ELSE "slotWait"
        BY <2>1 DEF PhasesHold
      <4> QED BY <2>4, <3>1, <4>1 DEF Holding
    <3>2. CASE a # k
      BY <2>1, <2>4, <3>2, OthersKeepTheSlot DEF PhasesHold
    <3> QED BY <3>1, <3>2
  <2> QED BY <2>2, <2>3, <2>4 DEF SlotStep, PhasesHold
<1>3. CASE SlotGranted(k)
  <2>1. GrantSlot(k) /\ pc' = [pc EXCEPT ![k] = "inSlot"]
    BY <1>3 DEF SlotGranted
  <2>2. SlotNext
    BY <2>1 DEF SlotNext
  <2>3. pc' \in [Attempts -> Phases]
    BY <2>1 DEF PhasesHold, Phases
  <2>4. HoldsSlot(k)'
    BY <2>1 DEF GrantSlot, HoldsSlot, SlotTypeOK
  <2>5. ASSUME NEW a \in Attempts, a # k, pc'[a] \in Holding PROVE HoldsSlot(a)'
    BY <2>1, <2>5, OthersKeepTheSlot DEF PhasesHold
  <2> QED BY <2>2, <2>3, <2>4, <2>5 DEF SlotStep, PhasesHold
<1>4. CASE IdleCheck(k)
  <2>1. Abort(k) \/ GoTo(k, "starting") \/ GoTo(k, "idleWait")
    BY <1>4 DEF IdleCheck
  <2>2. HoldsSlot(k)
    BY <1>4 DEF IdleCheck, PhasesHold, Holding
  <2>3. {"starting", "idleWait"} \subseteq Phases
    BY DEF Phases, Sending
  <2> QED BY <2>1, <2>2, <2>3, AbortStep, GoToStep
<1>5. CASE Wake(k)
  <2>1. GoTo(k, "inSlot") /\ HoldsSlot(k)
    BY <1>5 DEF Wake, PhasesHold, Holding
  <2> QED BY <2>1, GoToStep DEF Phases
<1>6. CASE AuthorizationDecided(k)
  <2>1. PICK next \in {"authorized", "refused"} : GoTo(k, next)
    BY <1>6 DEF AuthorizationDecided
  <2>2. HoldsSlot(k)
    BY <1>6 DEF AuthorizationDecided, PhasesHold, Holding
  <2> QED BY <2>1, <2>2, GoToStep DEF Phases
<1>7. CASE AuthorizationReturned(k)
  <2>1. Abort(k) \/ GoTo(k, "notifying")
    BY <1>7 DEF AuthorizationReturned
  <2>2. HoldsSlot(k)
    BY <1>7 DEF AuthorizationReturned, PhasesHold, Holding
  <2>3. "notifying" \in Phases
    BY DEF Phases, Sending
  <2> QED BY <2>1, <2>2, <2>3, AbortStep, GoToStep
<1>8. CASE PlaybackStartedSent(k)
  <2>1. Abort(k) \/ GoTo(k, "playing")
    BY <1>8 DEF PlaybackStartedSent
  <2>2. HoldsSlot(k)
    BY <1>8 DEF PlaybackStartedSent, PhasesHold, Holding
  <2>3. "playing" \in Phases
    BY DEF Phases
  <2> QED BY <2>1, <2>2, <2>3, AbortStep, GoToStep
<1>9. CASE AnnounceDone(k)
  <2>1. GoTo(k, "acking")
    BY <1>9 DEF AnnounceDone
  <2> QED BY <2>1, GoToStep DEF Phases, Sending, Holding
<1>10. CASE FrameSent(k)
  <2>1. CASE pc[k] = "starting" /\ GoTo(k, "authWait")
    <3>1. HoldsSlot(k)
      BY <2>1 DEF PhasesHold, Holding
    <3> QED BY <2>1, <3>1, GoToStep DEF Phases
  <2>2. CASE GoTo(k, "acking")
    BY <2>2, GoToStep DEF Phases, Sending, Holding
  <2>3. CASE EndDelivery(k)
    BY <2>3, EndDeliveryStep
  <2> QED BY <1>10, <2>1, <2>2, <2>3 DEF FrameSent
<1>11. CASE DeliveryFails(k)
  BY <1>11, EndDeliveryStep DEF DeliveryFails
<1>12. CASE Finish(k)
  <2>1. pc' = [pc EXCEPT ![k] = "none"] /\ UNCHANGED slotVars /\ slotOwner' = slotOwner
    BY <1>12 DEF Finish, ForgetAttempt, slotVars
  <2> QED BY <2>1 DEF SlotStep, PhasesHold, Phases, Holding, HoldsSlot
<1>13. CASE CancelDelivery(k)
  BY <1>13, EndDeliveryStep DEF CancelDelivery
<1> QED BY <1>1, <1>2, <1>3, <1>4, <1>5, <1>6, <1>7, <1>8, <1>9, <1>10, <1>11, <1>12, <1>13
        DEF WorkerStep

\* Offers, authorizations and revocations move no lock.
LEMMA CasaSlotStep ==
  ASSUME PhasesHold, NEW k \in Attempts, CasaStep(k)
  PROVE  SlotStep
<1>1. CASE JobReady(k)
  <2>1. /\ pc' = pc \/ pc' = [pc EXCEPT ![k] = "queued"]
        /\ UNCHANGED slotVars
        /\ slotOwner' = slotOwner
    BY <1>1 DEF JobReady, slotVars
  <2> QED BY <2>1 DEF SlotStep, PhasesHold, Phases, Holding, HoldsSlot
<1>2. CASE JobAuthorized(k) \/ JobRevoke(k)
  BY <1>2, IdleStep DEF JobAuthorized, JobRevoke
<1> QED BY <1>1, <1>2 DEF CasaStep

\* close() itself moves no lock: the cancelled deliveries leave their slots.
LEMMA CloseSlotStep ==
  ASSUME PhasesHold, NEW m \in Managers, CloseBegin(m) \/ CloseEnd(m)
  PROVE  SlotStep
<1>1. CASE CloseBegin(m)
  BY <1>1, IdleStep DEF CloseBegin, taskVars
<1>2. CASE CloseEnd(m)
  <2>1. /\ pc' = [k \in Attempts |-> IF ManagerOf[k] = m THEN "none" ELSE pc[k]]
        /\ UNCHANGED slotVars
        /\ slotOwner' = slotOwner
    BY <1>2 DEF CloseEnd, slotVars
  <2> QED BY <2>1 DEF SlotStep, PhasesHold, Phases, Holding, HoldsSlot
<1> QED BY <1>1, <1>2

\* Every step of the delivery managers.
LEMMA DeliverySlotStep ==
  ASSUME SlotTypeOK, PhasesHold, [DeliveryNext]_vars
  PROVE  SlotStep
<1>1. CASE UNCHANGED vars
  BY <1>1, IdleStep DEF vars, deliveryVars, taskVars
<1>2. CASE SatelliteStep \/ ClockStep
  BY <1>2, IdleStep DEF SatelliteStep, ClockStep, deliveryVars, taskVars
<1>3. ASSUME NEW k \in Attempts, RenewFails(k) \/ NackSent(k) PROVE SlotStep
  BY <1>3, IdleStep DEF RenewFails, NackSent, taskVars
<1> QED BY <1>1, <1>2, <1>3, WorkerSlotStep, CasaSlotStep, CloseSlotStep DEF DeliveryNext

\* The initial state of the managers is one of the slots, with no delivery anywhere.
LEMMA DeliveryInitSlots == DeliveryInit => SlotInit /\ PhasesHold
BY DEF DeliveryInit, PhasesHold, Phases, Holding

\* SlotInv and PhasesHold hold together in every reachable state.
THEOREM DeliverySlotInvariant == DeliverySafety => [](SlotInv /\ PhasesHold)
<1>1. DeliveryInit => SlotInv /\ PhasesHold
  BY DeliveryInitSlots, SlotInitInv
<1>2. SlotInv /\ PhasesHold /\ [DeliveryNext]_vars => (SlotInv /\ PhasesHold)'
  <2> SUFFICES ASSUME SlotInv, PhasesHold, [DeliveryNext]_vars
               PROVE  (SlotInv /\ PhasesHold)'
    OBVIOUS
  <2>1. [SlotNext]_slotVars /\ PhasesHold'
    BY DeliverySlotStep DEF SlotStep, SlotInv
  <2> QED BY <2>1, SlotInvStep
<1> QED BY <1>1, <1>2, PTL DEF DeliverySafety

\* The managers implement the specification of the playback slots: each of their
\* steps enters, is granted or leaves a slot as PlaybackSlot allows, or leaves the
\* slots alone.
THEOREM DeliveryImplementsSlots == DeliverySafety => SlotSafety
<1>1. SlotInv /\ PhasesHold /\ [DeliveryNext]_vars => [SlotNext]_slotVars
  <2> SUFFICES ASSUME SlotInv, PhasesHold, [DeliveryNext]_vars
               PROVE  [SlotNext]_slotVars
    OBVIOUS
  <2> QED BY DeliverySlotStep DEF SlotStep, SlotInv
<1> QED BY <1>1, DeliveryInitSlots, DeliverySlotInvariant, PTL DEF DeliverySafety, SlotSafety

\* "Serialize one device's playback across every agent manager": however many
\* agents, offers, revocations, failures and closings there are, two results are
\* never announced on one device at once.
THEOREM DeliverySpeaksOneAtATime == DeliverySafety => []OneAnnouncementPerDevice
<1>1. SlotInv /\ PhasesHold => OneAnnouncementPerDevice
  <2> SUFFICES ASSUME SlotInv, PhasesHold PROVE OneAnnouncementPerDevice
    OBVIOUS
  <2>1. \A k \in Attempts : pc[k] = "playing" => HoldsSlot(k)
    BY DEF PhasesHold, Holding
  <2> QED BY <2>1, SlotInvExcludes DEF OneAnnouncementPerDevice, OneHolderPerDevice
<1> QED BY <1>1, DeliverySlotInvariant, PTL

=============================================================================
