----------------------- MODULE DeliveryHistoryProofs -----------------------
(* A sleeping delivery misses no change, no result is announced twice, and   *)
(* the managers implement Announcements, for any number of agents, attempts,  *)
(* devices, satellites and cached jobs.                                       *)
EXTENDS DeliveryStateProofs, DeliveryRefinement

-----------------------------------------------------------------------------
(* Sleeping deliveries.                                                     *)

\* k was woken, or will be: it sleeps on what it would read now.
HearsChanges(k) ==
  \/ k \in pulsed
  \/ /\ k \in listeners[DeviceOf[k]]
     /\ SameSatellite(k)
     /\ deadline[k] = WaitUntil(k)

\* The inductive form of ParkedHearsChanges.
Parked == \A k \in Attempts : pc[k] = "idleWait" => HearsChanges(k)

\* What the worker of k may do to the events: those of its own device, and
\* discarding only while it holds the slot of the device.
OwnEvents(k) ==
  \/ UNCHANGED eventVars
  \/ UNCHANGED <<listeners, pulsed>>
  \/ pc[k] \in Holding /\ DiscardEvent(DeviceOf[k])
  \/ Listen(k, DeviceOf[k])
  \/ StopListening(k)

\* A delivery that goes on, gives up or ends moves nothing of another one.
LEMMA OutcomeIsOwn ==
  ASSUME DeliveryTypeOK, NEW k \in Attempts, NEW a \in Attempts, a # k,
         EndDelivery(k) \/ Abort(k) \/ (\E next : GoTo(k, next)) \/ ForgetAttempt(k)
  PROVE  entity'[a] = entity[a]
<1>1. EndDelivery(k) \/ (\E next : GoTo(k, next)) \/ ForgetAttempt(k)
  BY DEF Abort
<1> QED BY <1>1 DEF EndDelivery, GoTo, ForgetAttempt, DeliveryTypeOK, flagVars

\* The step of a worker leaves the satellites, deadlines and events of the others.
LEMMA WorkerTouchesItsOwn ==
  ASSUME DeliveryTypeOK, NEW k \in Attempts, WorkerStep(k)
  PROVE  /\ UNCHANGED registryVars
         /\ OwnEvents(k)
         /\ \A a \in Attempts \ {k} : entity'[a] = entity[a] /\ deadline'[a] = deadline[a]
<1> USE DEF OwnEvents, directoryVars
<1>1. CASE StartDelivery(k)
  BY <1>1, OutcomeIsOwn DEF StartDelivery
<1>2. CASE ClaimSent(k)
  BY <1>2 DEF ClaimSent, flagVars
<1>3. CASE SlotGranted(k)
  BY <1>3 DEF SlotGranted, flagVars
<1>4. CASE IdleCheck(k)
  <2>1. /\ UNCHANGED registryVars
        /\ \A a \in Attempts \ {k} : deadline'[a] = deadline[a]
        /\ Abort(k) \/ \E next : GoTo(k, next)
    BY <1>4 DEF IdleCheck, DeliveryTypeOK
  <2>2. OwnEvents(k)
    BY <1>4 DEF IdleCheck, Holding
  <2> QED BY <2>1, <2>2, OutcomeIsOwn
<1>5. CASE Wake(k)
  <2>1. /\ UNCHANGED registryVars
        /\ \A a \in Attempts \ {k} : deadline'[a] = deadline[a]
        /\ GoTo(k, "inSlot")
        /\ StopListening(k)
    BY <1>5 DEF Wake, DeliveryTypeOK
  <2> QED BY <2>1, OutcomeIsOwn
<1>6. CASE AuthorizationDecided(k)
  BY <1>6, OutcomeIsOwn DEF AuthorizationDecided
<1>7. CASE AuthorizationReturned(k)
  <2>1. /\ UNCHANGED <<registryVars, deadline>>
        /\ Abort(k) \/ \E next : GoTo(k, next)
    BY <1>7 DEF AuthorizationReturned
  <2>2. OwnEvents(k)
    BY <1>7 DEF AuthorizationReturned, Holding
  <2> QED BY <2>1, <2>2, OutcomeIsOwn
<1>8. CASE PlaybackStartedSent(k)
  <2>1. /\ UNCHANGED <<registryVars, deadline>>
        /\ Abort(k) \/ \E next : GoTo(k, next)
    BY <1>8 DEF PlaybackStartedSent
  <2>2. OwnEvents(k)
    BY <1>8 DEF PlaybackStartedSent, Holding
  <2> QED BY <2>1, <2>2, OutcomeIsOwn
<1>9. CASE AnnounceDone(k)
  BY <1>9, OutcomeIsOwn DEF AnnounceDone
<1>10. CASE FrameSent(k)
  <2>1. /\ UNCHANGED <<deadline, directoryVars>>
        /\ EndDelivery(k) \/ \E next : GoTo(k, next)
    BY <1>10 DEF FrameSent
  <2> QED BY <2>1, OutcomeIsOwn
<1>11. CASE DeliveryFails(k)
  BY <1>11, OutcomeIsOwn DEF DeliveryFails
<1>12. CASE Finish(k)
  BY <1>12, OutcomeIsOwn DEF Finish
<1>13. CASE CancelDelivery(k)
  <2>1. /\ UNCHANGED registryVars
        /\ \A a \in Attempts \ {k} : deadline'[a] = deadline[a]
        /\ EndDelivery(k)
        /\ StopListening(k)
    BY <1>13 DEF CancelDelivery, DeliveryTypeOK
  <2> QED BY <2>1, OutcomeIsOwn
<1> QED BY <1>1, <1>2, <1>3, <1>4, <1>5, <1>6, <1>7, <1>8, <1>9, <1>10, <1>11, <1>12, <1>13
        DEF WorkerStep

\* Where the step of a worker leaves its delivery.
Outcome(k) ==
  CASE pc[k] = "queued" -> {"revoking", "reclaiming", "claiming"}
    [] pc[k] = "claiming" -> {"slotWait", "inSlot", "unwinding", "none"}
    [] pc[k] = "slotWait" -> {"inSlot", "unwinding", "none"}
    [] pc[k] = "inSlot" -> {"starting", "idleWait", "revoking", "nacking", "unwinding", "none"}
    [] pc[k] = "idleWait" -> {"inSlot", "unwinding", "none"}
    [] pc[k] = "starting" -> {"authWait", "unwinding", "none"}
    [] pc[k] = "authWait" -> {"authorized", "refused", "unwinding", "none"}
    [] pc[k] \in {"authorized", "refused"} ->
         {"notifying", "revoking", "nacking", "unwinding", "none"}
    [] pc[k] = "notifying" -> {"playing", "revoking", "nacking", "unwinding", "none"}
    [] pc[k] \in {"playing", "reclaiming"} -> {"acking", "unwinding", "none"}
    [] OTHER -> {"unwinding", "none"}

\* The end of a delivery, its surrender and its continuation, as phases.
LEMMA OutcomePhases ==
  ASSUME DeliveryTypeOK, NEW k \in Attempts
  PROVE  /\ EndDelivery(k) => pc'[k] \in {"unwinding", "none"}
         /\ Abort(k) => pc'[k] \in {"revoking", "nacking", "unwinding", "none"}
         /\ ForgetAttempt(k) => pc'[k] = "none"
         /\ \A next : GoTo(k, next) => pc'[k] = next
<1>1. EndDelivery(k) => pc'[k] \in {"unwinding", "none"}
  BY DEF EndDelivery, ForgetAttempt, DeliveryTypeOK
<1>2. \A next : GoTo(k, next) => pc'[k] = next
  BY DEF GoTo, DeliveryTypeOK
<1>3. ForgetAttempt(k) => pc'[k] = "none"
  BY DEF ForgetAttempt, DeliveryTypeOK
<1> QED BY <1>1, <1>2, <1>3 DEF Abort

\* A delivery starts from its queue.
LEMMA StartedWasQueued ==
  ASSUME StateInv, NEW k \in Attempts, StartDelivery(k)
  PROVE  pc[k] = "queued"
<1>1. /\ queues[LaneOf(k)] \in Seq(Attempts)
      /\ queues[LaneOf(k)] # <<>>
      /\ Head(queues[LaneOf(k)]) = k
  BY LaneTypes DEF StartDelivery, StateInv
<1>2. /\ 1 \in 1 .. Len(queues[LaneOf(k)])
      /\ queues[LaneOf(k)][1] = k
  BY <1>1, EmptySeq, HeadTailProperties
<1> QED BY <1>2 DEF StateInv, QueuesHoldTheQueued

\* A delivery takes its phases in order.
LEMMA WorkerPhases ==
  ASSUME StateInv, NEW k \in Attempts, WorkerStep(k)
  PROVE  pc'[k] \in Outcome(k)
<1>0. DeliveryTypeOK
  BY DEF StateInv
<1>1. CASE StartDelivery(k)
  <2>1. pc[k] = "queued"
    BY <1>1, StartedWasQueued
  <2>2. pc'[k] = FirstFrame(k)
    BY <1>0, <1>1, OutcomePhases DEF StartDelivery
  <2> QED BY <2>1, <2>2 DEF Outcome, FirstFrame
<1>2. CASE ClaimSent(k)
  BY <1>0, <1>2 DEF ClaimSent, Outcome, DeliveryTypeOK
<1>3. CASE SlotGranted(k)
  BY <1>0, <1>3 DEF SlotGranted, Outcome, DeliveryTypeOK
<1>4. CASE IdleCheck(k)
  BY <1>0, <1>4, OutcomePhases DEF IdleCheck, Outcome
<1>5. CASE Wake(k)
  BY <1>0, <1>5, OutcomePhases DEF Wake, Outcome
<1>6. CASE AuthorizationDecided(k)
  BY <1>0, <1>6, OutcomePhases DEF AuthorizationDecided, Outcome
<1>7. CASE AuthorizationReturned(k)
  BY <1>0, <1>7, OutcomePhases DEF AuthorizationReturned, Outcome
<1>8. CASE PlaybackStartedSent(k)
  BY <1>0, <1>8, OutcomePhases DEF PlaybackStartedSent, Outcome
<1>9. CASE AnnounceDone(k)
  BY <1>0, <1>9, OutcomePhases DEF AnnounceDone, Outcome
<1>10. CASE FrameSent(k)
  BY <1>0, <1>10, OutcomePhases DEF FrameSent, Outcome
<1>11. ASSUME EndDelivery(k), InProgress(k) PROVE pc'[k] \in Outcome(k)
  <2>1. pc'[k] \in {"unwinding", "none"} /\ pc[k] # "queued"
    BY <1>0, <1>11, OutcomePhases DEF InProgress
  <2> QED BY <2>1 DEF Outcome
<1>12. CASE DeliveryFails(k)
  BY <1>11, <1>12 DEF DeliveryFails, InProgress, Sending
<1>13. CASE Finish(k)
  BY <1>0, <1>13, OutcomePhases DEF Finish, Outcome
<1>14. CASE CancelDelivery(k)
  BY <1>11, <1>14 DEF CancelDelivery, Cancellable
<1> QED BY <1>1, <1>2, <1>3, <1>4, <1>5, <1>6, <1>7, <1>8, <1>9, <1>10, <1>12, <1>13, <1>14
        DEF WorkerStep

\* A step that leaves k, its event and the directory alone lets it sleep on.
LEMMA SleepersSleepOn ==
  ASSUME NEW k \in Attempts, HearsChanges(k), UNCHANGED registryVars,
         entity'[k] = entity[k], deadline'[k] = deadline[k],
         k \in pulsed => k \in pulsed',
         k \in listeners[DeviceOf[k]] => k \in listeners'[DeviceOf[k]]
  PROVE  HearsChanges(k)'
BY DEF HearsChanges, SameSatellite, Resolve, WaitUntil, registryVars

\* Only a delivery that checked its satellite goes to sleep, holding its event.
LEMMA FallingAsleep ==
  ASSUME StateInv, NEW k \in Attempts, WorkerStep(k), pc'[k] = "idleWait"
  PROVE  HearsChanges(k)'
<1>0. /\ DeliveryTypeOK
      /\ DirectoryTypeOK
      /\ DeviceOf[k] \in Devices
  BY SlotConstants DEF StateInv, DirectoryInv
<1>1. pc[k] = "inSlot"
  BY WorkerPhases DEF Outcome
<1>2. IdleCheck(k)
  <2>1. ~StartDelivery(k)
    <3>1. FirstFrame(k) # "idleWait"
      BY DEF FirstFrame
    <3> QED BY <1>0, <3>1, OutcomePhases DEF StartDelivery
  <2>2. ~CancelDelivery(k)
    BY <1>0, OutcomePhases DEF CancelDelivery
  <2> QED BY <1>1, <2>1, <2>2
          DEF WorkerStep, ClaimSent, SlotGranted, Wake, AuthorizationDecided,
              AuthorizationReturned, PlaybackStartedSent, AnnounceDone, FrameSent,
              DeliveryFails, Finish, Sending
<1>3. ~Abort(k) /\ ~GoTo(k, "starting")
  BY <1>0, OutcomePhases
<1>4. /\ SameSatellite(k)
      /\ Listen(k, DeviceOf[k])
      /\ deadline' = [deadline EXCEPT ![k] = WaitUntil(k)]
      /\ UNCHANGED <<registryVars, entity>>
  BY <1>2, <1>3 DEF IdleCheck, GoTo, flagVars
<1>5. k \in listeners'[DeviceOf[k]] /\ deadline'[k] = WaitUntil(k)
  BY <1>0, <1>4 DEF Listen, DirectoryTypeOK, DeliveryTypeOK
<1> QED BY <1>4, <1>5 DEF HearsChanges, SameSatellite, Resolve, WaitUntil, registryVars

\* The step of one worker takes no wakeup from another delivery.
LEMMA WorkerLetsSleep ==
  ASSUME StateInv, Parked, NEW k \in Attempts, WorkerStep(k)
  PROVE  Parked'
<1> SUFFICES ASSUME NEW a \in Attempts, pc'[a] = "idleWait" PROVE HearsChanges(a)'
  BY DEF Parked
<1>0. DeliveryTypeOK /\ DirectoryTypeOK /\ PhasesHold /\ SlotInv
  BY DEF StateInv, DirectoryInv
<1>1. CASE a = k
  BY <1>1, FallingAsleep
<1>2. CASE a # k
  <2>1. pc[a] = "idleWait"
    <3>1. PICK next : pc' = [pc EXCEPT ![k] = next]
      BY WorkerIsProper DEF Proper, Moves
    <3> QED BY <1>0, <1>2, <3>1 DEF DeliveryTypeOK
  <2>2. HearsChanges(a)
    BY <2>1 DEF Parked
  <2>3. /\ UNCHANGED registryVars
        /\ OwnEvents(k)
        /\ entity'[a] = entity[a] /\ deadline'[a] = deadline[a]
    BY <1>0, <1>2, WorkerTouchesItsOwn
  <2>4. pc[k] \in Holding => DeviceOf[k] # DeviceOf[a]
    BY <1>0, <1>2, <2>1, SlotInvExcludes DEF PhasesHold, Holding, OneHolderPerDevice
  <2>5. DeviceOf[a] \in Devices /\ DeviceOf[k] \in Devices
    BY SlotConstants
  <2>6. a \in pulsed => a \in pulsed'
    BY <1>2, <2>3 DEF OwnEvents, eventVars, DiscardEvent, Listen, StopListening
  <2>7. a \in listeners[DeviceOf[a]] => a \in listeners'[DeviceOf[a]]
    BY <1>0, <1>2, <2>3, <2>4, <2>5
       DEF OwnEvents, eventVars, DiscardEvent, Listen, StopListening, DirectoryTypeOK
  <2> QED BY <2>2, <2>3, <2>6, <2>7, SleepersSleepOn
<1> QED BY <1>1, <1>2

\* A change of the directory leaves each event's holder a holder, or wakes it.
LEMMA HoldersArePulsed ==
  ASSUME DirectoryInv, DirectoryChange, NEW a \in Attempts, NEW x \in Devices
  PROVE  /\ a \in pulsed => a \in pulsed'
         /\ a \in listeners[x] => a \in pulsed' \/ a \in listeners'[x]
<1> DEFINE Goal == /\ a \in pulsed => a \in pulsed'
                   /\ a \in listeners[x] => a \in pulsed' \/ a \in listeners'[x]
<1>1. ASSUME NEW ds \in SUBSET Devices, NEW retired, Notify(ds, retired) PROVE Goal
  BY <1>1 DEF Notify
<1>2. ASSUME NEW e \in Entities, RemoveSatellite(e) PROVE Goal
  <2>1. {entityDevices[e]} \ {None} \in SUBSET Devices
    BY DEF DirectoryInv, DirectoryTypeOK
  <2> QED BY <1>1, <1>2, <2>1 DEF RemoveSatellite
<1>3. ASSUME NEW e \in Entities, NEW d \in Devices, Rebind(d, e) PROVE Goal
  <2>1. {d} \cup PreviousDevice(d, e) \in SUBSET Devices
    BY PreviousDevices
  <2> QED BY <1>1, <1>3, <2>1 DEF Rebind
<1> QED BY <1>2, <1>3 DEF DirectoryChange, SetEntityState

\* A change of what a sleeper would read wakes it; another one does not concern it.
LEMMA ChangesLetSleep ==
  ASSUME StateInv, Parked, SatelliteStep
  PROVE  Parked'
<1> SUFFICES ASSUME NEW a \in Attempts, pc'[a] = "idleWait" PROVE HearsChanges(a)'
  BY DEF Parked
<1> DEFINE d == DeviceOf[a]
<1>1. /\ pc[a] = "idleWait"
      /\ UNCHANGED <<entity, deadline>>
      /\ DirectoryChange
      /\ [DirectoryNext]_<<now, directoryVars>>
      /\ d \in Devices
      /\ DirectoryInv
  BY SlotConstants
     DEF SatelliteStep, deliveryVars, flagVars, taskVars, DirectoryNext, StateInv
<1>2. HearsChanges(a)
  BY <1>1 DEF Parked
<1>3. /\ a \in pulsed => a \in pulsed'
      /\ a \in listeners[d] => a \in pulsed' \/ a \in listeners'[d]
  BY <1>1, HoldersArePulsed
<1>4. ViewChanged(d) => listeners[d] \subseteq pulsed'
  BY <1>1, ChangeIsHeard
<1>5. CASE a \in pulsed'
  BY <1>5 DEF HearsChanges
<1>6. CASE a \notin pulsed'
  <2>1. /\ a \in listeners[d] /\ a \in listeners'[d]
        /\ entity[a] # None /\ Resolve(d) = entity[a]
        /\ deadline[a] = WaitUntil(a)
        /\ ~ViewChanged(d)
    BY <1>2, <1>3, <1>4, <1>6 DEF HearsChanges, SameSatellite
  <2>2. /\ Resolve(d)' = entity[a]
        /\ entityStates'[entity[a]] = entityStates[entity[a]]
        /\ entityIdleSince'[entity[a]] = entityIdleSince[entity[a]]
    BY <2>1 DEF ViewChanged
  <2>3. WaitUntil(a)' = WaitUntil(a)
    BY <1>1, <2>2 DEF WaitUntil
  <2> QED BY <1>1, <2>1, <2>2, <2>3 DEF HearsChanges, SameSatellite
<1> QED BY <1>5, <1>6

\* Nor does any other step.
LEMMA ParkedStep ==
  ASSUME StateInv, Parked, [DeliveryNext]_vars
  PROVE  Parked'
<1>1. ASSUME UNCHANGED directoryVars,
             \A a \in Attempts : pc'[a] = "idleWait" =>
               pc[a] = "idleWait" /\ entity'[a] = entity[a] /\ deadline'[a] = deadline[a]
      PROVE  Parked'
  BY <1>1, SleepersSleepOn DEF Parked, directoryVars, eventVars
<1>2. ASSUME NEW k \in Attempts, JobReady(k) PROVE Parked'
  <2>1. /\ UNCHANGED <<directoryVars, deadline>>
        /\ pc[k] = "none"
        /\ \A a \in Attempts \ {k} : pc'[a] = pc[a] /\ entity'[a] = entity[a]
        /\ pc'[k] \in {"none", "queued"}
    BY <1>2 DEF JobReady, StateInv, DeliveryTypeOK
  <2> QED BY <1>1, <2>1
<1>3. ASSUME NEW k \in Attempts, JobAuthorized(k) \/ JobRevoke(k) \/ RenewFails(k) \/ NackSent(k)
      PROVE  Parked'
  BY <1>1, <1>3 DEF JobAuthorized, JobRevoke, RenewFails, NackSent, flagVars, taskVars
<1>4. ASSUME NEW m \in Managers, CloseBegin(m) PROVE Parked'
  BY <1>1, <1>4 DEF CloseBegin, flagVars, taskVars
<1>5. ASSUME NEW m \in Managers, CloseEnd(m) PROVE Parked'
  BY <1>1, <1>5 DEF CloseEnd
<1>6. CASE ClockStep
  BY <1>1, <1>6 DEF ClockStep, Tick, deliveryVars, flagVars, taskVars
<1>7. CASE UNCHANGED vars
  BY <1>1, <1>7 DEF vars, deliveryVars, flagVars, taskVars
<1> QED BY <1>2, <1>3, <1>4, <1>5, <1>6, <1>7, WorkerLetsSleep, ChangesLetSleep
        DEF DeliveryNext, CasaStep

\* No lost wakeup: a delivery asleep until its satellite is stably idle was woken,
\* or holds the current event and sleeps on the satellite and the deadline it would
\* compute now, whatever the others do to the events of the directory.
THEOREM SleepersHearChanges == DeliverySafety => []ParkedHearsChanges
<1>1. DeliveryInit => Parked
  BY DEF DeliveryInit, Parked
<1>2. StateInv /\ Parked /\ [DeliveryNext]_vars => Parked'
  BY ParkedStep
<1>3. Parked => ParkedHearsChanges
  BY DEF Parked, HearsChanges, SameSatellite, ParkedHearsChanges
<1> QED BY <1>1, <1>2, <1>3, DeliveryStateInvariant, PTL DEF DeliverySafety

-----------------------------------------------------------------------------
(* The cache of delivered jobs.                                             *)

Distinct(log) == \A i, j \in 1 .. Len(log) : log[i] = log[j] => i = j

\* cache holds the LruSize last jobs of log, in their order.
KeepsLatest(cache, log) ==
  /\ Distinct(log)
  /\ Len(cache) = IF Len(log) <= LruSize THEN Len(log) ELSE LruSize
  /\ \A i \in 1 .. Len(cache) : cache[i] = log[Len(log) - Len(cache) + i]

\* A job that was in the log leaves its place and comes last.
Relocated(log, moved, p) ==
  /\ Len(moved) = Len(log)
  /\ \A i \in 1 .. Len(log) - 1 : moved[i] = IF i < p THEN log[i] ELSE log[i + 1]
  /\ moved[Len(log)] = log[p]

\* What moving a job to the end of a log does.
LEMMA MoveToEndShape ==
  ASSUME NEW S, NEW log \in Seq(S), NEW j \in S
  PROVE  \/ /\ \A i \in 1 .. Len(log) : log[i] # j
            /\ MoveToEnd(log, j) = Append(log, j)
         \/ \E p \in 1 .. Len(log) : log[p] = j /\ Relocated(log, MoveToEnd(log, j), p)
<1>1. CASE Contains(log, j)
  <2> DEFINE p == CHOOSE i \in 1 .. Len(log) : log[i] = j
             rest == RemoveAt(log, p)
  <2>1. p \in 1 .. Len(log) /\ log[p] = j
    BY <1>1 DEF Contains
  <2>2. /\ rest \in Seq(S)
        /\ Len(rest) = Len(log) - 1
        /\ \A i \in 1 .. Len(log) - 1 : rest[i] = IF i < p THEN log[i] ELSE log[i + 1]
    BY <2>1, RemoveAtProperties
  <2>3. MoveToEnd(log, j) = Append(rest, j)
    BY <1>1 DEF MoveToEnd
  <2> HIDE DEF p, rest
  <2>4. Len(log) \in Nat
    BY LenProperties
  <2>5. Relocated(log, Append(rest, j), p)
    BY <2>1, <2>2, <2>4, AppendProperties DEF Relocated
  <2> QED BY <2>1, <2>3, <2>5
<1>2. CASE ~Contains(log, j)
  BY <1>2 DEF Contains, MoveToEnd
<1> QED BY <1>1, <1>2

\* It leaves no job twice.
LEMMA MoveToEndDistinct ==
  ASSUME NEW S, NEW log \in Seq(S), NEW j \in S, Distinct(log)
  PROVE  Distinct(MoveToEnd(log, j))
<1>0. Len(log) \in Nat
  BY LenProperties
<1>1. CASE MoveToEnd(log, j) = Append(log, j) /\ \A i \in 1 .. Len(log) : log[i] # j
  BY <1>0, <1>1, AppendProperties DEF Distinct
<1>2. ASSUME NEW p \in 1 .. Len(log), NEW moved, Relocated(log, moved, p)
      PROVE  Distinct(moved)
  <2>1. ASSUME NEW x \in 1 .. Len(log), NEW y \in 1 .. Len(log), moved[x] = moved[y]
        PROVE  x = y
    <3> DEFINE from(i) == IF i = Len(log) THEN p ELSE IF i < p THEN i ELSE i + 1
    <3>1. \A i \in 1 .. Len(log) : from(i) \in 1 .. Len(log) /\ moved[i] = log[from(i)]
      BY <1>0, <1>2 DEF Relocated
    <3>2. from(x) = from(y)
      BY <2>1, <3>1 DEF Distinct
    <3> QED BY <1>0, <3>2
  <2> QED BY <1>2, <2>1 DEF Distinct, Relocated
<1> QED BY <1>1, <1>2, MoveToEndShape

\* The cache, cut to its size, keeps the latest jobs of the log it follows.
LEMMA CacheFollowsLog ==
  ASSUME LruSize \in Nat \ {0}, NEW S, NEW cache \in Seq(S), NEW log \in Seq(S), NEW j \in S,
         KeepsLatest(cache, log)
  PROVE  LET next == MoveToEnd(cache, j) IN
           KeepsLatest(IF Len(next) > LruSize THEN Tail(next) ELSE next, MoveToEnd(log, j))
<1> DEFINE next == MoveToEnd(cache, j)
           moved == MoveToEnd(log, j)
           cut == IF Len(next) > LruSize THEN Tail(next) ELSE next
           skip == Len(log) - Len(cache)
<1>0. /\ Len(log) \in Nat /\ Len(cache) \in Nat /\ skip \in Nat
      /\ next \in Seq(S) /\ moved \in Seq(S)
      /\ Distinct(moved)
  BY LenProperties, MoveToEndType, MoveToEndDistinct DEF KeepsLatest
<1>4. \A i \in 1 .. Len(cache) : skip + i \in 1 .. Len(log) /\ cache[i] = log[skip + i]
  <2> TAKE i \in 1 .. Len(cache)
  <2>1. cache[i] = log[skip + i]
    BY DEF KeepsLatest
  <2>2. skip + i \in 1 .. Len(log)
    BY <1>0
  <2> QED BY <2>1, <2>2
<1>5. Len(log) = skip + Len(cache)
  BY <1>0
<1> HIDE DEF next, moved, skip
<1>1. ASSUME moved = Append(log, j), \A i \in 1 .. Len(log) : log[i] # j
      PROVE  KeepsLatest(cut, moved)
  <2>1. next = Append(cache, j)
    <3>1. \A i \in 1 .. Len(cache) : cache[i] # j
      BY <1>4, <1>1
    <3> QED BY <3>1, MoveToEndShape DEF next
  <2>2. /\ Len(next) = Len(cache) + 1 /\ Len(moved) = Len(log) + 1
        /\ \A i \in 1 .. Len(cache) : next[i] = cache[i]
        /\ next[Len(cache) + 1] = j
        /\ \A i \in 1 .. Len(log) : moved[i] = log[i]
        /\ moved[Len(log) + 1] = j
    BY <1>0, <1>1, <2>1, AppendProperties
  <2>3. \A i \in 1 .. Len(next) : next[i] = moved[skip + i]
    <3>1. ASSUME NEW i \in 1 .. Len(next) PROVE next[i] = moved[skip + i]
      <4>1. CASE i \in 1 .. Len(cache)
        BY <1>4, <2>2, <4>1
      <4>2. CASE i = Len(cache) + 1
        BY <1>0, <1>5, <2>2, <4>2
      <4> QED BY <1>0, <1>5, <2>2, <4>1, <4>2
    <3> QED BY <3>1
  <2>4. CASE Len(next) > LruSize
    <3>1. /\ Len(cache) = LruSize /\ Len(log) >= LruSize
      BY <1>0, <1>5, <2>2, <2>4 DEF KeepsLatest
    <3>2. /\ cut = Tail(next) /\ next # <<>>
          /\ Len(cut) = LruSize
          /\ \A i \in 1 .. Len(cut) : cut[i] = next[i + 1]
      BY <1>0, <1>5, <2>2, <2>4, <3>1, HeadTailProperties, EmptySeq
    <3> HIDE DEF cut
    <3>3. \A i \in 1 .. Len(cut) : cut[i] = moved[Len(moved) - Len(cut) + i]
      <4> TAKE i \in 1 .. Len(cut)
      <4>1. i + 1 \in 1 .. Len(next)
        BY <2>2, <3>1, <3>2
      <4>2. skip + (i + 1) = Len(moved) - Len(cut) + i
        <5>1. /\ Len(moved) = (skip + LruSize) + 1
              /\ Len(cut) = LruSize
              /\ i \in Nat
          BY <1>5, <2>2, <3>1, <3>2
        <5> QED BY <1>0, <5>1
      <4> QED BY <2>3, <3>2, <4>1, <4>2
    <3>4. Len(cut) = IF Len(moved) <= LruSize THEN Len(moved) ELSE LruSize
      BY <1>0, <1>5, <2>2, <3>1, <3>2
    <3> QED BY <1>0, <1>5, <3>3, <3>4 DEF KeepsLatest
  <2>5. CASE ~(Len(next) > LruSize)
    <3>1. Len(log) = Len(cache)
      BY <1>0, <1>5, <2>2, <2>5 DEF KeepsLatest
    <3>2. cut = next
      BY <2>5
    <3> HIDE DEF cut
    <3>3. Len(moved) - Len(cut) = skip
      BY <1>0, <1>5, <2>2, <3>1, <3>2
    <3>4. \A i \in 1 .. Len(cut) : cut[i] = moved[Len(moved) - Len(cut) + i]
      BY <2>3, <3>2, <3>3
    <3>5. Len(cut) = IF Len(moved) <= LruSize THEN Len(moved) ELSE LruSize
      BY <1>0, <2>2, <2>5, <3>1, <3>2
    <3> QED BY <1>0, <3>4, <3>5 DEF KeepsLatest
  <2> QED BY <2>4, <2>5
<1>2. ASSUME NEW p \in 1 .. Len(log), log[p] = j, Relocated(log, moved, p)
      PROVE  KeepsLatest(cut, moved)
  <2>1. CASE p > skip
    <3>1. /\ p - skip \in 1 .. Len(cache) /\ cache[p - skip] = j
      <4>1. p - skip \in 1 .. Len(cache) /\ skip + (p - skip) = p
        BY <1>0, <1>5, <2>1
      <4> QED BY <1>4, <1>2, <4>1
    <3>2. Relocated(cache, next, p - skip)
      <4>1. PICK q \in 1 .. Len(cache) : cache[q] = j /\ Relocated(cache, next, q)
        BY <3>1, MoveToEndShape DEF next
      <4>2. log[skip + q] = j /\ skip + q \in 1 .. Len(log)
        BY <1>4, <4>1
      <4>3. skip + q = p
        BY <1>2, <4>2 DEF KeepsLatest, Distinct
      <4>4. q = p - skip
        BY <1>0, <1>5, <4>3
      <4> QED BY <4>1, <4>4
    <3>3. Len(next) = Len(cache) /\ Len(moved) = Len(log) /\ Len(cache) <= LruSize
      BY <1>0, <1>5, <1>2, <3>2 DEF Relocated, KeepsLatest
    <3>4. cut = next
      BY <1>0, <1>5, <3>3
    <3>5. \A i \in 1 .. Len(cache) : next[i] = moved[skip + i]
      <4> TAKE i \in 1 .. Len(cache)
      <4>1. CASE i = Len(cache)
        BY <1>0, <1>5, <1>2, <3>1, <3>2, <4>1 DEF Relocated
      <4>2. CASE i # Len(cache)
        <5>1. i \in 1 .. Len(cache) - 1 /\ skip + i \in 1 .. Len(log) - 1
          BY <1>0, <1>5, <4>2
        <5>2. /\ next[i] = IF i < p - skip THEN cache[i] ELSE cache[i + 1]
              /\ moved[skip + i] = IF skip + i < p THEN log[skip + i] ELSE log[skip + i + 1]
          BY <1>2, <3>2, <5>1 DEF Relocated
        <5>3. /\ cache[i] = log[skip + i]
              /\ cache[i + 1] = log[skip + (i + 1)]
          <6>1. i + 1 \in 1 .. Len(cache)
            BY <1>0, <1>5, <5>1
          <6> QED BY <1>4, <6>1
        <5>4. skip + (i + 1) = skip + i + 1 /\ (i < p - skip <=> skip + i < p)
          BY <1>0, <1>5
        <5> QED BY <5>2, <5>3, <5>4
      <4> QED BY <4>1, <4>2
    <3> HIDE DEF cut
    <3>6. Len(moved) - Len(cut) = skip
      <4>1. Len(moved) = skip + Len(cache) /\ Len(cut) = Len(cache)
        BY <1>5, <3>3, <3>4
      <4> QED BY <1>0, <4>1
    <3>7. \A i \in 1 .. Len(cut) : cut[i] = moved[Len(moved) - Len(cut) + i]
      BY <3>3, <3>4, <3>5, <3>6
    <3>8. Len(cut) = IF Len(moved) <= LruSize THEN Len(moved) ELSE LruSize
      BY <3>3, <3>4 DEF KeepsLatest
    <3> QED BY <1>0, <3>7, <3>8 DEF KeepsLatest
  <2>2. CASE p <= skip
    <3>1. /\ Len(cache) = LruSize /\ Len(log) > LruSize
      BY <1>0, <1>5, <2>2 DEF KeepsLatest
    <3>2. \A i \in 1 .. Len(cache) : cache[i] # j
      <4> SUFFICES ASSUME NEW i \in 1 .. Len(cache), cache[i] = j PROVE FALSE
        OBVIOUS
      <4>1. log[skip + i] = j /\ skip + i \in 1 .. Len(log)
        BY <1>4
      <4>2. skip + i = p
        BY <1>2, <4>1 DEF KeepsLatest, Distinct
      <4> QED BY <1>0, <1>5, <2>2, <4>2
    <3>3. next = Append(cache, j)
      BY <3>2, MoveToEndShape DEF next
    <3>4. /\ Len(next) = Len(cache) + 1
          /\ \A i \in 1 .. Len(cache) : next[i] = cache[i]
          /\ next[Len(cache) + 1] = j
      BY <3>3, AppendProperties
    <3>5. /\ cut = Tail(next) /\ next # <<>>
          /\ Len(cut) = LruSize
          /\ \A i \in 1 .. Len(cut) : cut[i] = next[i + 1]
      BY <1>0, <1>5, <3>1, <3>4, HeadTailProperties, EmptySeq
    <3>6. Len(moved) = Len(log)
      BY <1>2 DEF Relocated
    <3>7. \A i \in 1 .. LruSize : next[i + 1] = moved[skip + i]
      <4> TAKE i \in 1 .. LruSize
      <4>1. CASE i = LruSize
        <5>1. skip + i = Len(log) /\ i + 1 = Len(cache) + 1
          BY <1>0, <1>5, <3>1, <4>1
        <5> QED BY <1>2, <3>4, <5>1 DEF Relocated
      <4>2. CASE i # LruSize
        <5>1. /\ i + 1 \in 1 .. Len(cache)
              /\ skip + i \in 1 .. Len(log) - 1
              /\ ~(skip + i < p)
          BY <1>0, <1>5, <2>2, <3>1, <4>2
        <5>2. moved[skip + i] = log[skip + i + 1]
          BY <1>2, <5>1 DEF Relocated
        <5>3. next[i + 1] = log[skip + (i + 1)]
          BY <1>4, <3>4, <5>1
        <5>4. skip + (i + 1) = skip + i + 1
          BY <1>0, <1>5
        <5> QED BY <5>2, <5>3, <5>4
      <4> QED BY <4>1, <4>2
    <3> HIDE DEF cut
    <3>8. \A i \in 1 .. Len(cut) : cut[i] = moved[Len(moved) - Len(cut) + i]
      <4>1. Len(moved) - Len(cut) = skip
        <5>1. Len(moved) = skip + LruSize /\ Len(cut) = LruSize
          BY <1>5, <3>1, <3>5, <3>6
        <5> QED BY <1>0, <5>1
      <4> QED BY <3>5, <3>7, <4>1
    <3> QED BY <1>0, <1>5, <3>1, <3>5, <3>6, <3>8 DEF KeepsLatest
  <2> QED BY <1>0, <1>5, <2>1, <2>2
<1>3. KeepsLatest(cut, moved)
  <2>1. \/ /\ \A i \in 1 .. Len(log) : log[i] # j
           /\ moved = Append(log, j)
        \/ \E p \in 1 .. Len(log) : log[p] = j /\ Relocated(log, moved, p)
    BY MoveToEndShape DEF moved
  <2> HIDE DEF cut
  <2> QED BY <1>1, <1>2, <2>1
<1> QED BY <1>3 DEF next, moved

-----------------------------------------------------------------------------
(* No job is announced twice.                                               *)

\* Where a delivery has found that its job is not in the cache.
Unheard == {"claiming", "slotWait", "inSlot", "idleWait", "starting", "authWait",
            "authorized", "refused", "notifying"}

\* The caches follow the announcements, and an announcement ahead is a new one.
MemoryInv ==
  /\ \A m \in Managers : managerState[m] # "closed" => KeepsLatest(delivered[m], announced[m])
  /\ \A k \in Attempts : pc[k] \in Unheard => ~Remembered(k)

\* A worker that moves a delivery is the delivery's own.
LEMMA MoverIsOwnWorker ==
  ASSUME StateInv, [DeliveryNext]_vars, NEW k \in Attempts,
         pc'[k] # pc[k], pc'[k] \notin {"queued", "none"}
  PROVE  WorkerStep(k)
<1>0. DeliveryTypeOK
  BY DEF StateInv
<1>1. PICK a \in Attempts : WorkerStep(a)
  BY <1>0, OtherStepsStartNothing
<1>2. PICK next : pc' = [pc EXCEPT ![a] = next]
  BY <1>1, WorkerIsProper DEF Proper, Moves
<1> QED BY <1>0, <1>1, <1>2 DEF DeliveryTypeOK

\* A cached job was cached before, or is the one just remembered.
LEMMA RememberedBefore ==
  ASSUME NEW S, NEW cache \in Seq(S), NEW j \in S, NEW x, x # j,
         LET next == MoveToEnd(cache, j) IN
           Contains(IF Len(next) > LruSize THEN Tail(next) ELSE next, x)
  PROVE  Contains(cache, x)
<1> DEFINE next == MoveToEnd(cache, j)
<1>0. next \in Seq(S) /\ Len(next) \in Nat /\ Len(cache) \in Nat
  BY MoveToEndType, LenProperties
<1>1. Contains(next, x)
  <2>1. CASE Contains(next, x)
    BY <2>1
  <2>2. CASE Contains(Tail(next), x) /\ next # <<>>
    <3>1. PICK i \in 1 .. Len(Tail(next)) : Tail(next)[i] = x
      BY <2>2 DEF Contains
    <3> HIDE DEF next
    <3>2. i + 1 \in 1 .. Len(next) /\ next[i + 1] = x
      BY <1>0, <2>2, <3>1, HeadTailProperties
    <3> QED BY <3>2 DEF Contains
  <2>3. CASE Contains(Tail(next), x) /\ next = <<>> /\ Len(next) > LruSize
    BY <2>3, EmptySeq, DeliveryConstants
  <2> QED BY <2>1, <2>2, <2>3
<1> HIDE DEF next
<1>2. CASE next = Append(cache, j)
  BY <1>0, <1>1, <1>2, AppendProperties DEF Contains
<1>3. ASSUME NEW p \in 1 .. Len(cache), cache[p] = j, Relocated(cache, next, p)
      PROVE  Contains(cache, x)
  <2>1. PICK i \in 1 .. Len(next) : next[i] = x
    BY <1>1 DEF Contains
  <2>2. i \in 1 .. Len(cache) - 1
    BY <1>0, <1>3, <2>1 DEF Relocated
  <2>3. i \in 1 .. Len(cache) /\ i + 1 \in 1 .. Len(cache)
    BY <1>0, <2>2
  <2>4. next[i] = cache[i] \/ next[i] = cache[i + 1]
    BY <1>3, <2>2 DEF Relocated
  <2> QED BY <2>1, <2>3, <2>4 DEF Contains
<1> QED BY <1>2, <1>3, MoveToEndShape DEF next

\* Only the end of an announcement changes caches and announcements.
LEMMA WorkerMemory ==
  ASSUME NEW k \in Attempts, WorkerStep(k), ~AnnounceDone(k)
  PROVE  UNCHANGED <<delivered, announced>>
BY DEF WorkerStep, StartDelivery, ClaimSent, SlotGranted, IdleCheck, Wake,
       AuthorizationDecided, AuthorizationReturned, PlaybackStartedSent, FrameSent,
       DeliveryFails, Finish, CancelDelivery, memoryVars

\* A delivery that has not looked at the cache looks when it starts.
LEMMA UnheardWorker ==
  ASSUME StateInv, MemoryInv, NEW k \in Attempts, WorkerStep(k), pc'[k] \in Unheard
  PROVE  ~Remembered(k) /\ ~AnnounceDone(k)
<1>0. DeliveryTypeOK
  BY DEF StateInv
<1>1. pc[k] = "queued" \/ pc[k] \in Unheard
  BY WorkerPhases DEF Outcome, Unheard
<1>2. ~AnnounceDone(k)
  BY <1>1 DEF AnnounceDone, Unheard
<1>3. CASE pc[k] = "queued"
  <2>1. StartDelivery(k)
    BY <1>3 DEF WorkerStep, ClaimSent, SlotGranted, IdleCheck, Wake, AuthorizationDecided,
                AuthorizationReturned, PlaybackStartedSent, AnnounceDone, FrameSent,
                DeliveryFails, Finish, CancelDelivery, Cancellable, InProgress, Sending
  <2>2. pc'[k] = FirstFrame(k)
    BY <1>0, <2>1, OutcomePhases DEF StartDelivery
  <2> QED BY <1>2, <2>2 DEF FirstFrame, Unheard
<1>4. CASE pc[k] \in Unheard
  BY <1>2, <1>4 DEF MemoryInv
<1> QED BY <1>1, <1>3, <1>4

\* The end of an announcement keeps the caches in step, and concerns the job of no
\* other delivery in progress.
LEMMA AnnouncementKeepsMemory ==
  ASSUME StateInv, MemoryInv, NEW k \in Attempts, AnnounceDone(k)
  PROVE  MemoryInv'
<1> DEFINE m == ManagerOf[k]
           j == JobOf[k]
           next == MoveToEnd(delivered[m], j)
           cut == IF Len(next) > LruSize THEN Tail(next) ELSE next
<1>1. /\ announced' = [announced EXCEPT ![m] = MoveToEnd(@, j)]
      /\ delivered' = [delivered EXCEPT ![m] = cut]
      /\ pc' = [pc EXCEPT ![k] = "acking"]
      /\ pc[k] = "playing"
      /\ UNCHANGED managerState
  BY DEF AnnounceDone, RememberDelivered, GoTo
<1>2. /\ m \in Managers /\ j \in Jobs
      /\ delivered[m] \in Seq(Jobs) /\ announced[m] \in Seq(Jobs)
      /\ \A x \in Managers : x # m => delivered'[x] = delivered[x] /\ announced'[x] = announced[x]
      /\ delivered'[m] = cut
      /\ announced'[m] = MoveToEnd(announced[m], j)
  BY <1>1, DeliveryConstants DEF StateInv, DeliveryTypeOK
<1> HIDE DEF next, cut
<1>3. ASSUME NEW x \in Managers, managerState'[x] # "closed"
      PROVE  KeepsLatest(delivered'[x], announced'[x])
  <2>1. KeepsLatest(delivered[x], announced[x])
    BY <1>1, <1>3 DEF MemoryInv
  <2>2. CASE x = m
    BY <1>2, <2>1, <2>2, CacheFollowsLog, DeliveryConstants DEF cut, next
  <2> QED BY <1>2, <2>1, <2>2
<1>4. ASSUME NEW a \in Attempts, pc'[a] \in Unheard
      PROVE  ~Remembered(a)'
  <2>1. a # k /\ pc[a] = pc'[a]
    BY <1>1, <1>4 DEF StateInv, DeliveryTypeOK, Unheard
  <2>2. ~Remembered(a)
    BY <1>4, <2>1 DEF MemoryInv
  <2>3. CASE ManagerOf[a] # m
    BY <1>2, <2>2, <2>3, DeliveryConstants DEF Remembered
  <2>4. CASE ManagerOf[a] = m
    <3>1. JobOf[a] # j
      <4>1. InProgress(a) /\ InProgress(k)
        BY <1>1, <1>4, <2>1 DEF InProgress, Unheard
      <4>2. LaneOf(a) # LaneOf(k)
        BY <2>1, <4>1 DEF StateInv, WorkersWork
      <4> QED BY <4>2, DeliveryConstants DEF LaneOf
    <3>2. ASSUME Remembered(a)' PROVE FALSE
      <4>1. Contains(cut, JobOf[a])
        BY <1>2, <2>4, <3>2 DEF Remembered
      <4>2. Contains(delivered[m], JobOf[a])
        BY <1>2, <3>1, <4>1, RememberedBefore DEF cut, next
      <4> QED BY <2>2, <2>4, <4>2 DEF Remembered
    <3> QED BY <3>2
  <2> QED BY <2>3, <2>4
<1> QED BY <1>3, <1>4 DEF MemoryInv

\* Every step keeps it.
LEMMA MemoryStep ==
  ASSUME StateInv, MemoryInv, [DeliveryNext]_vars
  PROVE  MemoryInv'
<1>0. DeliveryTypeOK
  BY DEF StateInv
<1>1. ASSUME UNCHANGED <<delivered, announced>>,
             \A m \in Managers : managerState'[m] # "closed" => managerState[m] # "closed",
             \A a \in Attempts : pc'[a] \in Unheard => ~Remembered(a)
      PROVE  MemoryInv'
  BY <1>1 DEF MemoryInv, Remembered
<1>2. ASSUME NEW k \in Attempts, WorkerStep(k), ~AnnounceDone(k) PROVE MemoryInv'
  <2>1. PICK next : pc' = [pc EXCEPT ![k] = next] /\ UNCHANGED managerState
    BY <1>2, WorkerIsProper DEF Proper, Moves
  <2>2. ASSUME NEW a \in Attempts, pc'[a] \in Unheard PROVE ~Remembered(a)
    <3>1. CASE a = k
      BY <1>2, <2>2, <3>1, UnheardWorker
    <3>2. CASE a # k
      BY <1>0, <2>1, <2>2, <3>2 DEF MemoryInv, DeliveryTypeOK
    <3> QED BY <3>1, <3>2
  <2> QED BY <1>1, <1>2, <2>1, <2>2, WorkerMemory
<1>3. ASSUME UNCHANGED <<delivered, announced, managerState>>,
             \A a \in Attempts : pc'[a] \in Unheard => pc[a] = pc'[a]
      PROVE  MemoryInv'
  <2>1. \A a \in Attempts : pc'[a] \in Unheard => ~Remembered(a)
    BY <1>3 DEF MemoryInv
  <2> QED BY <1>1, <1>3, <2>1
<1>4. ASSUME NEW k \in Attempts, JobReady(k) PROVE MemoryInv'
  <2>1. /\ UNCHANGED <<delivered, announced, managerState>>
        /\ pc' = pc \/ pc' = [pc EXCEPT ![k] = "queued"]
    BY <1>4 DEF JobReady, memoryVars
  <2> QED BY <1>0, <1>3, <2>1 DEF Unheard, DeliveryTypeOK
<1>5. ASSUME NEW k \in Attempts, JobAuthorized(k) \/ JobRevoke(k) \/ RenewFails(k) \/ NackSent(k)
      PROVE  MemoryInv'
  BY <1>3, <1>5 DEF JobAuthorized, JobRevoke, RenewFails, NackSent, managerVars, memoryVars,
                    taskVars
<1>6. ASSUME NEW m \in Managers, CloseBegin(m) PROVE MemoryInv'
  <2>1. /\ UNCHANGED <<delivered, announced, pc>>
        /\ managerState[m] = "open"
        /\ managerState' = [managerState EXCEPT ![m] = "closing"]
    BY <1>6 DEF CloseBegin, memoryVars, taskVars
  <2>2. \A x \in Managers : managerState'[x] # "closed" => managerState[x] # "closed"
    BY <1>0, <2>1 DEF DeliveryTypeOK
  <2> QED BY <1>1, <2>1, <2>2 DEF MemoryInv
<1>7. ASSUME NEW m \in Managers, CloseEnd(m) PROVE MemoryInv'
  <2>1. /\ UNCHANGED announced
        /\ delivered' = [delivered EXCEPT ![m] = <<>>]
        /\ managerState' = [managerState EXCEPT ![m] = "closed"]
        /\ pc' = [k \in Attempts |-> IF ManagerOf[k] = m THEN "none" ELSE pc[k]]
    BY <1>7 DEF CloseEnd
  <2>2. \A x \in Managers : managerState'[x] # "closed" =>
          x # m /\ managerState[x] # "closed" /\ delivered'[x] = delivered[x]
    BY <1>0, <2>1 DEF DeliveryTypeOK
  <2>3. ASSUME NEW a \in Attempts, pc'[a] \in Unheard PROVE ~Remembered(a)'
    <3>1. ManagerOf[a] # m /\ pc[a] = pc'[a] /\ ManagerOf[a] \in Managers
      BY <2>1, <2>3, DeliveryConstants DEF Unheard
    <3> QED BY <1>0, <2>1, <2>3, <3>1 DEF MemoryInv, Remembered, DeliveryTypeOK
  <2> QED BY <2>1, <2>2, <2>3 DEF MemoryInv
<1>8. CASE SatelliteStep \/ ClockStep \/ UNCHANGED vars
  BY <1>3, <1>8 DEF SatelliteStep, ClockStep, vars, deliveryVars, managerVars, memoryVars,
                    taskVars
<1> QED BY <1>2, <1>4, <1>5, <1>6, <1>7, <1>8, AnnouncementKeepsMemory
        DEF DeliveryNext, CasaStep

\* No manager has announced anything at first.
LEMMA MemoryInit == DeliveryInit => MemoryInv
<1> SUFFICES ASSUME DeliveryInit PROVE MemoryInv
  OBVIOUS
<1>1. \A m \in Managers : delivered[m] = <<>> /\ announced[m] = <<>>
  BY DEF DeliveryInit
<1>2. KeepsLatest(<<>>, <<>>)
  BY EmptySeq, DeliveryConstants DEF KeepsLatest, Distinct
<1> QED BY <1>1, <1>2 DEF MemoryInv, DeliveryInit, Unheard

\* A delivery about to announce has a job that was not announced lately.
LEMMA NewIsNew ==
  ASSUME StateInv, MemoryInv, NEW k \in Attempts, pc[k] = "notifying"
  PROVE  ~LatelyAnnounced(ManagerOf[k], JobOf[k])
<1> SUFFICES ASSUME LatelyAnnounced(ManagerOf[k], JobOf[k]) PROVE FALSE
  OBVIOUS
<1> DEFINE m == ManagerOf[k]
           log == announced[m]
           cache == delivered[m]
<1>1. m \in Managers /\ managerState[m] # "closed"
  BY DeliveryConstants DEF StateInv, Clean
<1>2. KeepsLatest(cache, log) /\ ~Contains(cache, JobOf[k])
  BY <1>1 DEF MemoryInv, Unheard, Remembered
<1>3. PICK i \in 1 .. Len(log) : log[i] = JobOf[k] /\ Len(log) - i < LruSize
  BY DEF LatelyAnnounced
<1>4. Len(log) \in Nat /\ Len(cache) \in Nat /\ LruSize \in Nat
  BY <1>1, LenProperties, DeliveryConstants DEF StateInv, DeliveryTypeOK
<1> HIDE DEF log, cache
<1>5. i - (Len(log) - Len(cache)) \in 1 .. Len(cache)
  BY <1>2, <1>3, <1>4 DEF KeepsLatest
<1>6. Len(log) - Len(cache) + (i - (Len(log) - Len(cache))) = i
  BY <1>3, <1>4
<1>7. cache[i - (Len(log) - Len(cache))] = JobOf[k]
  BY <1>2, <1>3, <1>5, <1>6 DEF KeepsLatest
<1> QED BY <1>2, <1>5, <1>7 DEF Contains

\* A reoffer is reported "without repeating the audio" (README): a job among the
\* LruSize latest announced ones is announced by no attempt again.
THEOREM AudioIsNotRepeated == DeliverySafety => NoRepeatedAnnouncement
<1> DEFINE New == \A k \in Attempts : Begins(k) => ~LatelyAnnounced(ManagerOf[k], JobOf[k])
<1>1. StateInv /\ MemoryInv /\ [DeliveryNext]_vars => MemoryInv'
  BY MemoryStep
<1>2. StateInv /\ MemoryInv /\ [DeliveryNext]_vars => [New]_vars
  <2> SUFFICES ASSUME StateInv, MemoryInv, [DeliveryNext]_vars, NEW k \in Attempts, Begins(k)
               PROVE  ~LatelyAnnounced(ManagerOf[k], JobOf[k])
    OBVIOUS
  <2>1. WorkerStep(k)
    BY MoverIsOwnWorker DEF Begins
  <2>2. pc[k] = "notifying"
    BY <2>1, WorkerPhases DEF Begins, Outcome
  <2> QED BY <2>2, NewIsNew
<1> QED BY <1>1, <1>2, MemoryInit, DeliveryStateInvariant, PTL
        DEF DeliverySafety, NoRepeatedAnnouncement

-----------------------------------------------------------------------------
(* The managers do what Announcements promises.                             *)

\* A job that is reported again was announced.
ReclaimedWereHeard ==
  \A k \in Attempts : pc[k] = "reclaiming" => Contains(announced[ManagerOf[k]], JobOf[k])

\* A job in a log is still there when another one, or itself, is moved to its end.
LEMMA MoveToEndKeeps ==
  ASSUME NEW S, NEW log \in Seq(S), NEW j \in S, NEW x, Contains(log, x)
  PROVE  Contains(MoveToEnd(log, j), x)
<1> DEFINE moved == MoveToEnd(log, j)
<1>0. Len(log) \in Nat
  BY LenProperties
<1>1. PICK i \in 1 .. Len(log) : log[i] = x
  BY DEF Contains
<1> HIDE DEF moved
<1>2. CASE moved = Append(log, j)
  <2>1. i \in 1 .. Len(moved) /\ moved[i] = x
    BY <1>0, <1>1, <1>2, AppendProperties
  <2> QED BY <2>1 DEF Contains, moved
<1>3. ASSUME NEW p \in 1 .. Len(log), Relocated(log, moved, p) PROVE Contains(moved, x)
  <2> DEFINE to == IF i = p THEN Len(log) ELSE IF i < p THEN i ELSE i - 1
  <2>1. to \in 1 .. Len(moved) /\ moved[to] = x
    <3>1. CASE i = p
      BY <1>0, <1>1, <1>3, <3>1 DEF Relocated
    <3>2. CASE i < p
      <4>1. i \in 1 .. Len(log) - 1 /\ i # p
        BY <1>0, <3>2
      <4> QED BY <1>0, <1>1, <1>3, <3>2, <4>1 DEF Relocated
    <3>3. CASE i > p
      <4>1. /\ i - 1 \in 1 .. Len(log) - 1 /\ ~(i - 1 < p) /\ (i - 1) + 1 = i
            /\ i # p /\ ~(i < p)
        BY <1>0, <3>3
      <4>2. moved[i - 1] = log[i]
        BY <1>3, <4>1 DEF Relocated
      <4> QED BY <1>0, <1>1, <1>3, <4>1, <4>2 DEF Relocated
    <3> QED BY <1>0, <3>1, <3>2, <3>3
  <2> QED BY <2>1 DEF Contains
<1> QED BY <1>2, <1>3, MoveToEndShape DEF moved

\* What a cache holds was announced.
LEMMA RememberedWasHeard ==
  ASSUME StateInv, MemoryInv, NEW k \in Attempts, pc[k] # "none", Remembered(k)
  PROVE  Contains(announced[ManagerOf[k]], JobOf[k])
<1> DEFINE m == ManagerOf[k]
           log == announced[m]
           cache == delivered[m]
<1>1. m \in Managers /\ KeepsLatest(cache, log)
  BY DeliveryConstants DEF StateInv, Clean, MemoryInv
<1>2. Len(log) \in Nat /\ Len(cache) \in Nat /\ LruSize \in Nat
  BY <1>1, LenProperties, DeliveryConstants DEF StateInv, DeliveryTypeOK
<1>3. PICK i \in 1 .. Len(cache) : cache[i] = JobOf[k]
  BY DEF Remembered, Contains
<1> HIDE DEF log, cache
<1>4. Len(log) - Len(cache) + i \in 1 .. Len(log)
  BY <1>1, <1>2, <1>3 DEF KeepsLatest
<1>5. log[Len(log) - Len(cache) + i] = JobOf[k]
  BY <1>1, <1>3 DEF KeepsLatest
<1> QED BY <1>4, <1>5 DEF Contains, log

\* Announcements are only added.
LEMMA AnnouncedStay ==
  ASSUME DeliveryTypeOK, [DeliveryNext]_vars, NEW k \in Attempts,
         Contains(announced[ManagerOf[k]], JobOf[k])
  PROVE  Contains(announced'[ManagerOf[k]], JobOf[k])
<1>1. CASE UNCHANGED announced
  BY <1>1
<1>2. ASSUME NEW a \in Attempts, AnnounceDone(a)
      PROVE  Contains(announced'[ManagerOf[k]], JobOf[k])
  <2>1. /\ announced' = [announced EXCEPT ![ManagerOf[a]] = MoveToEnd(@, JobOf[a])]
        /\ ManagerOf[k] \in Managers /\ ManagerOf[a] \in Managers /\ JobOf[a] \in Jobs
        /\ announced \in [Managers -> Seq(Jobs)]
    BY <1>2, DeliveryConstants DEF AnnounceDone, DeliveryTypeOK
  <2>2. CASE ManagerOf[k] = ManagerOf[a]
    <3>1. announced'[ManagerOf[k]] = MoveToEnd(announced[ManagerOf[k]], JobOf[a])
      BY <2>1, <2>2
    <3> QED BY <2>1, <3>1, MoveToEndKeeps
  <2>3. CASE ManagerOf[k] # ManagerOf[a]
    BY <2>1, <2>3
  <2> QED BY <2>2, <2>3
<1>3. ASSUME NEW a \in Attempts, WorkerStep(a), ~AnnounceDone(a) PROVE UNCHANGED announced
  BY <1>3, WorkerMemory
<1>4. ASSUME NEW a \in Attempts, CasaStep(a) \/ RenewFails(a) \/ NackSent(a)
      PROVE  UNCHANGED announced
  BY <1>4 DEF CasaStep, JobReady, JobAuthorized, JobRevoke, RenewFails, NackSent, memoryVars
<1>5. ASSUME NEW m \in Managers, CloseBegin(m) \/ CloseEnd(m) PROVE UNCHANGED announced
  BY <1>5 DEF CloseBegin, CloseEnd, memoryVars
<1>6. CASE SatelliteStep \/ ClockStep \/ UNCHANGED vars
  BY <1>1, <1>6 DEF SatelliteStep, ClockStep, vars, deliveryVars, memoryVars
<1> QED BY <1>1, <1>2, <1>3, <1>4, <1>5, <1>6 DEF DeliveryNext

\* A job is reported again only when the cache holds it.
LEMMA ReclaimedStep ==
  ASSUME StateInv, MemoryInv, ReclaimedWereHeard, [DeliveryNext]_vars
  PROVE  ReclaimedWereHeard'
<1> SUFFICES ASSUME NEW k \in Attempts, pc'[k] = "reclaiming"
             PROVE  Contains(announced'[ManagerOf[k]], JobOf[k])
  BY DEF ReclaimedWereHeard
<1>0. DeliveryTypeOK
  BY DEF StateInv
<1>1. CASE pc[k] = "reclaiming"
  BY <1>0, <1>1, AnnouncedStay DEF ReclaimedWereHeard
<1>2. CASE pc[k] # "reclaiming"
  <2>1. WorkerStep(k)
    BY <1>2, MoverIsOwnWorker
  <2>2. pc[k] = "queued"
    BY <2>1, WorkerPhases DEF Outcome
  <2>3. StartDelivery(k)
    BY <2>1, <2>2 DEF WorkerStep, ClaimSent, SlotGranted, IdleCheck, Wake, AuthorizationDecided,
                      AuthorizationReturned, PlaybackStartedSent, AnnounceDone, FrameSent,
                      DeliveryFails, Finish, CancelDelivery, Cancellable, InProgress, Sending
  <2>4. pc'[k] = FirstFrame(k)
    BY <1>0, <2>3, OutcomePhases DEF StartDelivery
  <2>5. Remembered(k)
    BY <2>4 DEF FirstFrame
  <2> QED BY <1>0, <2>2, <2>5, RememberedWasHeard, AnnouncedStay
<1> QED BY <1>1, <1>2

-----------------------------------------------------------------------------

\* Who is spoken on a device, before and after a step.
LEMMA SpokenIs ==
  ASSUME OneAnnouncementPerDevice, OneAnnouncementPerDevice', NEW d \in Devices
  PROVE  /\ \A k \in Attempts : pc[k] = "playing" /\ DeviceOf[k] = d => SpokenOn(d) = k
         /\ (\A k \in Attempts : ~(pc[k] = "playing" /\ DeviceOf[k] = d)) => SpokenOn(d) = None
         /\ \A k \in Attempts : pc'[k] = "playing" /\ DeviceOf[k] = d => SpokenOn(d)' = k
         /\ (\A k \in Attempts : ~(pc'[k] = "playing" /\ DeviceOf[k] = d)) => SpokenOn(d)' = None
<1>1. ASSUME NEW k \in Attempts, pc[k] = "playing", DeviceOf[k] = d PROVE SpokenOn(d) = k
  BY <1>1 DEF SpokenOn, OneAnnouncementPerDevice
<1>2. ASSUME NEW k \in Attempts, pc'[k] = "playing", DeviceOf[k] = d PROVE SpokenOn(d)' = k
  BY <1>2 DEF SpokenOn, OneAnnouncementPerDevice
<1> QED BY <1>1, <1>2 DEF SpokenOn

\* Devices where nobody begins or ends speak as before.
LEMMA SpokenStays ==
  ASSUME OneAnnouncementPerDevice, OneAnnouncementPerDevice', NEW d \in Devices,
         \A k \in Attempts : DeviceOf[k] = d => (pc'[k] = "playing" <=> pc[k] = "playing")
  PROVE  SpokenOn(d)' = SpokenOn(d)
<1>1. CASE \E k \in Attempts : pc[k] = "playing" /\ DeviceOf[k] = d
  BY <1>1, SpokenIs
<1>2. CASE \A k \in Attempts : ~(pc[k] = "playing" /\ DeviceOf[k] = d)
  BY <1>2, SpokenIs
<1> QED BY <1>1, <1>2

\* Who is served on a lane, before and after a step.
OneInProgress ==
  \A a, b \in Attempts : LaneOf(a) = LaneOf(b) /\ InProgress(a) /\ InProgress(b) => a = b

LEMMA ServedIs ==
  ASSUME OneInProgress, OneInProgress', NEW lane
  PROVE  /\ \A k \in Attempts : InProgress(k) /\ LaneOf(k) = lane => ServedOn(lane) = k
         /\ (\A k \in Attempts : ~(InProgress(k) /\ LaneOf(k) = lane)) => ServedOn(lane) = None
         /\ \A k \in Attempts : InProgress(k)' /\ LaneOf(k) = lane => ServedOn(lane)' = k
         /\ (\A k \in Attempts : ~(InProgress(k)' /\ LaneOf(k) = lane)) => ServedOn(lane)' = None
<1>1. ASSUME NEW k \in Attempts, InProgress(k), LaneOf(k) = lane PROVE ServedOn(lane) = k
  BY <1>1 DEF ServedOn, OneInProgress
<1>2. ASSUME NEW k \in Attempts, InProgress(k)', LaneOf(k) = lane PROVE ServedOn(lane)' = k
  BY <1>2 DEF ServedOn, OneInProgress, LaneOf
<1>3. (\A k \in Attempts : ~(InProgress(k) /\ LaneOf(k) = lane)) => ServedOn(lane) = None
  BY DEF ServedOn
<1>4. (\A k \in Attempts : ~(InProgress(k)' /\ LaneOf(k) = lane)) => ServedOn(lane)' = None
  BY DEF ServedOn, LaneOf
<1> QED BY <1>1, <1>2, <1>3, <1>4

\* A lane on which nobody comes or goes is served as before.
LEMMA ServedStays ==
  ASSUME OneInProgress, OneInProgress', NEW lane,
         \A k \in Attempts : LaneOf(k) = lane => (InProgress(k)' <=> InProgress(k))
  PROVE  ServedOn(lane)' = ServedOn(lane)
<1>1. CASE \E k \in Attempts : InProgress(k) /\ LaneOf(k) = lane
  BY <1>1, ServedIs
<1>2. CASE \A k \in Attempts : ~(InProgress(k) /\ LaneOf(k) = lane)
  BY <1>2, ServedIs
<1> QED BY <1>1, <1>2

\* What Announcements sees of the managers.
Served == [lane \in Lanes |-> ServedOn(lane)]
Permission == [k \in Attempts |-> PermissionOf(k)]
Spoken == [d \in Devices |-> SpokenOn(d)]
Reporting == {k \in Attempts : pc[k] = "acking"}
Seen == <<queues, Served, Permission, Spoken, announced, Reporting>>

\* What a step of k to next does to the turns of its lane.
LEMMA MoveOnLane ==
  ASSUME DeliveryTypeOK, OneInProgress, OneInProgress', NEW k \in Attempts, NEW next,
         pc' = [pc EXCEPT ![k] = next]
  PROVE  LET stays == next \notin {"none", "queued"} IN
         /\ InProgress(k) => Served[LaneOf(k)] = k
         /\ InProgress(k) /\ stays => Served' = Served
         /\ InProgress(k) /\ ~stays => Served' = [Served EXCEPT ![LaneOf(k)] = None]
         /\ ~InProgress(k) /\ stays => /\ Served[LaneOf(k)] = None
                                      /\ Served' = [Served EXCEPT ![LaneOf(k)] = k]
         /\ ~InProgress(k) /\ ~stays => Served' = Served
<1> DEFINE lane == LaneOf(k)
           stays == next \notin {"none", "queued"}
<1>0. lane \in Lanes
  BY LaneTypes
<1>1. /\ InProgress(k)' <=> stays
      /\ \A a \in Attempts : a # k => (InProgress(a)' <=> InProgress(a))
  BY DEF DeliveryTypeOK, InProgress
<1>2. ASSUME NEW x \in Lanes, x # lane PROVE ServedOn(x)' = ServedOn(x)
  BY <1>1, <1>2, ServedStays
<1>3. InProgress(k) => ServedOn(lane) = k
  BY ServedIs
<1>4. stays => ServedOn(lane)' = k
  BY <1>1, ServedIs
<1>5. InProgress(k) /\ ~stays => ServedOn(lane)' = None
  <2> SUFFICES ASSUME InProgress(k), ~stays PROVE ServedOn(lane)' = None
    OBVIOUS
  <2>1. \A a \in Attempts : ~(InProgress(a)' /\ LaneOf(a) = lane)
    BY <1>1 DEF OneInProgress
  <2> QED BY <2>1, ServedIs
<1>6. ~InProgress(k) /\ stays => ServedOn(lane) = None
  <2> SUFFICES ASSUME ~InProgress(k), stays PROVE ServedOn(lane) = None
    OBVIOUS
  <2>1. \A a \in Attempts : ~(InProgress(a) /\ LaneOf(a) = lane)
    BY <1>1 DEF OneInProgress, LaneOf
  <2> QED BY <2>1, ServedIs
<1>7. ~InProgress(k) /\ ~stays => ServedOn(lane)' = ServedOn(lane)
  BY <1>1, ServedStays
<1> HIDE DEF stays, lane
<1>8. Served = [x \in Lanes |-> ServedOn(x)] /\ Served' = [x \in Lanes |-> ServedOn(x)']
  BY DEF Served, Lanes
<1>9. InProgress(k) /\ stays => Served' = Served
  BY <1>2, <1>3, <1>4, <1>8
<1>10. InProgress(k) /\ ~stays => Served' = [Served EXCEPT ![lane] = None]
  BY <1>0, <1>2, <1>5, <1>8
<1>11. ~InProgress(k) /\ stays => Served[lane] = None /\ Served' = [Served EXCEPT ![lane] = k]
  BY <1>0, <1>2, <1>4, <1>6, <1>8
<1>12. ~InProgress(k) /\ ~stays => Served' = Served
  BY <1>2, <1>7, <1>8
<1> QED BY <1>0, <1>3, <1>8, <1>9, <1>10, <1>11, <1>12 DEF stays, lane

\* A step of k: what is spoken on its device, and what is reported.
LEMMA MoveOnDevice ==
  ASSUME DeliveryTypeOK, OneAnnouncementPerDevice, OneAnnouncementPerDevice',
         NEW k \in Attempts, NEW next, pc' = [pc EXCEPT ![k] = next]
  PROVE  /\ pc[k] = "playing" => Spoken[DeviceOf[k]] = k
         /\ next = "playing" /\ pc[k] # "playing" => Spoken[DeviceOf[k]] = None
         /\ pc[k] = "playing" /\ next # "playing" =>
              Spoken' = [Spoken EXCEPT ![DeviceOf[k]] = None]
         /\ next = "playing" => Spoken' = [Spoken EXCEPT ![DeviceOf[k]] = k]
         /\ ~(pc[k] = "playing") /\ next # "playing" => Spoken' = Spoken
         /\ Reporting' = IF next = "acking" THEN Reporting \cup {k} ELSE Reporting \ {k}
<1> DEFINE d == DeviceOf[k]
<1>0. d \in Devices /\ pc'[k] = next /\ \A a \in Attempts : a # k => pc'[a] = pc[a]
  BY SlotConstants DEF DeliveryTypeOK
<1>1. \A x \in Devices \ {d} : SpokenOn(x)' = SpokenOn(x)
  BY <1>0, SpokenStays
<1>2. pc[k] = "playing" => SpokenOn(d) = k
  BY <1>0, SpokenIs
<1>3. next = "playing" /\ pc[k] # "playing" => SpokenOn(d) = None
  <2> SUFFICES ASSUME next = "playing", pc[k] # "playing" PROVE SpokenOn(d) = None
    OBVIOUS
  <2>1. \A a \in Attempts : ~(pc[a] = "playing" /\ DeviceOf[a] = d)
    BY <1>0 DEF OneAnnouncementPerDevice
  <2> QED BY <1>0, <2>1, SpokenIs
<1>4. pc[k] = "playing" /\ next # "playing" => SpokenOn(d)' = None
  <2> SUFFICES ASSUME pc[k] = "playing", next # "playing" PROVE SpokenOn(d)' = None
    OBVIOUS
  <2>1. \A a \in Attempts : ~(pc'[a] = "playing" /\ DeviceOf[a] = d)
    BY <1>0 DEF OneAnnouncementPerDevice
  <2> QED BY <1>0, <2>1, SpokenIs
<1>5. next = "playing" => SpokenOn(d)' = k
  BY <1>0, SpokenIs
<1>6. pc[k] # "playing" /\ next # "playing" => SpokenOn(d)' = SpokenOn(d)
  BY <1>0, SpokenStays
<1>7. Reporting' = IF next = "acking" THEN Reporting \cup {k} ELSE Reporting \ {k}
  BY <1>0 DEF Reporting
<1> QED BY <1>0, <1>1, <1>2, <1>3, <1>4, <1>5, <1>6, <1>7 DEF Spoken

-----------------------------------------------------------------------------
(* Permissions.                                                             *)

\* Who was told that it may go on was authorized.
AuthorizedWereGranted ==
  \A k \in Attempts : pc[k] = "authorized" => authorization[k] = "granted"

\* A delivery that goes on, gives up or ends leaves the flags of the others.
LEMMA OutcomeFlags ==
  ASSUME NEW k \in Attempts, NEW a \in Attempts, a # k,
         EndDelivery(k) \/ Abort(k) \/ (\E next : GoTo(k, next)) \/ ForgetAttempt(k)
  PROVE  (a \in revoked' <=> a \in revoked) /\ (a \in leaseLost' <=> a \in leaseLost)
<1>1. EndDelivery(k) \/ (\E next : GoTo(k, next)) \/ ForgetAttempt(k)
  BY DEF Abort
<1> QED BY <1>1 DEF EndDelivery, GoTo, ForgetAttempt, flagVars

\* The step of a worker leaves what Casa said of other attempts.
LEMMA WorkerFlags ==
  ASSUME DeliveryTypeOK, NEW k \in Attempts, WorkerStep(k), NEW a \in Attempts, a # k
  PROVE  /\ a \in revoked' <=> a \in revoked
         /\ a \in leaseLost' <=> a \in leaseLost
         /\ authorization'[a] = authorization[a]
<1> DEFINE Kept == /\ a \in revoked' <=> a \in revoked
                   /\ a \in leaseLost' <=> a \in leaseLost
                   /\ authorization'[a] = authorization[a]
<1>0. ASSUME UNCHANGED flagVars, UNCHANGED authorization PROVE Kept
  BY <1>0 DEF flagVars
<1>1. ASSUME EndDelivery(k) \/ Abort(k) \/ (\E next : GoTo(k, next)) \/ ForgetAttempt(k),
             UNCHANGED authorization \/ DropAuthorization(k)
      PROVE  Kept
  <2>1. authorization'[a] = authorization[a]
    BY <1>1 DEF DropAuthorization, DeliveryTypeOK
  <2> QED BY <1>1, <2>1, OutcomeFlags
<1>2. CASE StartDelivery(k)
  BY <1>1, <1>2 DEF StartDelivery
<1>3. CASE ClaimSent(k) \/ SlotGranted(k)
  BY <1>0, <1>3 DEF ClaimSent, SlotGranted
<1>4. CASE IdleCheck(k)
  <2>1. CASE UNCHANGED authorization
    BY <1>1, <1>4, <2>1 DEF IdleCheck
  <2>2. CASE /\ authorization' = [authorization EXCEPT ![k] = "pending"]
             /\ GoTo(k, "starting")
    BY <2>2, OutcomeFlags DEF DeliveryTypeOK
  <2> QED BY <1>4, <2>1, <2>2 DEF IdleCheck
<1>5. CASE Wake(k) \/ AuthorizationDecided(k)
  BY <1>1, <1>5 DEF Wake, AuthorizationDecided
<1>6. CASE AuthorizationReturned(k)
  BY <1>1, <1>6 DEF AuthorizationReturned
<1>7. CASE PlaybackStartedSent(k)
  BY <1>1, <1>7 DEF PlaybackStartedSent
<1>8. CASE AnnounceDone(k) \/ FrameSent(k)
  BY <1>1, <1>8 DEF AnnounceDone, FrameSent
<1>9. CASE DeliveryFails(k) \/ CancelDelivery(k)
  BY <1>1, <1>9 DEF DeliveryFails, CancelDelivery
<1>10. CASE Finish(k)
  BY <1>1, <1>10 DEF Finish
<1> QED BY <1>2, <1>3, <1>4, <1>5, <1>6, <1>7, <1>8, <1>9, <1>10 DEF WorkerStep

\* Which action it was, by the phases it leaves and enters.
LEMMA WhichStep ==
  ASSUME DeliveryTypeOK, NEW k \in Attempts, WorkerStep(k)
  PROVE  /\ pc'[k] = "starting" => IdleCheck(k)
         /\ pc'[k] = "authWait" => FrameSent(k)
         /\ pc'[k] \in {"authorized", "refused"} => AuthorizationDecided(k)
         /\ pc'[k] = "notifying" => AuthorizationReturned(k)
         /\ pc'[k] = "playing" => PlaybackStartedSent(k)
         /\ StartDelivery(k) => pc'[k] \in {"revoking", "reclaiming", "claiming"}
<1>1. /\ EndDelivery(k) => pc'[k] \in {"unwinding", "none"}
      /\ Abort(k) => pc'[k] \in {"revoking", "nacking", "unwinding", "none"}
      /\ ForgetAttempt(k) => pc'[k] = "none"
      /\ \A next : GoTo(k, next) => pc'[k] = next
  BY OutcomePhases
<1>2. StartDelivery(k) => pc'[k] \in {"revoking", "reclaiming", "claiming"}
  BY <1>1 DEF StartDelivery, FirstFrame
<1>3. ClaimSent(k) \/ SlotGranted(k) \/ Wake(k) => pc'[k] \in {"inSlot", "slotWait"}
  BY <1>1 DEF ClaimSent, SlotGranted, Wake, DeliveryTypeOK
<1>4. IdleCheck(k) => pc'[k] \in {"starting", "idleWait", "revoking", "nacking", "unwinding", "none"}
  BY <1>1 DEF IdleCheck
<1>5. AuthorizationDecided(k) => pc'[k] \in {"authorized", "refused"}
  BY <1>1 DEF AuthorizationDecided
<1>6. AuthorizationReturned(k) =>
        pc'[k] \in {"notifying", "revoking", "nacking", "unwinding", "none"}
  BY <1>1 DEF AuthorizationReturned
<1>7. PlaybackStartedSent(k) => pc'[k] \in {"playing", "revoking", "nacking", "unwinding", "none"}
  BY <1>1 DEF PlaybackStartedSent
<1>8. AnnounceDone(k) \/ DeliveryFails(k) \/ CancelDelivery(k) \/ Finish(k) =>
        pc'[k] \in {"acking", "unwinding", "none"}
  BY <1>1 DEF AnnounceDone, DeliveryFails, CancelDelivery, Finish
<1>9. FrameSent(k) => pc'[k] \in {"authWait", "acking", "unwinding", "none"}
  BY <1>1 DEF FrameSent
<1> QED BY <1>2, <1>3, <1>4, <1>5, <1>6, <1>7, <1>8, <1>9 DEF WorkerStep

\* Without an authorization, and outside job_playback_started, there is no permission.
LEMMA NoPermission ==
  ASSUME Clean, NEW k \in Attempts, pc[k] \notin Asking \cup {"notifying"}
  PROVE  PermissionOf(k) = "none"
BY DEF Clean, PermissionOf

\* What the step of a worker does to permissions: that of its own delivery is asked
\* for, kept, used up or lost; the others stay.
LEMMA WorkerPermission ==
  ASSUME StateInv, StateInv', AuthorizedWereGranted, NEW k \in Attempts, WorkerStep(k)
  PROVE  /\ \A a \in Attempts \ {k} : PermissionOf(a)' = PermissionOf(a)
         /\ pc'[k] = "starting" => PermissionOf(k) = "none" /\ PermissionOf(k)' = "asked"
         /\ pc'[k] \in {"authWait", "authorized", "refused"} =>
              PermissionOf(k)' = PermissionOf(k)
         /\ pc'[k] = "notifying" => PermissionOf(k) = "granted" /\ PermissionOf(k)' = "used"
         /\ pc'[k] = "playing" => PermissionOf(k) = "used"
         /\ pc[k] \in {"queued", "playing", "reclaiming"} => PermissionOf(k) = "none"
         /\ pc'[k] \notin Asking \cup {"notifying"} => PermissionOf(k)' = "none"
<1>0. DeliveryTypeOK /\ Clean /\ Clean'
  BY DEF StateInv
<1>1. ASSUME NEW a \in Attempts, a # k PROVE PermissionOf(a)' = PermissionOf(a)
  <2>1. /\ a \in revoked' <=> a \in revoked
        /\ a \in leaseLost' <=> a \in leaseLost
        /\ authorization'[a] = authorization[a]
    BY <1>0, <1>1, WorkerFlags
  <2>2. pc'[a] = pc[a]
    BY <1>0, <1>1, WorkerIsProper DEF Proper, Moves, DeliveryTypeOK
  <2> QED BY <2>1, <2>2 DEF PermissionOf
<1>2. ASSUME pc'[k] = "starting" PROVE PermissionOf(k) = "none" /\ PermissionOf(k)' = "asked"
  <2>1. IdleCheck(k) /\ pc[k] = "inSlot"
    BY <1>0, <1>2, WhichStep DEF IdleCheck
  <2>2. PermissionOf(k) = "none"
    BY <1>0, <2>1, NoPermission DEF Asking
  <2>3. /\ HasClaim(k)
        /\ authorization' = [authorization EXCEPT ![k] = "pending"]
        /\ GoTo(k, "starting")
    BY <1>0, <1>2, <2>1, OutcomePhases DEF IdleCheck
  <2>4. k \notin revoked' \cup leaseLost' /\ authorization'[k] = "pending"
    BY <1>0, <2>3 DEF HasClaim, Withdrawn, GoTo, flagVars, DeliveryTypeOK
  <2> QED BY <2>2, <2>4 DEF PermissionOf
<1>3. ASSUME pc'[k] = "playing" PROVE PermissionOf(k) = "used"
  <2>1. PlaybackStartedSent(k) /\ pc[k] = "notifying"
    BY <1>0, <1>3, WhichStep DEF PlaybackStartedSent
  <2>2. HasClaim(k)
    BY <1>0, <1>3, <2>1, OutcomePhases DEF PlaybackStartedSent
  <2>3. authorization[k] = "none"
    BY <1>0, <2>1 DEF Clean, Asking
  <2> QED BY <2>1, <2>2, <2>3 DEF HasClaim, Withdrawn, PermissionOf
<1>4. ASSUME pc'[k] \in {"authWait", "authorized", "refused"}
      PROVE  PermissionOf(k)' = PermissionOf(k)
  <2>1. FrameSent(k) \/ AuthorizationDecided(k)
    BY <1>0, <1>4, WhichStep
  <2>2. (\E next : GoTo(k, next)) /\ pc[k] # "notifying" /\ UNCHANGED authorization
    BY <1>0, <1>4, <2>1, OutcomePhases DEF FrameSent, AuthorizationDecided
  <2>3. UNCHANGED <<revoked, leaseLost>>
    BY <2>2 DEF GoTo, flagVars
  <2> QED BY <1>4, <2>2, <2>3 DEF PermissionOf
<1>5. ASSUME pc'[k] = "notifying"
      PROVE  PermissionOf(k) = "granted" /\ PermissionOf(k)' = "used"
  <2>1. AuthorizationReturned(k) /\ pc[k] \in {"authorized", "refused"}
    BY <1>0, <1>5, WhichStep DEF AuthorizationReturned
  <2>2. /\ pc[k] = "authorized"
        /\ HasClaim(k)
        /\ GoTo(k, "notifying")
        /\ DropAuthorization(k)
    BY <1>0, <1>5, <2>1, OutcomePhases DEF AuthorizationReturned
  <2>3. authorization[k] = "granted" /\ authorization'[k] = "none"
    BY <1>0, <2>2 DEF AuthorizedWereGranted, DropAuthorization, DeliveryTypeOK
  <2>4. k \notin revoked \cup leaseLost /\ UNCHANGED <<revoked, leaseLost>>
    BY <2>2 DEF HasClaim, Withdrawn, GoTo, flagVars
  <2> QED BY <1>5, <2>3, <2>4 DEF PermissionOf
<1>6. pc[k] \in {"queued", "playing", "reclaiming"} => PermissionOf(k) = "none"
  BY <1>0, NoPermission DEF Asking
<1>7. ASSUME pc'[k] \notin Asking \cup {"notifying"} PROVE PermissionOf(k)' = "none"
  BY <1>0, <1>7 DEF Clean, PermissionOf
<1> QED BY <1>1, <1>2, <1>3, <1>4, <1>5, <1>6, <1>7

\* Only AuthorizationDecided lets a delivery go on, and a grant stays until then.
LEMMA AuthorizedStep ==
  ASSUME StateInv, AuthorizedWereGranted, [DeliveryNext]_vars
  PROVE  AuthorizedWereGranted'
<1> SUFFICES ASSUME NEW k \in Attempts, pc'[k] = "authorized" PROVE authorization'[k] = "granted"
  BY DEF AuthorizedWereGranted
<1>0. DeliveryTypeOK
  BY DEF StateInv
<1>1. CASE WorkerStep(k)
  <2>1. AuthorizationDecided(k)
    BY <1>0, <1>1, WhichStep
  <2>2. authorization[k] = "granted" /\ UNCHANGED authorization
    BY <1>0, <2>1, OutcomePhases DEF AuthorizationDecided
  <2> QED BY <2>2
<1>2. CASE ~WorkerStep(k)
  <2>1. pc[k] = "authorized" /\ authorization[k] = "granted"
    BY <1>2, MoverIsOwnWorker DEF AuthorizedWereGranted
  <2>2. ASSUME NEW a \in Attempts, WorkerStep(a) PROVE authorization'[k] = "granted"
    BY <1>0, <1>2, <2>1, <2>2, WorkerFlags
  <2>3. ASSUME NEW a \in Attempts, JobAuthorized(a) \/ JobRevoke(a)
        PROVE  authorization'[k] = "granted"
    BY <1>0, <2>1, <2>3 DEF JobAuthorized, JobRevoke, DeliveryTypeOK
  <2>4. ASSUME NEW a \in Attempts, JobReady(a) \/ RenewFails(a) \/ NackSent(a)
        PROVE  UNCHANGED authorization
    BY <2>4 DEF JobReady, RenewFails, NackSent, taskVars
  <2>5. ASSUME NEW m \in Managers, CloseBegin(m) \/ CloseEnd(m) PROVE UNCHANGED authorization
    BY <2>5 DEF CloseBegin, CloseEnd, taskVars
  <2>6. CASE SatelliteStep \/ ClockStep \/ UNCHANGED vars
    BY <2>1, <2>6 DEF SatelliteStep, ClockStep, vars, deliveryVars, taskVars
  <2> QED BY <2>1, <2>2, <2>3, <2>4, <2>5, <2>6 DEF DeliveryNext, CasaStep
<1> QED BY <1>1, <1>2

\* Permissions as a function, in the step of a worker to next.
LEMMA PermissionMove ==
  ASSUME StateInv, StateInv', AuthorizedWereGranted, NEW k \in Attempts, WorkerStep(k)
  PROVE  /\ pc'[k] \notin Asking \cup {"notifying"} =>
              Permission' = [Permission EXCEPT ![k] = "none"]
         /\ pc'[k] \in {"authWait", "authorized", "refused"} => Permission' = Permission
         /\ pc'[k] = "starting" => /\ Permission[k] = "none"
                                   /\ Permission' = [Permission EXCEPT ![k] = "asked"]
         /\ pc'[k] = "notifying" => /\ Permission[k] = "granted"
                                    /\ Permission' = [Permission EXCEPT ![k] = "used"]
         /\ pc[k] \notin Asking \cup {"notifying"} => Permission[k] = "none"
         /\ pc'[k] = "playing" => Permission[k] = "used"
<1>1. /\ Permission = [a \in Attempts |-> PermissionOf(a)]
      /\ Permission' = [a \in Attempts |-> PermissionOf(a)']
  BY DEF Permission
<1>2. pc[k] \notin Asking \cup {"notifying"} => PermissionOf(k) = "none"
  BY NoPermission DEF StateInv
<1>3. /\ \A a \in Attempts \ {k} : PermissionOf(a)' = PermissionOf(a)
      /\ pc'[k] = "starting" => PermissionOf(k) = "none" /\ PermissionOf(k)' = "asked"
      /\ pc'[k] = "playing" => PermissionOf(k) = "used"
      /\ pc'[k] \in {"authWait", "authorized", "refused"} => PermissionOf(k)' = PermissionOf(k)
      /\ pc'[k] = "notifying" => PermissionOf(k) = "granted" /\ PermissionOf(k)' = "used"
      /\ pc'[k] \notin Asking \cup {"notifying"} => PermissionOf(k)' = "none"
  BY WorkerPermission
<1>4. pc'[k] \notin Asking \cup {"notifying"} => Permission' = [Permission EXCEPT ![k] = "none"]
  BY <1>1, <1>3
<1>5. pc'[k] \in {"authWait", "authorized", "refused"} => Permission' = Permission
  BY <1>1, <1>3
<1>6. pc'[k] = "starting" => Permission' = [Permission EXCEPT ![k] = "asked"]
  BY <1>1, <1>3
<1>7. pc'[k] = "notifying" => Permission' = [Permission EXCEPT ![k] = "used"]
  BY <1>1, <1>3
<1>8. /\ pc'[k] = "starting" => Permission[k] = "none"
      /\ pc[k] \notin Asking \cup {"notifying"} => Permission[k] = "none"
      /\ pc'[k] = "notifying" => Permission[k] = "granted"
      /\ pc'[k] = "playing" => Permission[k] = "used"
  BY <1>1, <1>2, <1>3
<1> QED BY <1>4, <1>5, <1>6, <1>7, <1>8

\* Only the start of a delivery takes it from its queue.
LEMMA WorkerQueues ==
  ASSUME NEW k \in Attempts, WorkerStep(k), ~StartDelivery(k)
  PROVE  UNCHANGED queues
BY DEF WorkerStep, ClaimSent, SlotGranted, IdleCheck, Wake, AuthorizationDecided,
       AuthorizationReturned, PlaybackStartedSent, AnnounceDone, FrameSent,
       DeliveryFails, Finish, CancelDelivery, managerVars

\* A delivery that speaks holds its slot: it is not forgotten before it has left it.
LEMMA SpeakersUnwind ==
  ASSUME StateInv, NEW k \in Attempts, WorkerStep(k), pc[k] = "playing"
  PROVE  AnnounceDone(k) \/ pc'[k] = "unwinding"
<1>0. DeliveryTypeOK
  BY DEF StateInv
<1>1. UsesSlot(k)
  BY NoneAssumption DEF StateInv, PhasesHold, Holding, HoldsSlot, SlotInv, OwnersAreUsers, UsesSlot
<1>2. AnnounceDone(k) \/ EndDelivery(k) \/ StartDelivery(k)
  BY DEF WorkerStep, ClaimSent, SlotGranted, IdleCheck, Wake, AuthorizationDecided,
         AuthorizationReturned, PlaybackStartedSent, FrameSent, DeliveryFails, Finish,
         CancelDelivery
<1>3. ~StartDelivery(k)
  BY WorkerPhases, <1>0, WhichStep DEF Outcome
<1>4. EndDelivery(k) => pc'[k] = "unwinding"
  BY <1>0, <1>1 DEF EndDelivery, DeliveryTypeOK
<1> QED BY <1>2, <1>3, <1>4

\* The logs of Announcements are those of the managers.
LEMMA SameLogs ==
  /\ \A log, j : Promise!MoveToEnd(log, j) = MoveToEnd(log, j)
  /\ \A log, j : Promise!Contains(log, j) <=> Contains(log, j)
BY DEF Promise!MoveToEnd, MoveToEnd, Promise!Contains, Contains, Promise!RemoveAt, RemoveAt

\* The lanes of Announcements are those of the managers.
LEMMA SameLanes == Promise!AgentLanes = Lanes /\ \A k : Promise!Lane(k) = LaneOf(k)
BY DEF Promise!AgentLanes, Lanes, Promise!Lane, LaneOf

Audio == <<Spoken, announced, Reporting>>

\* The start of a delivery serves the offer that waited longest.
LEMMA StartServes ==
  ASSUME StateInv, StateInv', AuthorizedWereGranted, OneInProgress, OneInProgress',
         OneAnnouncementPerDevice, OneAnnouncementPerDevice', NEW k \in Attempts,
         WorkerStep(k), StartDelivery(k)
  PROVE  Promise!Serve(k)
<1>0. DeliveryTypeOK
  BY DEF StateInv
<1>1. PICK next : pc' = [pc EXCEPT ![k] = next]
  BY WorkerIsProper DEF Proper, Moves
<1>2. pc'[k] = next /\ next \in {"revoking", "reclaiming", "claiming"}
  BY <1>0, <1>1, WhichStep DEF DeliveryTypeOK
<1>3. pc[k] = "queued"
  BY StartedWasQueued
<1>4. /\ Served[LaneOf(k)] = None
      /\ Served' = [Served EXCEPT ![LaneOf(k)] = k]
  BY <1>0, <1>1, <1>2, <1>3, MoveOnLane DEF InProgress
<1>5. Permission' = Permission
  <2>1. Permission' = [Permission EXCEPT ![k] = "none"] /\ Permission[k] = "none"
    BY <1>2, <1>3, PermissionMove DEF Asking
  <2> QED BY <2>1 DEF Permission
<1>6. UNCHANGED Audio
  <2>1. Spoken' = Spoken /\ Reporting' = Reporting \ {k}
    BY <1>0, <1>1, <1>2, <1>3, MoveOnDevice
  <2>2. k \notin Reporting
    BY <1>3 DEF Reporting
  <2>3. UNCHANGED announced
    BY DEF StartDelivery, memoryVars
  <2> QED BY <2>1, <2>2, <2>3 DEF Audio
<1>7. /\ queues[LaneOf(k)] # <<>>
      /\ Head(queues[LaneOf(k)]) = k
      /\ queues' = [queues EXCEPT ![LaneOf(k)] = Tail(@)]
  BY DEF StartDelivery
<1> QED BY <1>4, <1>5, <1>6, <1>7, SameLanes
        DEF Promise!Serve, Promise!audioVars, Served, Permission, Audio, Spoken, Reporting

\* The step of a worker serves an offer, asks for permission, begins, completes or
\* breaks off an announcement, begins or ends a report, ends the turn, or shows
\* nothing but that a permission lapsed.
LEMMA WorkerKeepsPromise ==
  ASSUME StateInv, StateInv', MemoryInv, ReclaimedWereHeard, AuthorizedWereGranted,
         OneInProgress, OneInProgress', OneAnnouncementPerDevice, OneAnnouncementPerDevice',
         NEW k \in Attempts, WorkerStep(k)
  PROVE  Promise!AnnouncementsNext \/ UNCHANGED Seen
<1> DEFINE lane == LaneOf(k)
           d == DeviceOf[k]
<1>0. DeliveryTypeOK
  BY DEF StateInv
<1>1. PICK next : pc' = [pc EXCEPT ![k] = next]
  BY WorkerIsProper DEF Proper, Moves
<1>2. pc'[k] = next /\ next \in Outcome(k)
  BY <1>0, <1>1, WorkerPhases DEF DeliveryTypeOK
<1>3. ~AnnounceDone(k) => UNCHANGED announced
  BY WorkerMemory
<1>4. CASE StartDelivery(k)
  BY <1>4, StartServes DEF Promise!AnnouncementsNext
<1>5. CASE ~StartDelivery(k)
  <2>1. InProgress(k) /\ next # "queued" /\ UNCHANGED queues
    <3>1. pc[k] # "queued"
      BY <1>5 DEF WorkerStep, ClaimSent, SlotGranted, IdleCheck, Wake, AuthorizationDecided,
                  AuthorizationReturned, PlaybackStartedSent, AnnounceDone, FrameSent,
                  DeliveryFails, Finish, CancelDelivery, Cancellable, InProgress, Sending
    <3>2. pc[k] # "none"
      BY WorkerIsProper DEF Proper, Moves
    <3> QED BY <1>2, <1>5, <3>1, <3>2, WorkerQueues DEF InProgress, Outcome
  <2>2. /\ Served[lane] = k
        /\ next # "none" => Served' = Served
        /\ next = "none" => Served' = [Served EXCEPT ![lane] = None]
    BY <1>0, <1>1, <2>1, MoveOnLane
  <2>3. pc[k] \notin Asking \cup {"notifying"} => Permission[k] = "none"
    BY PermissionMove
  <2>4. next \notin Asking \cup {"notifying"} => Permission' = [Permission EXCEPT ![k] = "none"]
    BY <1>2, PermissionMove
  <2>5. /\ pc[k] = "playing" => Spoken[d] = k
        /\ next = "playing" /\ pc[k] # "playing" => Spoken[d] = None
        /\ pc[k] = "playing" /\ next # "playing" => Spoken' = [Spoken EXCEPT ![d] = None]
        /\ next = "playing" => Spoken' = [Spoken EXCEPT ![d] = k]
        /\ ~(pc[k] = "playing") /\ next # "playing" => Spoken' = Spoken
        /\ Reporting' = IF next = "acking" THEN Reporting \cup {k} ELSE Reporting \ {k}
    BY <1>0, <1>1, MoveOnDevice
  <2>6. pc[k] # "acking" /\ next # "acking" => Reporting' = Reporting
    BY <2>5 DEF Reporting
  <2>7. ASSUME Permission[k] = "none", next \notin Asking \cup {"notifying"}
        PROVE  Permission' = Permission
    BY <2>4, <2>7 DEF Permission
  <2> HIDE DEF lane, d
  <2>8. CASE AnnounceDone(k)
    <3>1. /\ pc[k] = "playing" /\ next = "acking"
          /\ announced' = [announced EXCEPT ![ManagerOf[k]] = MoveToEnd(@, JobOf[k])]
      BY <1>0, <1>2, <2>8, OutcomePhases DEF AnnounceDone
    <3>2. /\ Served' = Served /\ Permission' = Permission
          /\ Spoken[d] = k /\ Spoken' = [Spoken EXCEPT ![d] = None]
          /\ Reporting' = Reporting \cup {k}
      BY <2>2, <2>3, <2>5, <2>7, <3>1 DEF Asking
    <3>3. Promise!Complete(k)
      BY <2>1, <3>1, <3>2, SameLogs
         DEF Promise!Complete, Promise!orderVars, Served, Permission, Spoken, Reporting, d
    <3> QED BY <3>3 DEF Promise!AnnouncementsNext
  <2>9. CASE next = "playing"
    <3>1. pc[k] = "notifying"
      BY <1>2, <2>9 DEF Outcome
    <3>2. ~Promise!HeardLately(ManagerOf[k], JobOf[k])
      BY <3>1, NewIsNew DEF Promise!HeardLately, LatelyAnnounced
    <3>3. /\ Permission[k] = "used"
          /\ Permission' = [Permission EXCEPT ![k] = "none"]
      BY <1>2, <2>4, <2>9, PermissionMove DEF Asking
    <3>4. /\ Served[lane] = k /\ Served' = Served
          /\ Spoken[d] = None /\ Spoken' = [Spoken EXCEPT ![d] = k]
          /\ Reporting' = Reporting
      BY <2>2, <2>5, <2>6, <2>9, <3>1
    <3>5. UNCHANGED announced
      BY <1>3, <3>1 DEF AnnounceDone
    <3>6. Promise!Begin(k)
      BY <2>1, <3>2, <3>3, <3>4, <3>5, SameLanes
         DEF Promise!Begin, Promise!orderVars, Served, Permission, Spoken, Reporting, d, lane
    <3> QED BY <3>6 DEF Promise!AnnouncementsNext
  <2>10. CASE ~AnnounceDone(k) /\ pc[k] = "playing"
    <3>1. next = "unwinding"
      BY <1>2, <2>10, SpeakersUnwind
    <3>2. /\ Served' = Served /\ Permission' = Permission
          /\ Spoken[d] = k /\ Spoken' = [Spoken EXCEPT ![d] = None]
          /\ Reporting' = Reporting
      BY <2>2, <2>3, <2>5, <2>6, <2>7, <2>10, <3>1 DEF Asking
    <3>3. Promise!BreakOff(k)
      BY <1>3, <2>1, <2>10, <3>2
         DEF Promise!BreakOff, Promise!orderVars, Served, Permission, Spoken, Reporting, d
    <3> QED BY <3>3 DEF Promise!AnnouncementsNext
  <2>11. CASE pc[k] # "playing" /\ next = "acking"
    <3>1. pc[k] = "reclaiming"
      BY <1>2, <2>1, <2>11 DEF Outcome, InProgress
    <3>2. UNCHANGED announced /\ Contains(announced[ManagerOf[k]], JobOf[k])
      BY <1>3, <3>1 DEF ReclaimedWereHeard, AnnounceDone
    <3>3. /\ Served[lane] = k /\ Served' = Served /\ Permission' = Permission
          /\ Spoken' = Spoken /\ Reporting' = Reporting \cup {k}
      BY <2>2, <2>3, <2>5, <2>7, <2>11, <3>1 DEF Asking
    <3>4. Promise!ReportAgain(k)
      BY <2>1, <3>2, <3>3, SameLogs, SameLanes
         DEF Promise!ReportAgain, Promise!orderVars, Served, Permission, Spoken, Reporting, lane
    <3> QED BY <3>4 DEF Promise!AnnouncementsNext
  <2>12. CASE pc[k] # "playing" /\ next = "none"
    <3>1. Spoken[d] # k
      BY <1>0, <2>12, SpokenIs, SlotConstants, NoneAssumption
         DEF Spoken, SpokenOn, OneAnnouncementPerDevice, d
    <3>2. /\ Served[lane] = k /\ Served' = [Served EXCEPT ![lane] = None]
          /\ Permission' = [Permission EXCEPT ![k] = "none"]
          /\ Spoken' = Spoken /\ Reporting' = Reporting \ {k}
      BY <2>2, <2>4, <2>5, <2>12 DEF Asking
    <3>3. UNCHANGED announced
      BY <1>3, <2>12 DEF AnnounceDone
    <3>4. Promise!TurnOver(k)
      BY <2>1, <3>1, <3>2, <3>3, SameLanes
         DEF Promise!TurnOver, Served, Permission, Spoken, Reporting, d, lane
    <3> QED BY <3>4 DEF Promise!AnnouncementsNext
  <2>13. CASE pc[k] = "acking" /\ next \notin {"playing", "acking", "none"}
    <3>1. next = "unwinding"
      BY <1>2, <2>13 DEF Outcome
    <3>2. /\ Served' = Served /\ Permission' = Permission
          /\ Spoken' = Spoken /\ Reporting' = Reporting \ {k}
      BY <2>2, <2>3, <2>5, <2>7, <2>13, <3>1 DEF Asking
    <3>3. UNCHANGED announced
      BY <1>3, <2>13 DEF AnnounceDone
    <3>4. Promise!ReportEnds(k)
      BY <2>1, <3>2, <3>3
         DEF Promise!ReportEnds, Promise!orderVars, Served, Permission, Spoken, Reporting
    <3> QED BY <3>4 DEF Promise!AnnouncementsNext
  <2>14. CASE pc[k] \notin {"playing", "acking"} /\ next \notin {"playing", "acking", "none"}
    <3>1. UNCHANGED <<queues, Served, Spoken, announced, Reporting>>
      BY <1>3, <2>1, <2>2, <2>5, <2>6, <2>14 DEF AnnounceDone
    <3>2. CASE next = "starting"
      <4>1. Permission[k] = "none" /\ Permission' = [Permission EXCEPT ![k] = "asked"]
        BY <1>2, <3>2, PermissionMove
      <4>2. Promise!Ask(k)
        BY <2>2, <3>1, <4>1, SameLanes
           DEF Promise!Ask, Promise!orderVars, Promise!audioVars, Served, Permission, Spoken,
               Reporting, lane
      <4> QED BY <4>2 DEF Promise!AnnouncementsNext
    <3>3. CASE next \notin Asking \cup {"notifying"}
      <4>1. Permission' = [Permission EXCEPT ![k] = "none"]
        BY <2>4, <3>3
      <4>2. Promise!Lapse(k)
        BY <3>1, <4>1
           DEF Promise!Lapse, Promise!orderVars, Promise!audioVars, Served, Permission, Spoken,
               Reporting
      <4> QED BY <4>2 DEF Promise!AnnouncementsNext
    <3>4. CASE next \in {"authWait", "authorized", "refused"}
      <4>1. Permission' = Permission
        BY <1>2, <3>4, PermissionMove
      <4> QED BY <3>1, <4>1 DEF Seen
    <3>5. CASE next = "notifying"
      <4>1. Permission[k] = "granted" /\ Permission' = [Permission EXCEPT ![k] = "used"]
        BY <1>2, <3>5, PermissionMove
      <4>2. Promise!Tell(k)
        BY <3>1, <4>1
           DEF Promise!Tell, Promise!orderVars, Promise!audioVars, Served, Permission, Spoken,
               Reporting
      <4> QED BY <4>2 DEF Promise!AnnouncementsNext
    <3> QED BY <3>2, <3>3, <3>4, <3>5 DEF Asking
  <2> QED BY <2>8, <2>9, <2>10, <2>11, <2>12, <2>13, <2>14
<1> QED BY <1>4, <1>5

\* A step in which nobody comes or goes, speaks or reports.
LEMMA SilentStep ==
  ASSUME OneInProgress, OneInProgress', OneAnnouncementPerDevice, OneAnnouncementPerDevice',
         \A k \in Attempts : /\ InProgress(k)' <=> InProgress(k)
                             /\ pc'[k] = "playing" <=> pc[k] = "playing"
                             /\ pc'[k] = "acking" <=> pc[k] = "acking"
  PROVE  UNCHANGED <<Served, Spoken, Reporting>>
<1>1. \A lane \in Lanes : ServedOn(lane)' = ServedOn(lane)
  BY ServedStays
<1>2. \A d \in Devices : SpokenOn(d)' = SpokenOn(d)
  BY SpokenStays
<1>3. Served' = Served
  BY <1>1 DEF Served, Lanes
<1>4. Spoken' = Spoken
  BY <1>2 DEF Spoken
<1>5. Reporting' = Reporting
  BY DEF Reporting
<1> QED BY <1>3, <1>4, <1>5

\* The permission of a, where Casa and the renewers leave it alone.
LEMMA SamePermission ==
  ASSUME NEW a \in Attempts, a \in revoked' <=> a \in revoked,
         a \in leaseLost' <=> a \in leaseLost, authorization'[a] = authorization[a],
         pc'[a] = "notifying" <=> pc[a] = "notifying"
  PROVE  PermissionOf(a)' = PermissionOf(a)
BY DEF PermissionOf

\* An offer that is taken waits behind the others; one that is refused, nowhere.
LEMMA OfferKeepsPromise ==
  ASSUME StateInv, StateInv', OneInProgress, OneInProgress', OneAnnouncementPerDevice,
         OneAnnouncementPerDevice', NEW k \in Attempts, JobReady(k)
  PROVE  Promise!Offer(k) \/ UNCHANGED Seen
<1>0. DeliveryTypeOK
  BY DEF StateInv
<1>1. /\ pc[k] = "none"
      /\ UNCHANGED <<revoked, leaseLost, authorization, announced>>
      /\ pc' = pc \/ pc' = [pc EXCEPT ![k] = "queued"]
  BY DEF JobReady, memoryVars
<1>2. UNCHANGED <<Served, Spoken, Reporting>>
  <2>1. \A a \in Attempts : pc'[a] = pc[a] \/ (pc[a] = "none" /\ pc'[a] = "queued")
    BY <1>0, <1>1 DEF DeliveryTypeOK
  <2>2. \A a \in Attempts : /\ InProgress(a)' <=> InProgress(a)
                            /\ pc'[a] = "playing" <=> pc[a] = "playing"
                            /\ pc'[a] = "acking" <=> pc[a] = "acking"
    BY <2>1 DEF InProgress
  <2> QED BY <2>2, SilentStep
<1>3. UNCHANGED Permission
  <2>1. \A a \in Attempts : pc'[a] = "notifying" <=> pc[a] = "notifying"
    BY <1>0, <1>1 DEF DeliveryTypeOK
  <2>2. \A a \in Attempts : PermissionOf(a)' = PermissionOf(a)
    BY <1>1, <2>1, SamePermission
  <2> QED BY <2>2 DEF Permission
<1>4. CASE UNCHANGED queues
  BY <1>1, <1>2, <1>3, <1>4 DEF Seen
<1>5. CASE queues' = [queues EXCEPT ![LaneOf(k)] = Append(@, k)]
  <2>1. ~Contains(queues[LaneOf(k)], k)
    BY <1>1 DEF StateInv, QueuesHoldTheQueued, Contains
  <2>2. Served[LaneOf(k)] # k
    <3>1. LaneOf(k) \in Lanes
      BY <1>0, LaneTypes
    <3>2. Served[LaneOf(k)] = ServedOn(LaneOf(k))
      BY <3>1 DEF Served
    <3>3. ServedOn(LaneOf(k)) = None \/ \E a \in Attempts : InProgress(a) /\ ServedOn(LaneOf(k)) = a
      BY ServedIs
    <3>4. None # k /\ ~InProgress(k)
      BY <1>1, NoneAssumption DEF InProgress
    <3> QED BY <3>2, <3>3, <3>4
  <2> QED BY <1>1, <1>2, <1>3, <1>5, <2>1, <2>2, SameLogs, SameLanes
          DEF Promise!Offer, Promise!audioVars, Served, Permission, Spoken, Reporting
<1> QED BY <1>4, <1>5 DEF JobReady

\* What Casa and the renewers say of an attempt grants its permission or lets it lapse.
LEMMA FlagsKeepPromise ==
  ASSUME StateInv, OneInProgress, OneInProgress', OneAnnouncementPerDevice,
         OneAnnouncementPerDevice', NEW k \in Attempts,
         JobAuthorized(k) \/ JobRevoke(k) \/ RenewFails(k)
  PROVE  Promise!Grant(k) \/ Promise!Lapse(k) \/ UNCHANGED Seen
<1>0. DeliveryTypeOK
  BY DEF StateInv
<1>1. UNCHANGED <<queues, announced, pc>>
  BY DEF JobAuthorized, JobRevoke, RenewFails, managerVars, memoryVars
<1>2. UNCHANGED <<Served, Spoken, Reporting>>
  BY <1>1, SilentStep DEF InProgress
<1>3. ASSUME NEW a \in Attempts, a # k PROVE PermissionOf(a)' = PermissionOf(a)
  BY <1>0, <1>1, <1>3, SamePermission
     DEF JobAuthorized, JobRevoke, RenewFails, flagVars, DeliveryTypeOK
<1>4. CASE JobAuthorized(k) /\ k \notin revoked \cup leaseLost
  <2>1. PermissionOf(k) = "asked" /\ PermissionOf(k)' = "granted"
    BY <1>0, <1>4 DEF JobAuthorized, flagVars, PermissionOf, DeliveryTypeOK
  <2>2. Permission[k] = "asked" /\ Permission' = [Permission EXCEPT ![k] = "granted"]
    BY <1>3, <2>1 DEF Permission
  <2>3. Promise!Grant(k)
    BY <1>1, <1>2, <2>2
       DEF Promise!Grant, Promise!orderVars, Promise!audioVars, Served, Permission, Spoken,
           Reporting
  <2> QED BY <2>3
<1>5. CASE JobRevoke(k) \/ RenewFails(k) \/ k \in revoked \cup leaseLost
  <2>1. PermissionOf(k)' = "none"
    BY <1>5 DEF JobAuthorized, JobRevoke, RenewFails, flagVars, PermissionOf
  <2>2. Permission' = [Permission EXCEPT ![k] = "none"]
    BY <1>3, <2>1 DEF Permission
  <2>3. Promise!Lapse(k)
    BY <1>1, <1>2, <2>2
       DEF Promise!Lapse, Promise!orderVars, Promise!audioVars, Served, Permission, Spoken,
           Reporting
  <2> QED BY <2>3
<1> QED BY <1>4, <1>5

\* A manager that has closed served nobody, and forgets who waited.
LEMMA CloseKeepsPromise ==
  ASSUME StateInv, OneInProgress, OneInProgress', OneAnnouncementPerDevice,
         OneAnnouncementPerDevice', NEW m \in Managers, CloseEnd(m)
  PROVE  Promise!Close(m)
<1>1. /\ \A k \in Attempts : ManagerOf[k] = m => ~InProgress(k)
      /\ \A k \in Attempts : pc'[k] = IF ManagerOf[k] = m THEN "none" ELSE pc[k]
      /\ queues' = [lane \in Lanes |-> IF lane[1] = m THEN <<>> ELSE queues[lane]]
      /\ revoked' = revoked \ {k \in Attempts : ManagerOf[k] = m}
      /\ UNCHANGED <<announced, leaseLost, authorization>>
  BY DEF CloseEnd
<1>2. UNCHANGED <<Served, Spoken, Reporting>>
  BY <1>1, SilentStep DEF InProgress
<1>3. ASSUME NEW k \in Attempts PROVE PermissionOf(k)' = PermissionOf(k)
  <2>1. CASE ManagerOf[k] = m
    <3>1. authorization[k] = "none" /\ pc[k] \in {"none", "queued"} /\ pc'[k] = "none"
      BY <1>1, <2>1 DEF StateInv, Clean, Asking, InProgress
    <3> QED BY <1>1, <3>1 DEF PermissionOf
  <2>2. CASE ManagerOf[k] # m
    BY <1>1, <2>2, SamePermission
  <2> QED BY <2>1, <2>2
<1>4. UNCHANGED Permission
  BY <1>3 DEF Permission
<1>5. ASSUME NEW d \in Devices PROVE Served[<<m, d>>] = None
  <2>1. \A k \in Attempts : ~(InProgress(k) /\ LaneOf(k) = <<m, d>>)
    BY <1>1 DEF LaneOf
  <2>2. ServedOn(<<m, d>>) = None
    BY <2>1, ServedIs
  <2> QED BY <2>2 DEF Served, Lanes
<1> QED BY <1>1, <1>2, <1>4, <1>5, SameLanes
        DEF Promise!Close, Promise!audioVars, Served, Permission, Spoken, Reporting

\* Every step does what Announcements allows.
LEMMA StepKeepsPromise ==
  ASSUME StateInv, StateInv', MemoryInv, ReclaimedWereHeard, AuthorizedWereGranted,
         OneAnnouncementPerDevice, OneAnnouncementPerDevice', [DeliveryNext]_vars
  PROVE  Promise!AnnouncementsNext \/ UNCHANGED Seen
<1>0. OneInProgress /\ OneInProgress'
  BY DEF StateInv, WorkersWork, OneInProgress, LaneOf
<1>1. ASSUME UNCHANGED <<queues, announced, pc, revoked, leaseLost, authorization>>
      PROVE  UNCHANGED Seen
  <2>1. UNCHANGED <<Served, Spoken, Reporting>>
    BY <1>0, <1>1, SilentStep DEF InProgress
  <2>2. UNCHANGED Permission
    BY <1>1 DEF Permission, PermissionOf
  <2> QED BY <1>1, <2>1, <2>2 DEF Seen
<1>2. ASSUME NEW k \in Attempts, CasaStep(k) \/ RenewFails(k)
      PROVE  Promise!AnnouncementsNext \/ UNCHANGED Seen
  BY <1>0, <1>2, OfferKeepsPromise, FlagsKeepPromise DEF CasaStep, Promise!AnnouncementsNext
<1>3. ASSUME NEW k \in Attempts, NackSent(k) PROVE UNCHANGED Seen
  BY <1>1, <1>3 DEF NackSent, memoryVars, flagVars, taskVars
<1>4. ASSUME NEW m \in Managers, CloseBegin(m) PROVE UNCHANGED Seen
  BY <1>1, <1>4 DEF CloseBegin, memoryVars, flagVars, taskVars
<1>5. ASSUME NEW m \in Managers, CloseEnd(m) PROVE Promise!AnnouncementsNext
  BY <1>0, <1>5, CloseKeepsPromise DEF Promise!AnnouncementsNext
<1>6. CASE SatelliteStep \/ ClockStep \/ UNCHANGED vars
  BY <1>1, <1>6 DEF SatelliteStep, ClockStep, vars, deliveryVars, managerVars, memoryVars,
                    flagVars, taskVars
<1> QED BY <1>0, <1>2, <1>3, <1>4, <1>5, <1>6, WorkerKeepsPromise DEF DeliveryNext

\* For any agents, devices, satellites and jobs the delivery managers implement
\* Announcements: the offers for an agent and device are served in their order and
\* one at a time; a result is spoken only with a permission that was asked for it in
\* its turn, was granted and has not lapsed, and after Casa was told; one at a time
\* on a device, and never a job heard lately; no job is reported that was not heard.
THEOREM DeliveryKeepsThePromise == DeliverySafety => KeepsThePromise
<1>1. DeliveryInit => /\ Promise!AnnouncementsInit
                      /\ MemoryInv /\ ReclaimedWereHeard /\ AuthorizedWereGranted
  <2> SUFFICES ASSUME DeliveryInit
               PROVE  /\ Promise!AnnouncementsInit
                      /\ ReclaimedWereHeard /\ AuthorizedWereGranted
    BY MemoryInit
  <2>1. /\ \A k \in Attempts : pc[k] = "none" /\ authorization[k] = "none"
        /\ queues = [lane \in Lanes |-> <<>>]
        /\ announced = [m \in Managers |-> <<>>]
    BY DEF DeliveryInit
  <2>2. \A k \in Attempts : PermissionOf(k) = "none"
    BY <2>1 DEF PermissionOf
  <2>3. \A lane \in Lanes : ServedOn(lane) = None
    BY <2>1 DEF ServedOn, InProgress
  <2>4. \A d \in Devices : SpokenOn(d) = None
    BY <2>1 DEF SpokenOn
  <2>5. Promise!AnnouncementsInit
    BY <2>1, <2>2, <2>3, <2>4, SameLanes DEF Promise!AnnouncementsInit
  <2> QED BY <2>1, <2>5 DEF ReclaimedWereHeard, AuthorizedWereGranted
<1>2. StateInv /\ StateInv' /\ MemoryInv /\ ReclaimedWereHeard /\ AuthorizedWereGranted
        /\ [DeliveryNext]_vars =>
        MemoryInv' /\ ReclaimedWereHeard' /\ AuthorizedWereGranted'
  BY MemoryStep, ReclaimedStep, AuthorizedStep
<1>3. StateInv /\ StateInv' /\ MemoryInv /\ ReclaimedWereHeard /\ AuthorizedWereGranted
        /\ OneAnnouncementPerDevice /\ OneAnnouncementPerDevice' /\ [DeliveryNext]_vars =>
        [Promise!AnnouncementsNext]_Promise!announcementVars
  BY StepKeepsPromise
     DEF Promise!announcementVars, Promise!orderVars, Promise!audioVars, Seen, Served,
         Permission, Spoken, Reporting
<1> QED BY <1>1, <1>2, <1>3, DeliveryStateInvariant, DeliverySpeaksOneAtATime, PTL
        DEF DeliverySafety, KeepsThePromise, Promise!AnnouncementsSpec

=============================================================================
