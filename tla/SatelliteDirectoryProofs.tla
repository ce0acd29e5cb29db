---------------------- MODULE SatelliteDirectoryProofs ----------------------
(* The maps of the directory agree, its events lose no wakeup and its idle   *)
(* stretches are unbroken, for any devices, satellites, overrides and clock. *)
EXTENDS DirectoryHistory, TLAPS

\* The invariant is inductive with the type of every variable.
DirectoryInv == DirectoryTypeOK /\ RegistryMapsAgree /\ DepartedDevicesLeaveNoEvent

\* The empty directory of a new entry satisfies the invariant.
LEMMA DirectoryInitInv == DirectoryInit => DirectoryInv
BY DirectoryConstants, NoneAssumption
   DEF DirectoryInit, DirectoryInv, DirectoryTypeOK, RegistryMapsAgree,
       DepartedDevicesLeaveNoEvent

\* Pulsing and replacing events keeps their types.
LEMMA NotifyTypes ==
  ASSUME DirectoryTypeOK, NEW ds \in SUBSET Devices, NEW retired, Notify(ds, retired)
  PROVE  /\ deviceEvents' \in SUBSET Devices
         /\ listeners' \in [Devices -> SUBSET Attempts]
         /\ pulsed' \in SUBSET Attempts
BY DEF DirectoryTypeOK, Notify

\* A device that is notified and not retired has a current event, without holders;
\* the events of the others are as before.
LEMMA NotifyEvents ==
  ASSUME DepartedDevicesLeaveNoEvent, NEW ds \in SUBSET Devices, NEW retired \in SUBSET ds,
         Notify(ds, retired)
  PROVE  \A d \in Devices :
           /\ d \in deviceEvents' =>
                d \notin retired /\ (d \in ds \/ (d \in deviceEvents /\ deviceEntities[d] # {}))
           /\ listeners'[d] # {} => d \in deviceEvents'
BY DEF DepartedDevicesLeaveNoEvent, Notify

\* The devices a rebinding notifies.
LEMMA PreviousDevices ==
  ASSUME DirectoryInv, NEW d \in Devices, NEW e \in Entities
  PROVE  /\ PreviousDevice(d, e) \in SUBSET Devices
         /\ \A x \in Devices : x \in PreviousDevice(d, e) <=> x # d /\ e \in deviceEntities[x]
BY DirectoryConstants, NoneAssumption
   DEF DirectoryInv, DirectoryTypeOK, RegistryMapsAgree, PreviousDevice

\* A state report, which may move the satellite, keeps the invariant.
LEMMA SetEntityStateInv ==
  ASSUME DirectoryInv, NEW d \in Devices, NEW e \in Entities,
         NEW state \in {"idle", "busy"}, NEW t \in ChangeInstants(e),
         SetEntityState(d, e, state, t)
  PROVE  DirectoryInv'
<1> DEFINE ds == {d} \cup PreviousDevice(d, e)
           retired == {x \in PreviousDevice(d, e) : deviceEntities[x] = {e}}
<1>1. /\ entityDevices' = [entityDevices EXCEPT ![e] = d]
      /\ deviceEntities' = [x \in Devices |->
           IF x = d THEN deviceEntities[x] \cup {e} ELSE deviceEntities[x] \ {e}]
      /\ Notify(ds, retired)
      /\ entityStates' = [entityStates EXCEPT ![e] = state]
      /\ entityIdleSince' = [entityIdleSince EXCEPT ![e] =
           IF state # "idle" THEN None
           ELSE IF entityStates[e] = "idle" THEN @ ELSE t]
      /\ now' = now
  BY DEF SetEntityState, Rebind
<1>2. /\ ds \in SUBSET Devices
      /\ retired \in SUBSET ds
      /\ \A x \in Devices : x \in PreviousDevice(d, e) <=> x # d /\ e \in deviceEntities[x]
  BY PreviousDevices
<1>3. t \in 0 .. MaxTime
  BY DirectoryConstants DEF DirectoryInv, DirectoryTypeOK, ChangeInstants
<1>4. DirectoryTypeOK'
  <2>1. /\ deviceEvents' \in SUBSET Devices
        /\ listeners' \in [Devices -> SUBSET Attempts]
        /\ pulsed' \in SUBSET Attempts
    BY <1>1, <1>2, NotifyTypes DEF DirectoryInv
  <2> QED BY <1>1, <1>3, <2>1 DEF DirectoryInv, DirectoryTypeOK
<1>5. RegistryMapsAgree'
  BY <1>1, <1>3, DirectoryConstants, NoneAssumption
     DEF DirectoryInv, DirectoryTypeOK, RegistryMapsAgree
<1>6. DepartedDevicesLeaveNoEvent'
  <2>1. \A x \in Devices :
          /\ x \in deviceEvents' =>
               x \notin retired /\ (x \in ds \/ (x \in deviceEvents /\ deviceEntities[x] # {}))
          /\ listeners'[x] # {} => x \in deviceEvents'
    BY <1>1, <1>2, NotifyEvents DEF DirectoryInv
  <2>2. ASSUME NEW x \in deviceEvents' PROVE deviceEntities'[x] # {}
    <3>1. x \in Devices
      BY <1>4 DEF DirectoryTypeOK
    <3>2. CASE x = d
      BY <1>1, <3>1, <3>2
    <3>3. CASE x # d /\ e \in deviceEntities[x]
      BY <1>1, <1>2, <2>1, <2>2, <3>1, <3>3
    <3>4. CASE x # d /\ e \notin deviceEntities[x]
      BY <1>1, <1>2, <2>1, <2>2, <3>1, <3>4
    <3> QED BY <3>2, <3>3, <3>4
  <2> QED BY <2>1, <2>2 DEF DepartedDevicesLeaveNoEvent
<1> QED BY <1>4, <1>5, <1>6 DEF DirectoryInv

\* The removal of a satellite keeps the invariant.
LEMMA RemoveSatelliteInv ==
  ASSUME DirectoryInv, NEW e \in Entities, RemoveSatellite(e)
  PROVE  DirectoryInv'
<1> DEFINE ds == {entityDevices[e]} \ {None}
           retired == {x \in ds : deviceEntities[x] = {e}}
<1>1. /\ entityDevices' = [entityDevices EXCEPT ![e] = None]
      /\ deviceEntities' = [x \in Devices |-> deviceEntities[x] \ {e}]
      /\ entityStates' = [entityStates EXCEPT ![e] = None]
      /\ entityIdleSince' = [entityIdleSince EXCEPT ![e] = None]
      /\ Notify(ds, retired)
      /\ now' = now
  BY DEF RemoveSatellite
<1>2. /\ ds \in SUBSET Devices
      /\ retired \in SUBSET ds
      /\ \A x \in Devices : x \in ds <=> e \in deviceEntities[x]
  BY NoneAssumption DEF DirectoryInv, DirectoryTypeOK, RegistryMapsAgree
<1>3. DirectoryTypeOK'
  <2>1. /\ deviceEvents' \in SUBSET Devices
        /\ listeners' \in [Devices -> SUBSET Attempts]
        /\ pulsed' \in SUBSET Attempts
    BY <1>1, <1>2, NotifyTypes DEF DirectoryInv
  <2> QED BY <1>1, <2>1 DEF DirectoryInv, DirectoryTypeOK
<1>4. RegistryMapsAgree'
  BY <1>1, DirectoryConstants, NoneAssumption
     DEF DirectoryInv, DirectoryTypeOK, RegistryMapsAgree
<1>5. DepartedDevicesLeaveNoEvent'
  <2>1. \A x \in Devices :
          /\ x \in deviceEvents' =>
               x \notin retired /\ (x \in ds \/ (x \in deviceEvents /\ deviceEntities[x] # {}))
          /\ listeners'[x] # {} => x \in deviceEvents'
    BY <1>1, <1>2, NotifyEvents DEF DirectoryInv
  <2>2. ASSUME NEW x \in deviceEvents' PROVE deviceEntities'[x] # {}
    <3>1. x \in Devices
      BY <1>3 DEF DirectoryTypeOK
    <3>2. CASE x \in ds
      BY <1>1, <1>2, <2>1, <2>2, <3>1, <3>2
    <3>3. CASE x \notin ds
      BY <1>1, <1>2, <2>1, <2>2, <3>1, <3>3
    <3> QED BY <3>2, <3>3
  <2> QED BY <2>1, <2>2 DEF DepartedDevicesLeaveNoEvent
<1> QED BY <1>3, <1>4, <1>5 DEF DirectoryInv

\* Listeners that come, go and discard events keep the invariant.
LEMMA HolderStepInv ==
  ASSUME DirectoryInv, HolderStep
  PROVE  DirectoryInv'
<1>1. UNCHANGED <<now, deviceEntities, entityDevices, entityStates, entityIdleSince>>
  BY DEF HolderStep, registryVars
<1>2. RegistryMapsAgree'
  BY <1>1 DEF DirectoryInv, RegistryMapsAgree
<1>3. ASSUME NEW k \in Attempts, NEW d \in Devices, Resolve(d) # None, Listen(k, d)
      PROVE  DirectoryTypeOK' /\ DepartedDevicesLeaveNoEvent'
  <2>1. deviceEntities[d] # {}
    BY <1>3 DEF Resolve
  <2> QED BY <1>1, <1>3, <2>1
          DEF DirectoryInv, DirectoryTypeOK, DepartedDevicesLeaveNoEvent, Listen
<1>4. ASSUME NEW k \in pulsed, StopListening(k)
      PROVE  DirectoryTypeOK' /\ DepartedDevicesLeaveNoEvent'
  BY <1>1, <1>4
     DEF DirectoryInv, DirectoryTypeOK, DepartedDevicesLeaveNoEvent, StopListening
<1>5. ASSUME NEW d \in Devices, DiscardEvent(d)
      PROVE  DirectoryTypeOK' /\ DepartedDevicesLeaveNoEvent'
  BY <1>1, <1>5
     DEF DirectoryInv, DirectoryTypeOK, DepartedDevicesLeaveNoEvent, DiscardEvent
<1> QED BY <1>2, <1>3, <1>4, <1>5 DEF HolderStep, DirectoryInv

\* Every step of the directory keeps the invariant.
LEMMA DirectoryNextInv ==
  ASSUME DirectoryInv, [DirectoryNext]_<<now, directoryVars>>
  PROVE  DirectoryInv'
<1>1. CASE DirectoryChange
  BY <1>1, RemoveSatelliteInv, SetEntityStateInv DEF DirectoryChange
<1>2. CASE HolderStep
  BY <1>2, HolderStepInv
<1>3. CASE Tick
  <2>1. now + 1 \in 0 .. MaxTime
    BY <1>3, DirectoryConstants DEF Tick, DirectoryInv, DirectoryTypeOK
  <2> QED BY <1>3, <2>1
          DEF Tick, directoryVars, registryVars, eventVars, DirectoryInv, DirectoryTypeOK,
              RegistryMapsAgree, DepartedDevicesLeaveNoEvent
<1>4. CASE UNCHANGED <<now, directoryVars>>
  BY <1>4 DEF directoryVars, registryVars, eventVars, DirectoryInv, DirectoryTypeOK,
              RegistryMapsAgree, DepartedDevicesLeaveNoEvent
<1> QED BY <1>1, <1>2, <1>3, <1>4 DEF DirectoryNext

\* DirectoryInv holds in every reachable state of the directory.
THEOREM DirectoryInvariant == DirectorySpec => []DirectoryInv
BY DirectoryInitInv, DirectoryNextInv, PTL DEF DirectorySpec

\* For any satellites, moved and removed in any order, the four maps of the
\* directory agree.
THEOREM DirectoryMapsAgree == DirectorySpec => []RegistryMapsAgree
<1>1. DirectoryInv => RegistryMapsAgree
  BY DEF DirectoryInv
<1> QED BY <1>1, DirectoryInvariant, PTL

\* For any devices, one that lost its last satellite leaves no event behind.
THEOREM DirectoryLeavesNoEvent == DirectorySpec => []DepartedDevicesLeaveNoEvent
<1>1. DirectoryInv => DepartedDevicesLeaveNoEvent
  BY DEF DirectoryInv
<1> QED BY <1>1, DirectoryInvariant, PTL

-----------------------------------------------------------------------------

\* What a delivery reads of d changed in this step.
ViewChanged(d) ==
  LET e == Resolve(d) IN
    \/ Resolve(d)' # e
    \/ e # None /\ entityStates'[e] # entityStates[e]
    \/ e # None /\ entityIdleSince'[e] # entityIdleSince[e]

\* A satellite that resolve() returns without an override is listed for the device.
LEMMA ResolvedIsListed ==
  ASSUME NEW d \in Devices, Resolve(d) # None
  PROVE  Resolve(d) \in deviceEntities[d]
BY DEF Resolve

\* A report about e changes what is read of a device only if e was or is listed there.
LEMMA ChangeConcernsListed ==
  ASSUME NEW d \in Devices, NEW e \in Entities,
         DirectoryTypeOK,
         deviceEntities'[d] = deviceEntities[d],
         e \notin deviceEntities[d],
         \A x \in Entities \ {e} : /\ entityStates'[x] = entityStates[x]
                                 /\ entityIdleSince'[x] = entityIdleSince[x]
  PROVE  ~ViewChanged(d)
<1>1. Resolve(d)' = Resolve(d)
  BY DEF Resolve
<1>2. Resolve(d) # None => Resolve(d) \in Entities \ {e}
  BY ResolvedIsListed DEF DirectoryTypeOK
<1> QED BY <1>1, <1>2 DEF ViewChanged

\* A state report or a removal that changes what was read of a device sets the
\* event a listener of that device holds.
LEMMA ChangeIsHeard ==
  ASSUME DirectoryInv, [DirectoryNext]_<<now, directoryVars>>, NEW x \in Devices,
         ViewChanged(x)
  PROVE  listeners[x] \subseteq pulsed'
<1>1. ASSUME NEW e \in Entities, RemoveSatellite(e)
      PROVE  listeners[x] \subseteq pulsed'
  <2>1. CASE e \in deviceEntities[x]
    <3>1. entityDevices[e] = x /\ x # None
      BY <2>1, NoneAssumption DEF DirectoryInv, RegistryMapsAgree
    <3> QED BY <1>1, <3>1 DEF RemoveSatellite, Notify
  <2>2. CASE e \notin deviceEntities[x]
    <3>1. /\ deviceEntities'[x] = deviceEntities[x]
          /\ \A y \in Entities \ {e} : /\ entityStates'[y] = entityStates[y]
                                      /\ entityIdleSince'[y] = entityIdleSince[y]
      BY <1>1, <2>2 DEF RemoveSatellite, DirectoryInv, DirectoryTypeOK
    <3> QED BY <2>2, <3>1, ChangeConcernsListed DEF DirectoryInv
  <2> QED BY <2>1, <2>2
<1>2. ASSUME NEW e \in Entities, NEW d \in Devices, NEW state, NEW t,
             SetEntityState(d, e, state, t)
      PROVE  listeners[x] \subseteq pulsed'
  <2>1. CASE x = d \/ e \in deviceEntities[x]
    <3>1. x \in {d} \cup PreviousDevice(d, e)
      BY <2>1, PreviousDevices
    <3> QED BY <1>2, <3>1 DEF SetEntityState, Rebind, Notify
  <2>2. CASE x # d /\ e \notin deviceEntities[x]
    <3>1. /\ deviceEntities'[x] = deviceEntities[x]
          /\ \A y \in Entities \ {e} : /\ entityStates'[y] = entityStates[y]
                                      /\ entityIdleSince'[y] = entityIdleSince[y]
      BY <1>2, <2>2 DEF SetEntityState, Rebind, DirectoryInv, DirectoryTypeOK
    <3> QED BY <2>2, <3>1, ChangeConcernsListed DEF DirectoryInv
  <2> QED BY <2>1, <2>2
<1>3. CASE UNCHANGED registryVars
  BY <1>3 DEF registryVars, ViewChanged, Resolve
<1> QED BY <1>1, <1>2, <1>3
        DEF DirectoryNext, DirectoryChange, HolderStep, Tick, directoryVars

\* No lost wakeup, for any devices and satellites: a change of what a delivery read
\* sets the event it holds.
THEOREM DirectoryWakesListeners == DirectorySpec => ChangesWakeListeners
<1>1. DirectoryInv /\ [DirectoryNext]_<<now, directoryVars>> =>
        [\A d \in Devices : ViewChanged(d) => listeners[d] \subseteq pulsed']_<<now, directoryVars>>
  BY ChangeIsHeard
<1> QED BY <1>1, DirectoryInvariant, PTL DEF DirectorySpec, ChangesWakeListeners, ViewChanged

-----------------------------------------------------------------------------

\* The last busy report of a satellite is not in the future, and a satellite
\* that the directory forgot has none: its next idle stretch may begin any time.
BusyReportsArePast ==
  /\ busyAt \in [Entities -> 0 .. MaxTime \cup {None}]
  /\ \A e \in Entities :
       /\ busyAt[e] # None => busyAt[e] <= now
       /\ entityStates[e] = None => busyAt[e] = None

\* The inductive invariant of the directory with its history.
HistoryInv == DirectoryInv /\ BusyReportsArePast /\ IdleStretchIsUnbroken

\* What a step may do to a satellite: nothing, forget it, report it busy, or
\* report it idle, which begins an idle stretch now or, if the directory did not
\* know the satellite, at any time before.
LEMMA OneSatelliteStep ==
  ASSUME DirectoryInv, [DirectoryNext]_<<now, directoryVars>>, NEW e \in Entities
  PROVE  \/ entityStates'[e] = entityStates[e] /\ entityIdleSince'[e] = entityIdleSince[e]
         \/ entityStates'[e] \in {None, "busy"}
         \/ entityStates[e] = None
         \/ entityIdleSince'[e] = now
<1> DEFINE Fits ==
      \/ entityStates'[e] = entityStates[e] /\ entityIdleSince'[e] = entityIdleSince[e]
      \/ entityStates'[e] \in {None, "busy"}
      \/ entityStates[e] = None
      \/ entityIdleSince'[e] = now
<1>1. ASSUME NEW x \in Entities, RemoveSatellite(x) PROVE Fits
  BY <1>1 DEF RemoveSatellite, DirectoryInv, DirectoryTypeOK
<1>2. ASSUME NEW x \in Entities, NEW d \in Devices, NEW state \in {"idle", "busy"},
             NEW t \in ChangeInstants(x), SetEntityState(d, x, state, t)
      PROVE  Fits
  BY <1>2 DEF SetEntityState, ChangeInstants, DirectoryInv, DirectoryTypeOK
<1>3. CASE UNCHANGED registryVars
  BY <1>3 DEF registryVars
<1> QED BY <1>1, <1>2, <1>3
        DEF DirectoryNext, DirectoryChange, HolderStep, Tick, directoryVars

\* The clock never goes back.
LEMMA ClockGoesOn ==
  ASSUME DirectoryInv, [DirectoryNext]_<<now, directoryVars>>
  PROVE  now' >= now
<1>1. now \in Nat
  BY DirectoryConstants DEF DirectoryInv, DirectoryTypeOK
<1>2. CASE Tick
  BY <1>1, <1>2 DEF Tick
<1>3. CASE UNCHANGED now
  BY <1>1, <1>3
<1> QED BY <1>2, <1>3 DEF DirectoryNext, DirectoryChange, RemoveSatellite, SetEntityState,
                          HolderStep

\* Every step keeps the invariant of the directory with its history.
LEMMA HistoryNextInv ==
  ASSUME HistoryInv, [HistoryNext]_historyVars
  PROVE  HistoryInv'
<1>1. CASE HistoryNext
  <2>1. [DirectoryNext]_<<now, directoryVars>> /\ RecordBusy
    BY <1>1 DEF HistoryNext
  <2>2. DirectoryInv'
    BY <2>1, DirectoryNextInv DEF HistoryInv
  <2>3. now' >= now /\ now \in 0 .. MaxTime /\ now' \in 0 .. MaxTime /\ MaxTime \in Nat
    BY <2>1, <2>2, ClockGoesOn, DirectoryConstants DEF HistoryInv, DirectoryInv, DirectoryTypeOK
  <2>4. \A e \in Entities :
          /\ entityStates[e] \in {"idle", "busy", None}
          /\ entityStates'[e] \in {"idle", "busy", None}
          /\ entityStates'[e] = None => busyAt'[e] = None
          /\ entityStates'[e] = "busy" => busyAt'[e] = now'
          /\ entityStates'[e] = "idle" => busyAt'[e] = busyAt[e]
    BY <2>1, <2>2, DirectoryConstants
       DEF RecordBusy, HistoryInv, DirectoryInv, DirectoryTypeOK
  <2>5. BusyReportsArePast'
    <3>1. busyAt' \in [Entities -> 0 .. MaxTime \cup {None}]
      BY <2>1, <2>3 DEF RecordBusy, HistoryInv, BusyReportsArePast
    <3>2. ASSUME NEW e \in Entities
          PROVE  /\ busyAt'[e] # None => busyAt'[e] <= now'
                 /\ entityStates'[e] = None => busyAt'[e] = None
      BY <2>3, <2>4, DirectoryConstants DEF HistoryInv, BusyReportsArePast
    <3> QED BY <3>1, <3>2 DEF BusyReportsArePast
  <2>6. ASSUME NEW e \in Entities, entityStates'[e] = "idle", busyAt'[e] # None
        PROVE  entityIdleSince'[e] >= busyAt'[e]
    <3>1. busyAt'[e] = busyAt[e] /\ busyAt[e] <= now /\ entityStates[e] # None
      BY <2>4, <2>6 DEF HistoryInv, BusyReportsArePast
    <3>2. \/ entityStates[e] = "idle" /\ entityIdleSince'[e] = entityIdleSince[e]
          \/ entityIdleSince'[e] = now
      BY <2>1, <2>6, <3>1, OneSatelliteStep, DirectoryConstants DEF HistoryInv
    <3>3. CASE entityStates[e] = "idle" /\ entityIdleSince'[e] = entityIdleSince[e]
      BY <2>6, <3>1, <3>3 DEF HistoryInv, IdleStretchIsUnbroken
    <3>4. CASE entityIdleSince'[e] = now
      <4>1. busyAt[e] \in Nat /\ now \in Nat
        BY <2>3, <2>6, <3>1 DEF HistoryInv, BusyReportsArePast
      <4> QED BY <3>1, <3>4, <4>1
    <3> QED BY <3>2, <3>3, <3>4
  <2> QED BY <2>2, <2>5, <2>6 DEF HistoryInv, IdleStretchIsUnbroken
<1>2. CASE UNCHANGED historyVars
  <2>1. DirectoryInv' /\ busyAt' = busyAt /\ now' = now
        /\ entityStates' = entityStates /\ entityIdleSince' = entityIdleSince
    BY <1>2, DirectoryNextInv DEF HistoryInv, historyVars, directoryVars, registryVars
  <2> QED BY <2>1 DEF HistoryInv, BusyReportsArePast, IdleStretchIsUnbroken
<1> QED BY <1>1, <1>2

\* For any satellites and reports, the idle stretch that a delivery measures never
\* reaches back before the last instant at which the satellite was busy.
THEOREM IdleStretchesAreUnbroken == HistorySpec => []IdleStretchIsUnbroken
<1>1. HistoryInit => HistoryInv
  BY DirectoryInitInv, DirectoryConstants
     DEF HistoryInit, DirectoryInit, HistoryInv, BusyReportsArePast, IdleStretchIsUnbroken
<1>2. HistoryInv => IdleStretchIsUnbroken
  BY DEF HistoryInv
<1> QED BY <1>1, <1>2, HistoryNextInv, PTL DEF HistorySpec

=============================================================================
