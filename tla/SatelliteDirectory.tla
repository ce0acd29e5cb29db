------------------------- MODULE SatelliteDirectory -------------------------
(***************************************************************************)
(* SatelliteDirectory (delivery.py): the in-memory mapping from Home       *)
(* Assistant devices to Assist satellite entities, the state of each       *)
(* satellite, and the one-shot change events that wake the deliveries      *)
(* waiting for a device.  The playback slots, which the same class keeps,  *)
(* are module PlaybackSlot.                                                *)
(*                                                                         *)
(* An asyncio.Event is used once: _notify takes it out of the map, sets it *)
(* and puts a fresh one in its place.  A holder of an event therefore is   *)
(* either a listener of its device's current event, or was pulsed, or      *)
(* holds an event that was discarded and that nobody will ever set.        *)
(***************************************************************************)
EXTENDS Casa

CONSTANTS
  Entities,   \* the Assist satellite entities
  Override,   \* the satellite the user fixed for a device, or None
  MaxTime     \* bound: the last instant of the clock

ASSUME DirectoryConstants ==
  /\ Override \in [Devices -> Entities \cup {None}]
  /\ MaxTime \in Nat
  /\ None \notin Entities \cup Nat \cup {"idle", "busy"}

VARIABLES
  now,              \* the manager's clock
  deviceEntities,   \* _device_entities: the satellites of each device
  entityDevices,    \* _entity_devices: the device of each satellite
  entityStates,     \* _entity_states: "idle", "busy", or None if unknown
  entityIdleSince,  \* _entity_idle_since: the instant, or None
  deviceEvents,     \* _device_events: the devices that have a current event
  listeners,        \* the holders of each device's current event
  pulsed            \* the holders whose event was set

registryVars == <<deviceEntities, entityDevices, entityStates, entityIdleSince>>
eventVars == <<deviceEvents, listeners, pulsed>>
directoryVars == <<registryVars, eventVars>>

-----------------------------------------------------------------------------

DirectoryInit ==
  /\ now = 0
  /\ deviceEntities = [d \in Devices |-> {}]
  /\ entityDevices = [e \in Entities |-> None]
  /\ entityStates = [e \in Entities |-> None]
  /\ entityIdleSince = [e \in Entities |-> None]
  /\ deviceEvents = {}
  /\ listeners = [d \in Devices |-> {}]
  /\ pulsed = {}

\* The satellite of d, or None where resolve raises NotFound or Ambiguous.
Resolve(d) ==
  IF Override[d] # None
  THEN IF Override[d] \in deviceEntities[d] THEN Override[d] ELSE None
  ELSE IF \E e \in Entities : deviceEntities[d] = {e}
       THEN CHOOSE e \in Entities : deviceEntities[d] = {e}
       ELSE None

\* change_event: k takes the current event of d, which is made if need be.
Listen(k, d) ==
  /\ deviceEvents' = deviceEvents \cup {d}
  /\ listeners' = [listeners EXCEPT ![d] = @ \cup {k}]
  /\ UNCHANGED pulsed

\* change_event followed by discard_change_event: the current event of d is
\* dropped without being set, and whoever else holds it will not be woken.
DiscardEvent(d) ==
  /\ deviceEvents' = deviceEvents \ {d}
  /\ listeners' = [listeners EXCEPT ![d] = {}]
  /\ UNCHANGED pulsed

\* k lets go of its event.
StopListening(k) ==
  /\ listeners' = [d \in Devices |-> listeners[d] \ {k}]
  /\ pulsed' = pulsed \ {k}
  /\ UNCHANGED deviceEvents

\* Defect: a departed device is given a fresh event, too.
NeverRetires(ds, retired) ==
  /\ deviceEvents' = deviceEvents \cup ds
  /\ listeners' = [d \in Devices |-> IF d \in ds THEN {} ELSE listeners[d]]
  /\ pulsed' = pulsed \cup UNION {listeners[d] : d \in ds}

\* _notify for each device of ds: the holders are woken; every device gets a
\* fresh event but those of retired.
Notify(ds, retired) ==
  /\ deviceEvents' = (deviceEvents \cup ds) \ retired
  /\ listeners' = [d \in Devices |-> IF d \in ds THEN {} ELSE listeners[d]]
  /\ pulsed' = pulsed \cup UNION {listeners[d] : d \in ds}

\* The devices other than d that e is bound to: none or one.
PreviousDevice(d, e) == {entityDevices[e]} \ {d, None}

\* Defect: a moved satellite stays listed under its previous device.
KeepsOldBinding(d, e) ==
  /\ entityDevices' = [entityDevices EXCEPT ![e] = d]
  /\ deviceEntities' = [deviceEntities EXCEPT ![d] = @ \cup {e}]
  /\ Notify({d} \cup PreviousDevice(d, e), {})

\* Defect: the device a satellite is taken from is not told.
NotifiesOnlyNewDevice(d, e) ==
  /\ entityDevices' = [entityDevices EXCEPT ![e] = d]
  /\ deviceEntities' = [x \in Devices |->
       IF x = d THEN deviceEntities[x] \cup {e} ELSE deviceEntities[x] \ {e}]
  /\ Notify({d}, {x \in PreviousDevice(d, e) : deviceEntities[x] = {e}})

\* Binding e to d takes it away from its previous device.
Rebind(d, e) ==
  /\ entityDevices' = [entityDevices EXCEPT ![e] = d]
  /\ deviceEntities' = [x \in Devices |->
       IF x = d THEN deviceEntities[x] \cup {e} ELSE deviceEntities[x] \ {e}]
  /\ Notify({d} \cup PreviousDevice(d, e),
            {x \in PreviousDevice(d, e) : deviceEntities[x] = {e}})

\* remove: the entity and all its data go; the device hears of it.
RemoveSatellite(e) ==
  LET d == {entityDevices[e]} \ {None} IN
  /\ entityDevices' = [entityDevices EXCEPT ![e] = None]
  /\ deviceEntities' = [x \in Devices |-> deviceEntities[x] \ {e}]
  /\ entityStates' = [entityStates EXCEPT ![e] = None]
  /\ entityIdleSince' = [entityIdleSince EXCEPT ![e] = None]
  /\ Notify(d, {x \in d : deviceEntities[x] = {e}})
  /\ UNCHANGED now

\* Defect: a busy spell does not end the idle stretch.
IdleSurvivesBusy(d, e, state, changedAt) ==
  /\ Rebind(d, e)
  /\ entityStates' = [entityStates EXCEPT ![e] = state]
  /\ entityIdleSince' = [entityIdleSince EXCEPT ![e] =
       IF state = "idle" /\ @ = None THEN changedAt ELSE @]
  /\ UNCHANGED now

\* set_entity_state: add, then the state.  An idle stretch begins at the
\* instant the state changed, and only when the satellite was not idle.
SetEntityState(d, e, state, changedAt) ==
  /\ Rebind(d, e)
  /\ entityStates' = [entityStates EXCEPT ![e] = state]
  /\ entityIdleSince' = [entityIdleSince EXCEPT ![e] =
       IF state # "idle" THEN None
       ELSE IF entityStates[e] = "idle" THEN @ ELSE changedAt]
  /\ UNCHANGED now

\* Home Assistant reports a change as it happens; of a state that is new to
\* the directory it may report any earlier instant.
ChangeInstants(e) == IF entityStates[e] = None THEN 0 .. now ELSE {now}

\* What the state and registry listeners of the integration feed in.
DirectoryChange ==
  \E e \in Entities :
    \/ RemoveSatellite(e)
    \/ \E d \in Devices, state \in {"idle", "busy"}, t \in ChangeInstants(e) :
         SetEntityState(d, e, state, t)

Tick ==
  /\ now < MaxTime
  /\ now' = now + 1
  /\ UNCHANGED directoryVars

\* A delivery takes the event of a device that has a satellite, is woken by
\* it, or discards one that nobody waits for.
HolderStep ==
  /\ \/ \E k \in Attempts, d \in Devices :
          /\ k \notin pulsed
          /\ \A x \in Devices : k \notin listeners[x]
          /\ Resolve(d) # None
          /\ Listen(k, d)
     \/ \E k \in pulsed : StopListening(k)
     \/ \E d \in Devices : listeners[d] = {} /\ DiscardEvent(d)
  /\ UNCHANGED <<now, registryVars>>

DirectoryNext == DirectoryChange \/ HolderStep \/ Tick

DirectorySpec == DirectoryInit /\ [][DirectoryNext]_<<now, directoryVars>>

-----------------------------------------------------------------------------

DirectoryTypeOK ==
  /\ now \in 0 .. MaxTime
  /\ deviceEntities \in [Devices -> SUBSET Entities]
  /\ entityDevices \in [Entities -> Devices \cup {None}]
  /\ entityStates \in [Entities -> {"idle", "busy", None}]
  /\ entityIdleSince \in [Entities -> 0 .. MaxTime \cup {None}]
  /\ deviceEvents \in SUBSET Devices
  /\ listeners \in [Devices -> SUBSET Attempts]
  /\ pulsed \in SUBSET Attempts

\* The four maps of the directory never disagree: a satellite is listed under
\* exactly the device it is bound to, whatever was rebound or removed before,
\* its state is known exactly while it is bound, and the start of an idle
\* stretch exactly while it is idle.
RegistryMapsAgree ==
  /\ \A d \in Devices : deviceEntities[d] = {e \in Entities : entityDevices[e] = d}
  /\ \A e \in Entities :
       /\ entityStates[e] # None <=> entityDevices[e] # None
       /\ entityStates[e] = "idle" <=> entityIdleSince[e] # None

\* A device that lost its last satellite leaves no event behind ("retire"), and
\* whoever waits for a current event is in the map that _notify looks at.
DepartedDevicesLeaveNoEvent ==
  /\ \A d \in deviceEvents : deviceEntities[d] # {}
  /\ \A d \in Devices : listeners[d] # {} => d \in deviceEvents

\* No lost wakeup: whatever a delivery read from the directory when it took the
\* event of d (the satellite of d, its state, its idle start), a step that
\* changes it sets the event, also when the satellite moves to another device.
ChangesWakeListeners ==
  [][\A d \in Devices :
       LET e == Resolve(d) IN
         \/ Resolve(d)' # e
         \/ e # None /\ entityStates'[e] # entityStates[e]
         \/ e # None /\ entityIdleSince'[e] # entityIdleSince[e]
       => listeners[d] \subseteq pulsed']_<<now, directoryVars>>

=============================================================================
