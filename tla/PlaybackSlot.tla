---------------------------- MODULE PlaybackSlot ----------------------------
(***************************************************************************)
(* SatelliteDirectory.playback_slot (delivery.py): the per-device lock     *)
(* that serializes announcements across the delivery managers of all       *)
(* agents.  The directory keeps a map from devices to slot objects; a slot *)
(* is created by the first delivery that asks for it, counts its users,    *)
(* and is dropped from the map by the last user that leaves.  A user waits *)
(* for the slot's asyncio.Lock, which serves its waiters in FIFO order.    *)
(*                                                                         *)
(* A slot object is named by the delivery that created it.  The user       *)
(* count is represented by the set of users it counts.                     *)
(***************************************************************************)
EXTENDS Casa

CONSTANT DeviceOf   \* origin_device_id of each attempt

ASSUME SlotConstants == DeviceOf \in [Attempts -> Devices]

VARIABLES
  playbackSlots,   \* _playback_slots: the current slot of each device
  slotUsers,       \* slot.users: the deliveries inside playback_slot
  slotOwner,       \* slot.lock: the delivery that holds the lock
  slotLine         \* slot.lock: the waiters in order of arrival

slotVars == <<playbackSlots, slotUsers, slotOwner, slotLine>>

-----------------------------------------------------------------------------

SlotInit ==
  /\ playbackSlots = [d \in Devices |-> None]
  /\ slotUsers = [s \in Attempts |-> {}]
  /\ slotOwner = [s \in Attempts |-> None]
  /\ slotLine = [s \in Attempts |-> <<>>]

\* k is between the entry of playback_slot and its finally block.
UsesSlot(k) == \E s \in Attempts : k \in slotUsers[s]

\* The slot object k took a reference to.
SlotOf(k) == CHOOSE s \in Attempts : k \in slotUsers[s]

\* k is inside `async with slot.lock`.
HoldsSlot(k) == \E s \in Attempts : slotOwner[s] = k

\* The slot that k finds in the map, or creates.
SlotFor(k) ==
  IF playbackSlots[DeviceOf[k]] = None THEN k ELSE playbackSlots[DeviceOf[k]]

\* Lock.acquire does not suspend: unlocked, and nobody is waiting.
LockFree(s) == slotOwner[s] = None /\ slotLine[s] = <<>>

\* Defect: the slot is kept under the delivery instead of its device, so that
\* every delivery has one of its own.
KeysSlotByDelivery(k) ==
  /\ ~UsesSlot(k)
  /\ playbackSlots' = [x \in Devices \cup {k} |-> IF x = k THEN k ELSE playbackSlots[x]]
  /\ slotUsers' = [slotUsers EXCEPT ![k] = {k}]
  /\ slotOwner' = [slotOwner EXCEPT ![k] = k]
  /\ UNCHANGED slotLine

\* Entry of playback_slot: find or create the slot, count one more user,
\* then take the lock or join its line.
RequestSlot(k) ==
  LET s == SlotFor(k) IN
  /\ ~UsesSlot(k)
  /\ playbackSlots' = [playbackSlots EXCEPT ![DeviceOf[k]] = s]
  /\ slotUsers' = [slotUsers EXCEPT ![s] = @ \cup {k}]
  /\ \/ /\ LockFree(s)
        /\ slotOwner' = [slotOwner EXCEPT ![s] = k]
        /\ UNCHANGED slotLine
     \/ /\ ~LockFree(s)
        /\ slotLine' = [slotLine EXCEPT ![s] = Append(@, k)]
        /\ UNCHANGED slotOwner

\* A released lock wakes the first waiter, which takes it when it runs.
GrantSlot(k) ==
  \E s \in Attempts :
    /\ slotOwner[s] = None
    /\ slotLine[s] # <<>>
    /\ Head(slotLine[s]) = k
    /\ slotOwner' = [slotOwner EXCEPT ![s] = k]
    /\ slotLine' = [slotLine EXCEPT ![s] = Tail(@)]
    /\ UNCHANGED <<playbackSlots, slotUsers>>

\* Defect: a cancelled waiter never leaves the line of the lock.
StaysInLine(s, k) ==
  /\ slotOwner' = IF slotOwner[s] = k THEN [slotOwner EXCEPT ![s] = None] ELSE slotOwner
  /\ UNCHANGED slotLine

\* The lock lets go of k: its owner releases it, a cancelled waiter leaves the line.
LeaveLock(s, k) ==
  \/ /\ slotOwner[s] = k
     /\ slotOwner' = [slotOwner EXCEPT ![s] = None]
     /\ UNCHANGED slotLine
  \/ /\ slotOwner[s] # k
     /\ \E i \in 1 .. Len(slotLine[s]) :
          /\ slotLine[s][i] = k
          /\ slotLine' = [slotLine EXCEPT ![s] = RemoveAt(@, i)]
     /\ UNCHANGED slotOwner

\* Defect: the slot is dropped whenever the lock is released, not by the last user.
DropsSlotTooEarly(s, k) ==
  IF playbackSlots[DeviceOf[k]] = s
  THEN playbackSlots' = [playbackSlots EXCEPT ![DeviceOf[k]] = None]
  ELSE UNCHANGED playbackSlots

\* Defect: the slot is never dropped.
KeepsSlot(s, k) == UNCHANGED playbackSlots

\* The last user that leaves removes the slot from the map.
RetireSlot(s, k) ==
  IF slotUsers[s] = {k} /\ playbackSlots[DeviceOf[k]] = s
  THEN playbackSlots' = [playbackSlots EXCEPT ![DeviceOf[k]] = None]
  ELSE UNCHANGED playbackSlots

\* Exit of playback_slot, normal, by exception or by cancellation.
ReleaseSlot(k) ==
  LET s == SlotOf(k) IN
  /\ UsesSlot(k)
  /\ slotUsers' = [slotUsers EXCEPT ![s] = @ \ {k}]
  /\ LeaveLock(s, k)
  /\ RetireSlot(s, k)

SlotNext ==
  \E k \in Attempts : RequestSlot(k) \/ GrantSlot(k) \/ ReleaseSlot(k)

SlotSafety == SlotInit /\ [][SlotNext]_slotVars

\* The lock's waiters are woken, and a delivery inside the lock leaves it.
SlotSpec ==
  /\ SlotSafety
  /\ \A k \in Attempts :
       /\ WF_slotVars(GrantSlot(k))
       /\ WF_slotVars(HoldsSlot(k) /\ ReleaseSlot(k))

-----------------------------------------------------------------------------

SlotTypeOK ==
  /\ playbackSlots \in [Devices -> Attempts \cup {None}]
  /\ slotUsers \in [Attempts -> SUBSET Attempts]
  /\ slotOwner \in [Attempts -> Attempts \cup {None}]
  /\ slotLine \in [Attempts -> Seq(Attempts)]

\* Two deliveries for one device never hold a playback lock together, whatever
\* slot objects came and went in between ("Serialize one device's playback
\* across every agent manager").
OneHolderPerDevice ==
  \A a, b \in Attempts :
    HoldsSlot(a) /\ HoldsSlot(b) /\ DeviceOf[a] = DeviceOf[b] => a = b

\* The map keeps exactly the slots in use: an idle device leaves no slot behind,
\* and no delivery is inside a slot that newcomers cannot find.
SlotsInUseAreMapped ==
  \A s \in Attempts :
    slotUsers[s] # {} <=> playbackSlots[DeviceOf[s]] = s

\* A delivery that asked for the slot gets the lock, or was cancelled meanwhile.
EveryRequestServed ==
  \A k \in Attempts : UsesSlot(k) ~> (HoldsSlot(k) \/ ~UsesSlot(k))

=============================================================================
