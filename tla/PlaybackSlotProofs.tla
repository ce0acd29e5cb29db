------------------------- MODULE PlaybackSlotProofs -------------------------
(* Safety of the playback slots, for any deliveries and devices.           *)
EXTENDS PlaybackSlot, SequenceTheorems, TLAPS

\* The inductive invariant.  A slot that anyone uses is the one the map holds
\* for its device, so a newcomer finds it; the map holds only slots in use; the
\* lock belongs to, and is awaited by, users of the slot.
UsersShareTheMappedSlot ==
  \A s \in Attempts : \A k \in slotUsers[s] :
    DeviceOf[k] = DeviceOf[s] /\ playbackSlots[DeviceOf[s]] = s

MappedSlotsAreUsed ==
  \A d \in Devices : playbackSlots[d] # None =>
    DeviceOf[playbackSlots[d]] = d /\ slotUsers[playbackSlots[d]] # {}

OwnersAreUsers ==
  \A s \in Attempts : slotOwner[s] # None => slotOwner[s] \in slotUsers[s]

\* The waiters of a line: users that do not hold the lock, each there once.
Waiting(line, users, owner) ==
  \A i \in 1 .. Len(line) :
    /\ line[i] \in users
    /\ line[i] # owner
    /\ \A j \in 1 .. Len(line) : line[i] = line[j] => i = j

LinesAreOrderly ==
  \A s \in Attempts : Waiting(slotLine[s], slotUsers[s], slotOwner[s])

SlotInv ==
  /\ SlotTypeOK
  /\ UsersShareTheMappedSlot
  /\ MappedSlotsAreUsed
  /\ OwnersAreUsers
  /\ LinesAreOrderly

-----------------------------------------------------------------------------

\* Taking the i-th waiter out of a line keeps the order of the others (the
\* cancellation of a waiter of asyncio.Lock).
LEMMA RemoveAtProperties ==
  ASSUME NEW S, NEW line \in Seq(S), NEW i \in 1 .. Len(line)
  PROVE  /\ RemoveAt(line, i) \in Seq(S)
         /\ Len(RemoveAt(line, i)) = Len(line) - 1
         /\ \A j \in 1 .. Len(line) - 1 :
              RemoveAt(line, i)[j] = IF j < i THEN line[j] ELSE line[j + 1]
<1> DEFINE front == SubSeq(line, 1, i - 1)
           back  == SubSeq(line, i + 1, Len(line))
<1>1. Len(line) \in Nat /\ \A j \in 1 .. Len(line) : line[j] \in S
  BY LenProperties, ElementOfSeq
<1>2. /\ front \in Seq(S)
      /\ Len(front) = i - 1
      /\ \A j \in 1 .. i - 1 : front[j] = line[j]
  <2>1. \A j \in 1 .. i - 1 : line[j] \in S
    BY <1>1
  <2> QED BY <1>1, <2>1, SubSeqProperties
<1>3. /\ back \in Seq(S)
      /\ Len(back) = Len(line) - i
      /\ \A j \in 1 .. Len(line) - i : back[j] = line[i + j]
  <2>1. \A j \in i + 1 .. Len(line) : line[j] \in S
    BY <1>1
  <2>2. /\ back \in Seq(S)
        /\ Len(back) = IF i + 1 <= Len(line) THEN Len(line) - (i + 1) + 1 ELSE 0
        /\ \A j \in 1 .. Len(line) - (i + 1) + 1 : back[j] = line[i + 1 + j - 1]
    BY <1>1, <2>1, SubSeqProperties
  <2> QED BY <1>1, <2>2
<1>4. RemoveAt(line, i) = front \o back
  BY DEF RemoveAt
<1> HIDE DEF front, back
<1>5. /\ front \o back \in Seq(S)
      /\ Len(front \o back) = Len(front) + Len(back)
      /\ \A j \in 1 .. Len(front) + Len(back) :
           (front \o back)[j] = IF j <= Len(front) THEN front[j] ELSE back[j - Len(front)]
  BY <1>2, <1>3, ConcatProperties
<1>6. ASSUME NEW j \in 1 .. Len(line) - 1
      PROVE  (front \o back)[j] = IF j < i THEN line[j] ELSE line[j + 1]
  <2>1. CASE j < i
    <3>1. j \in 1 .. i - 1 /\ j \in 1 .. Len(front) + Len(back)
      BY <1>1, <1>2, <1>3, <2>1
    <3> QED BY <1>2, <1>5, <2>1, <3>1
  <2>2. CASE ~(j < i)
    <3>1. /\ j \in 1 .. Len(front) + Len(back)
          /\ ~(j <= Len(front))
          /\ j - Len(front) = j - i + 1
          /\ j - i + 1 \in 1 .. Len(line) - i
          /\ i + (j - i + 1) = j + 1
      BY <1>1, <1>2, <1>3, <2>2
    <3>2. (front \o back)[j] = back[j - i + 1]
      BY <1>5, <3>1
    <3>3. back[j - i + 1] = line[j + 1]
      BY <1>3, <3>1
    <3> QED BY <2>2, <3>2, <3>3
  <2> QED BY <2>1, <2>2
<1> QED BY <1>1, <1>2, <1>3, <1>4, <1>5, <1>6

\* A waiter that leaves leaves an orderly line behind, in which it is no more.
LEMMA WaiterLeaves ==
  ASSUME NEW S, NEW line \in Seq(S), NEW users, NEW owner,
         Waiting(line, users, owner), NEW i \in 1 .. Len(line)
  PROVE  Waiting(RemoveAt(line, i), users \ {line[i]}, owner)
<1> DEFINE rest == RemoveAt(line, i)
<1>1. /\ Len(line) \in Nat
      /\ Len(rest) = Len(line) - 1
      /\ \A j \in 1 .. Len(rest) : rest[j] = IF j < i THEN line[j] ELSE line[j + 1]
  BY RemoveAtProperties, LenProperties
<1> HIDE DEF rest
<1>2. SUFFICES ASSUME NEW j \in 1 .. Len(rest)
               PROVE  /\ rest[j] \in users \ {line[i]}
                      /\ rest[j] # owner
                      /\ \A l \in 1 .. Len(rest) : rest[j] = rest[l] => j = l
  BY DEF Waiting, rest
<1> DEFINE was(l) == IF l < i THEN l ELSE l + 1
<1>3. \A l \in 1 .. Len(rest) :
        was(l) \in 1 .. Len(line) /\ was(l) # i /\ rest[l] = line[was(l)]
  BY <1>1
<1>4. \A l \in 1 .. Len(rest) : was(j) = was(l) => j = l
  BY <1>1
<1> HIDE DEF was
<1>5. rest[j] \in users /\ rest[j] # line[i] /\ rest[j] # owner
  BY <1>3 DEF Waiting
<1>6. ASSUME NEW l \in 1 .. Len(rest), rest[j] = rest[l] PROVE j = l
  BY <1>3, <1>4, <1>6 DEF Waiting
<1> QED BY <1>5, <1>6

\* The first waiter takes the lock: the others wait for it in the same order.
LEMMA WaiterServed ==
  ASSUME NEW S, NEW line \in Seq(S), line # <<>>, NEW users, NEW owner,
         Waiting(line, users, owner)
  PROVE  /\ Head(line) \in users
         /\ Tail(line) \in Seq(S)
         /\ Waiting(Tail(line), users, Head(line))
<1>1. /\ Len(line) \in Nat \ {0}
      /\ Head(line) = line[1]
      /\ Tail(line) \in Seq(S)
      /\ Len(Tail(line)) = Len(line) - 1
      /\ \A i \in 1 .. Len(Tail(line)) : Tail(line)[i] = line[i + 1]
  BY HeadTailProperties, EmptySeq, LenProperties
<1> QED BY <1>1 DEF Waiting

\* A newcomer joins at the end of the line.
LEMMA WaiterJoins ==
  ASSUME NEW S, NEW line \in Seq(S), NEW users, NEW owner, NEW k \in S,
         Waiting(line, users, owner), k \notin users, k # owner
  PROVE  /\ Append(line, k) \in Seq(S)
         /\ Waiting(Append(line, k), users \cup {k}, owner)
<1>1. /\ Len(line) \in Nat
      /\ Append(line, k) \in Seq(S)
      /\ Len(Append(line, k)) = Len(line) + 1
      /\ \A i \in 1 .. Len(line) : Append(line, k)[i] = line[i]
      /\ Append(line, k)[Len(line) + 1] = k
  BY LenProperties
<1> QED BY <1>1 DEF Waiting

-----------------------------------------------------------------------------

\* No slot is in use before the first offer.
LEMMA SlotInitInv == SlotInit => SlotInv
<1> SUFFICES ASSUME SlotInit PROVE SlotInv
  OBVIOUS
<1>1. <<>> \in Seq(Attempts) /\ Len(<<>>) = 0
  BY EmptySeq
<1>2. SlotTypeOK
  BY <1>1 DEF SlotInit, SlotTypeOK
<1>3. LinesAreOrderly
  BY <1>1 DEF SlotInit, LinesAreOrderly, Waiting
<1> QED
  BY <1>2, <1>3 DEF SlotInit, SlotInv, UsersShareTheMappedSlot, MappedSlotsAreUsed,
                    OwnersAreUsers

\* The slot of a user is the only one that counts it.
LEMMA SlotOfUser ==
  ASSUME SlotInv, NEW k \in Attempts, UsesSlot(k)
  PROVE  /\ SlotOf(k) \in Attempts
         /\ k \in slotUsers[SlotOf(k)]
         /\ DeviceOf[SlotOf(k)] = DeviceOf[k]
         /\ playbackSlots[DeviceOf[k]] = SlotOf(k)
         /\ \A s \in Attempts : k \in slotUsers[s] => s = SlotOf(k)
<1>1. SlotOf(k) \in Attempts /\ k \in slotUsers[SlotOf(k)]
  BY DEF UsesSlot, SlotOf
<1> QED BY <1>1 DEF SlotInv, UsersShareTheMappedSlot

\* Entering playback_slot keeps the invariant: a slot that is created is unused,
\* one that is found is shared.
LEMMA RequestSlotInv ==
  ASSUME SlotInv, NEW k \in Attempts, RequestSlot(k)
  PROVE  SlotInv'
<1> DEFINE s == SlotFor(k)
           d == DeviceOf[k]
<1> USE SlotConstants, NoneAssumption
<1>1. /\ s \in Attempts
      /\ d \in Devices
      /\ DeviceOf[s] = d
      /\ \/ playbackSlots[d] = s
         \/ playbackSlots[d] = None /\ slotUsers[s] = {}
      /\ \A x \in Attempts : k \notin slotUsers[x]
  <2>1. d \in Devices /\ playbackSlots[d] \in Attempts \cup {None}
    BY DEF SlotInv, SlotTypeOK
  <2>2. \A x \in Attempts : k \notin slotUsers[x]
    BY DEF RequestSlot, UsesSlot
  <2>3. CASE playbackSlots[d] = None
    <3>1. s = k
      BY <2>3 DEF SlotFor
    <3>2. slotUsers[k] = {}
      BY <2>1, <2>3 DEF SlotInv, UsersShareTheMappedSlot
    <3> QED BY <2>1, <2>2, <2>3, <3>1, <3>2
  <2>4. CASE playbackSlots[d] # None
    <3>1. s = playbackSlots[d]
      BY <2>4 DEF SlotFor
    <3>2. DeviceOf[playbackSlots[d]] = d
      BY <2>1, <2>4 DEF SlotInv, MappedSlotsAreUsed
    <3> QED BY <2>1, <2>2, <2>4, <3>1, <3>2
  <2> QED BY <2>3, <2>4
<1>2. /\ playbackSlots' = [playbackSlots EXCEPT ![d] = s]
      /\ slotUsers' = [slotUsers EXCEPT ![s] = @ \cup {k}]
  BY DEF RequestSlot
<1>3. k # slotOwner[s]
  BY <1>1 DEF SlotInv, OwnersAreUsers, UsersShareTheMappedSlot
<1>4. /\ UsersShareTheMappedSlot'
      /\ MappedSlotsAreUsed'
  BY <1>1, <1>2 DEF SlotInv, SlotTypeOK, UsersShareTheMappedSlot, MappedSlotsAreUsed
<1>5. /\ slotLine[s] \in Seq(Attempts)
      /\ Waiting(slotLine[s], slotUsers[s], slotOwner[s])
  BY <1>1 DEF SlotInv, SlotTypeOK, LinesAreOrderly
<1>6. CASE LockFree(s) /\ slotOwner' = [slotOwner EXCEPT ![s] = k] /\ UNCHANGED slotLine
  <2>1. SlotTypeOK' /\ OwnersAreUsers'
    BY <1>1, <1>2, <1>6 DEF SlotInv, SlotTypeOK, OwnersAreUsers
  <2>2. Len(slotLine[s]) = 0
    BY <1>6, EmptySeq DEF LockFree
  <2>3. LinesAreOrderly'
    BY <1>1, <1>2, <1>6, <2>2 DEF SlotInv, SlotTypeOK, LinesAreOrderly, Waiting
  <2> QED BY <1>4, <2>1, <2>3 DEF SlotInv
<1>7. CASE slotLine' = [slotLine EXCEPT ![s] = Append(@, k)] /\ UNCHANGED slotOwner
  <2>1. /\ Append(slotLine[s], k) \in Seq(Attempts)
        /\ Waiting(Append(slotLine[s], k), slotUsers[s] \cup {k}, slotOwner[s])
    BY <1>1, <1>3, <1>5, WaiterJoins
  <2>2. SlotTypeOK' /\ OwnersAreUsers'
    BY <1>1, <1>2, <1>7, <2>1 DEF SlotInv, SlotTypeOK, OwnersAreUsers
  <2>3. LinesAreOrderly'
    BY <1>1, <1>2, <1>7, <2>1 DEF SlotInv, SlotTypeOK, LinesAreOrderly
  <2> QED BY <1>4, <2>2, <2>3 DEF SlotInv
<1> QED BY <1>6, <1>7 DEF RequestSlot

\* The wakeup of the first waiter keeps the invariant.
LEMMA GrantSlotInv ==
  ASSUME SlotInv, NEW k \in Attempts, GrantSlot(k)
  PROVE  SlotInv'
<1>1. PICK s \in Attempts :
        /\ slotOwner[s] = None
        /\ slotLine[s] # <<>>
        /\ Head(slotLine[s]) = k
        /\ slotOwner' = [slotOwner EXCEPT ![s] = k]
        /\ slotLine' = [slotLine EXCEPT ![s] = Tail(@)]
        /\ UNCHANGED <<playbackSlots, slotUsers>>
  BY DEF GrantSlot
<1>2. /\ k \in slotUsers[s]
      /\ Tail(slotLine[s]) \in Seq(Attempts)
      /\ Waiting(Tail(slotLine[s]), slotUsers[s], k)
  BY <1>1, WaiterServed DEF SlotInv, SlotTypeOK, LinesAreOrderly
<1>3. /\ SlotTypeOK'
      /\ OwnersAreUsers'
      /\ LinesAreOrderly'
  BY <1>1, <1>2 DEF SlotInv, SlotTypeOK, OwnersAreUsers, LinesAreOrderly
<1>4. UsersShareTheMappedSlot' /\ MappedSlotsAreUsed'
  BY <1>1 DEF SlotInv, UsersShareTheMappedSlot, MappedSlotsAreUsed
<1> QED BY <1>3, <1>4 DEF SlotInv

\* Leaving playback_slot keeps the invariant: the slot goes with its last user.
LEMMA ReleaseSlotInv ==
  ASSUME SlotInv, NEW k \in Attempts, ReleaseSlot(k)
  PROVE  SlotInv'
<1> DEFINE s == SlotOf(k)
           d == DeviceOf[k]
<1> USE SlotConstants, NoneAssumption
<1>1. /\ s \in Attempts
      /\ d \in Devices
      /\ k \in slotUsers[s]
      /\ DeviceOf[s] = d
      /\ playbackSlots[d] = s
      /\ \A x \in Attempts : k \in slotUsers[x] => x = s
  BY SlotOfUser DEF ReleaseSlot
<1>2. /\ slotUsers' = [slotUsers EXCEPT ![s] = @ \ {k}]
      /\ LeaveLock(s, k)
      /\ RetireSlot(s, k)
  BY DEF ReleaseSlot
<1> HIDE DEF s, d
<1>3. /\ playbackSlots' \in [Devices -> Attempts \cup {None}]
      /\ UsersShareTheMappedSlot'
      /\ MappedSlotsAreUsed'
  <2>1. CASE slotUsers[s] = {k}
    <3>1. playbackSlots' = [playbackSlots EXCEPT ![d] = None]
      BY <1>1, <1>2, <2>1 DEF RetireSlot, d
    <3> QED BY <1>1, <1>2, <2>1, <3>1
            DEF SlotInv, SlotTypeOK, UsersShareTheMappedSlot, MappedSlotsAreUsed
  <2>2. CASE slotUsers[s] # {k}
    <3>1. playbackSlots' = playbackSlots
      BY <1>2, <2>2 DEF RetireSlot
    <3> QED BY <1>1, <1>2, <2>2, <3>1
            DEF SlotInv, SlotTypeOK, UsersShareTheMappedSlot, MappedSlotsAreUsed
  <2> QED BY <2>1, <2>2
<1>4. /\ slotLine[s] \in Seq(Attempts)
      /\ Waiting(slotLine[s], slotUsers[s], slotOwner[s])
  BY <1>1 DEF SlotInv, SlotTypeOK, LinesAreOrderly
<1>5. CASE slotOwner[s] = k /\ slotOwner' = [slotOwner EXCEPT ![s] = None]
             /\ UNCHANGED slotLine
  <2>1. Waiting(slotLine[s], slotUsers[s] \ {k}, None)
    <3>1. \A i \in 1 .. Len(slotLine[s]) : slotLine[s][i] \in Attempts
      BY <1>4, ElementOfSeq
    <3> QED BY <1>4, <1>5, <3>1 DEF Waiting
  <2>2. /\ SlotTypeOK'
        /\ OwnersAreUsers'
        /\ LinesAreOrderly'
    BY <1>1, <1>2, <1>3, <1>5, <2>1
       DEF SlotInv, SlotTypeOK, OwnersAreUsers, LinesAreOrderly
  <2> QED BY <1>3, <2>2 DEF SlotInv
<1>6. ASSUME slotOwner[s] # k,
             NEW i \in 1 .. Len(slotLine[s]),
             slotLine[s][i] = k,
             slotLine' = [slotLine EXCEPT ![s] = RemoveAt(@, i)],
             UNCHANGED slotOwner
      PROVE  SlotInv'
  <2>1. /\ RemoveAt(slotLine[s], i) \in Seq(Attempts)
        /\ Waiting(RemoveAt(slotLine[s], i), slotUsers[s] \ {k}, slotOwner[s])
    BY <1>4, <1>6, RemoveAtProperties, WaiterLeaves
  <2>2. /\ SlotTypeOK'
        /\ OwnersAreUsers'
        /\ LinesAreOrderly'
    BY <1>1, <1>2, <1>3, <1>6, <2>1
       DEF SlotInv, SlotTypeOK, OwnersAreUsers, LinesAreOrderly
  <2> QED BY <1>3, <2>2 DEF SlotInv
<1> QED BY <1>2, <1>5, <1>6 DEF LeaveLock

\* Every step of the slots keeps the invariant.
LEMMA SlotInvStep ==
  ASSUME SlotInv, [SlotNext]_slotVars
  PROVE  SlotInv'
<1>1. CASE SlotNext
  BY <1>1, RequestSlotInv, GrantSlotInv, ReleaseSlotInv DEF SlotNext
<1>2. CASE UNCHANGED slotVars
  BY <1>2 DEF slotVars, SlotInv, SlotTypeOK, UsersShareTheMappedSlot,
              MappedSlotsAreUsed, OwnersAreUsers, LinesAreOrderly
<1> QED BY <1>1, <1>2

\* SlotInv holds in every reachable state of the slots.
THEOREM SlotInvariant == SlotSafety => []SlotInv
<1>1. SlotInv /\ [SlotNext]_slotVars => SlotInv'
  BY SlotInvStep
<1> QED BY <1>1, SlotInitInv, PTL DEF SlotSafety

\* The slot map, the user sets and the locks keep their shapes.
THEOREM SlotTypes == SlotSafety => []SlotTypeOK
<1>1. SlotInv => SlotTypeOK
  BY DEF SlotInv
<1> QED BY <1>1, SlotInvariant, PTL

\* The invariant gives mutual exclusion: two holders for one device would be users
\* of the one slot the map holds for it, and that slot has one lock.
LEMMA SlotInvExcludes == SlotInv => OneHolderPerDevice
<1> SUFFICES ASSUME SlotInv, NEW a \in Attempts, NEW b \in Attempts,
                    HoldsSlot(a), HoldsSlot(b), DeviceOf[a] = DeviceOf[b]
             PROVE  a = b
  BY DEF OneHolderPerDevice
<1>1. PICK s \in Attempts : slotOwner[s] = a
  BY DEF HoldsSlot
<1>2. PICK t \in Attempts : slotOwner[t] = b
  BY DEF HoldsSlot
<1>3. a \in slotUsers[s] /\ b \in slotUsers[t]
  BY <1>1, <1>2, NoneAssumption DEF SlotInv, OwnersAreUsers
<1>4. s = t
  BY <1>3 DEF SlotInv, UsersShareTheMappedSlot
<1> QED BY <1>1, <1>2, <1>4

\* "Serialize one device's playback across every agent manager": for any number
\* of deliveries and devices, two deliveries never hold locks of one device.
THEOREM SlotMutualExclusion == SlotSafety => []OneHolderPerDevice
BY SlotInvariant, SlotInvExcludes, PTL

\* For any number of deliveries, the map keeps exactly the slots in use.
THEOREM SlotMapIsExact == SlotSafety => []SlotsInUseAreMapped
<1>1. SlotInv => SlotsInUseAreMapped
  <2> SUFFICES ASSUME SlotInv, NEW s \in Attempts
               PROVE  slotUsers[s] # {} <=> playbackSlots[DeviceOf[s]] = s
    BY DEF SlotsInUseAreMapped
  <2>1. slotUsers[s] # {} => playbackSlots[DeviceOf[s]] = s
    BY DEF SlotInv, SlotTypeOK, UsersShareTheMappedSlot
  <2>2. DeviceOf[s] \in Devices /\ s # None
    BY SlotConstants, NoneAssumption
  <2>3. playbackSlots[DeviceOf[s]] = s => slotUsers[s] # {}
    BY <2>2 DEF SlotInv, MappedSlotsAreUsed
  <2> QED BY <2>1, <2>3
<1> QED BY <1>1, SlotInvariant, PTL

=============================================================================
