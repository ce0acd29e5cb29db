------------------------- MODULE DeliveryRefinement -------------------------
(* The delivery managers implement Announcements.                          *)
EXTENDS Delivery

\* The attempt in progress on a lane.
ServedOn(lane) ==
  IF \E k \in Attempts : InProgress(k) /\ LaneOf(k) = lane
  THEN CHOOSE k \in Attempts : InProgress(k) /\ LaneOf(k) = lane
  ELSE None

\* The attempt whose announcement sounds on d.
SpokenOn(d) ==
  IF \E k \in Attempts : pc[k] = "playing" /\ DeviceOf[k] = d
  THEN CHOOSE k \in Attempts : pc[k] = "playing" /\ DeviceOf[k] = d
  ELSE None

\* A permission is used once job_playback_started is being sent; neither a
\* revocation nor a lost lease leaves it.
PermissionOf(k) ==
  IF k \in revoked \cup leaseLost THEN "none"
  ELSE IF authorization[k] = "pending" THEN "asked"
  ELSE IF authorization[k] = "granted" THEN "granted"
  ELSE IF pc[k] = "notifying" THEN "used"
  ELSE "none"

Promise == INSTANCE Announcements WITH
  waiting <- queues,
  serving <- [lane \in Lanes |-> ServedOn(lane)],
  permission <- [k \in Attempts |-> PermissionOf(k)],
  speaking <- [d \in Devices |-> SpokenOn(d)],
  heard <- announced,
  reporting <- {k \in Attempts : pc[k] = "acking"}

\* Whatever the interleaving of offers, sends, failures and closing, the managers
\* do what Announcements promises: offers are served in order, one at a time for
\* an agent and device; a result is spoken only with Casa's permission for this
\* attempt, not revoked since; one result at a time on a device, no replay of a
\* job heard lately, no report of a job that was not heard.
KeepsThePromise == Promise!AnnouncementsSpec

=============================================================================
