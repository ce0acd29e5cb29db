# Casa voice agents for Home Assistant: a verification development

This directory holds TLA+ models of the integration in
`src/custom_components/casa`, TLC configurations that check them on small
instances, and TLAPS proofs of what matters most for instances of any size.
`PROJECT.json` lists components, runs, the code lines each definition stands
for, the hazards of the code and the properties aimed at them.

## The system

The integration connects Home Assistant to Casa, a server of voice agents. A
*parent* config entry (host, port, secret) owns one *child* per agent role
(butler, concierge, ...). Every child has an HTTP and WebSocket client and a
delivery manager of its own; all children share one satellite directory. All
code runs in one asyncio event loop, so tasks interleave only at awaits.

| part | state it keeps | operations | what is hard about it |
|---|---|---|---|
| `SatelliteDirectory.playback_slot` (`delivery.py`) | a slot object per device: lock, user count | enter, leave by return, exception or cancellation | slot objects come and go while others wait on them |
| `SatelliteDirectory` (`delivery.py`) | satellites of each device, device of each satellite, state, idle start, one-shot change events | add, remove, set state, resolve, take and discard an event | events are replaced and discarded while deliveries sleep on them |
| `BackgroundDeliveryManager` (`delivery.py`) | queue and worker per device, attempts, authorizations, delivered cache, lease renewers | frames `job_ready`, `job_delivery_authorized`, `job_revoke`; the delivery procedure; `close` | a dozen awaits, at each of which the job may expire or be revoked, the lease be lost, the satellite move or speak, the manager close |
| WebSocket half of `CasaApiClient` (`api.py`) | socket, generation, reader, supervisor, what was negotiated, connection state, two locks, utterance queues | `_ensure_ws`, `_send_json`, `_read_loop`, `start_background`, `register_session`, utterances, `close` | a socket may be lost, replaced or closed at every await of every task |
| HTTP half of `CasaApiClient` | none | SSE utterances, health, probe, catalog | an answer that breaks off |
| conversation entity (`conversation.py`) | none beyond a turn | one utterance per turn under a total timeout | the timeout and the barge-in against answers, receipts and the cancel frame |
| `SessionRegistrationListener` (`registration.py`) | two subscriptions | attach, detach, state and registry events | feeds the directory; the wake edge starts a session registration |
| entry set-up and `CasaAgentRuntime` (`__init__.py`) | children, connection states, registration tasks | set-up with rollback, unload, reload, reauthentication | partial failure; callbacks of children before the entry is active; changes while there is no update listener |
| catalog (`catalog.py`) | the persisted children | validate, reconcile | children are added one by one; the settings of the others must survive |
| flows (`config_flow.py`) | the config entry | manual, discovery, reauthentication, options, reconfigure | two ways to the same endpoint; who reloads the entry after a change |
| diagnostics, constants, strings | none | | |

How they interact: Casa sends job frames over the WebSocket; the reader calls
the manager's `handle_frame`; the manager's workers send frames back through
`send_job_frame`, read the directory, wait on its events and compete for its
slots with the managers of the other agents; Home Assistant's state and registry
events change the directory at any time; the client reports its connection
state to the runtime, which makes the agent's entity available or not.

What makes each part correct:

* slots: one holder per device whatever objects came and went; the map holds
  exactly the slots in use; who asks is served;
* directory: its maps agree; no wakeup is lost; idle stretches are unbroken;
* manager: nothing is spoken to a busy or moved satellite, after expiry,
  revocation or lease loss; what was heard is not repeated and only that is
  reported; every offer comes to an end and leaves nothing behind;
* client: what was negotiated on one connection is never used on another; an
  agent shown as connected has a socket that is being read; nobody waits on a
  dead connection; it reconnects until it is closed, and nothing is left then;
* turn: the result says what Casa said; an abandoned turn is cancelled; a handoff
  is spoken only if Casa was told that it was received, and one that was confirmed is
  spoken unless the turn is cut off at that very await; every turn ends;
* entry: what is stored is what runs; a rejected secret reaches the user and the
  new one is used; catalogs leave settings alone; nothing survives an unload or
  a set-up that failed; an endpoint has one entry.

## The modules

| module | models | checked by | proved in |
|---|---|---|---|
| `Casa` | what the others share | | |
| `PlaybackSlot` | `SatelliteDirectory.playback_slot` | `MCPlaybackSlot` | `PlaybackSlotProofs` |
| `SatelliteDirectory` | the registry, states and events of the class | `MCSatelliteDirectory` | `SatelliteDirectoryProofs` |
| `DirectoryHistory` | the directory with the history `busyAt`; EXTENDS `SatelliteDirectory` | `MCSatelliteDirectory` | `SatelliteDirectoryProofs` |
| `Delivery` | `BackgroundDeliveryManager`; EXTENDS the two above | `MCDelivery`, `MCReoffer`, `MCRebind`, `MCLiveness` | `DeliveryProofs`, `DeliveryStateProofs`, `DeliveryHistoryProofs` |
| `Announcements` | the promise of the delivery, abstractly | | |
| `DeliveryRefinement` | the mapping from `Delivery` to `Announcements` | `MCReoffer` | `DeliveryHistoryProofs` |
| `Connection` | the promise of the WebSocket client, abstractly | | |
| `ConnectionRefinement` | the mapping from `WsClient` to `Connection` | | `WsClientProofs` |
| `WsClient` | the WebSocket half of `CasaApiClient` | `MCWsClient`, `MCWsLiveness`, `MCWsCancelled` | `WsClientProofs` |
| `Turn` | one turn of the conversation entity over an utterance stream | `MCTurn` | `TurnProofs` |
| `ConfigFlow` | manual set-up and discovery | `MCDuplicate` | `EntryProofs` |
| `Entry` | set-up, unload, runtime, catalog and the flows that change an entry; EXTENDS `ConfigFlow` | `MCEntry` | `EntryProofs` |

`Delivery` composes the managers of all agents with the shared directory and
slots: its actions take the operations of those modules as conjuncts
(`RequestSlot`, `ReleaseSlot`, `Listen`, `DiscardEvent`, ...). `Entry` composes
the life of an entry with the flows that create and change it. `WsClient` and
`Turn` stand alone: `Delivery` assumes of a send that it ends, with success or an
exception, after any delay; `Turn` sees the connection of the client as one socket
that may be lost; `Entry` sees the supervisor of a child as a
report of AUTH_FAILED that may come at any time after its start.

Definitions that begin with the comment *Defect:* are not part of the models.
Each is the form that a definition would take with a plausible bug; put in its
place it makes one of the properties fail, which shows that the property can.

### PlaybackSlot

A slot object is named by the delivery that created it; the set of its users
stands for `users`. `slotOwner` and `slotLine` are the owner and the waiters of
its `asyncio.Lock`, which is fair: an acquire does not suspend if the lock is free
and nobody waits (`LockFree`), and otherwise joins a line from which a release
wakes the first. Entering (`RequestSlot`) finds or creates the slot, counts
the user and takes the lock, all without an await. Leaving (`ReleaseSlot`) is one
step for the holder and for a cancelled waiter. A cancelled waiter stays in line
until its own task runs, as in asyncio.

### SatelliteDirectory

The maps are as in the code. Of a state only "idle" or "busy" (any other) is
kept. An `asyncio.Event` is used once: `_notify` takes it out of the map, sets it
and puts a fresh one in its place. So a delivery that holds an event is in
`listeners` of its device (the event is the current one), in `pulsed` (it was
set), or in neither: the event was discarded and will never be set. That third
case is what the properties are about. `DirectoryChange` is what
`SessionRegistrationListener` feeds in: a removal or the report of a state, with
the binding read afresh. `last_changed` of a report is the present instant, or
any earlier one for a satellite the directory did not know.

### Delivery

`pc[k]` names the await at which the worker of attempt k is suspended; the
comment at the head of the module lists them. Everything between two awaits is
one action:

| code | actions |
|---|---|
| `handle_frame`, `_parse_ready` | `JobReady`, `JobAuthorized`, `JobRevoke` |
| `_spawn_send` of a refusal | `NackSent` |
| `_worker` | `StartDelivery`, `ForgetAttempt` and `RetireWorker` (in every ending) |
| `_deliver` | `FirstFrame`, `ClaimSent`, `SlotGranted`, `EndDelivery`, `Finish` |
| `_wait_for_stable_idle`, `_wait_event_or_timeout` | `IdleCheck`, `Wake` |
| `_deliver_in_playback_slot` | `IdleCheck` (its first lines), `FrameSent`, `AuthorizationReturned`, `PlaybackStartedSent`, `AnnounceDone` |
| `_wait_authorization` | `AuthorizationDecided` |
| `_has_current_stable_idle_claim` | `HasClaim` with `DiscardEvent` |
| `_abort_idle_wait`, `_abort_preplay` | `Abort` |
| `_renew_claim` | `RenewFails` (a renewal that succeeds changes nothing) |
| a send or the announcement that raises | `DeliveryFails` |
| `close` | `CloseBegin`, `CancelDelivery`, `CloseEnd` |

Abstractions: all attempts of a job are for one agent and one device, which is what
`origin_device_id` means but the code does not check (`DeliveryConstants`); the validation of a frame is reduced to its expiry; texts,
sequence numbers and the reasons of a nack are left out (the three reasons lead to the
same state); the clock is a counter, shared, that never goes back, and several
reads of it in one step give one value; the ten seconds of `_wait_authorization` and the
period of the renewer may be over at any time, which includes all real timings.
Casa sends any frame at any time: authorizations nobody asked for, late
revocations, offers again and again, also of attempts that were answered.

`Announcements` says what all this is for, without workers, locks, events or
leases: the offers of one agent for one device are served in their order, one at a
time; a result is spoken with a permission that was asked for, granted, announced
to Casa and has not lapsed, each in its turn; a device speaks one result at a time;
a job heard lately is not spoken again, and only what was heard is reported. In
`DeliveryRefinement` the attempt served is the one in progress on the lane,
the one spoken is at `pc = "playing"`, and the permission (`PermissionOf`) is what
`authorization`, `revoked` and `leaseLost` say together: "used" from the check
before `job_playback_started` on, and "none" once the offer is revoked or its
lease is lost.

### WsClient

A socket is named by its generation. `at[t]` is the await of task t; the tasks
are the one that runs `start_background` (`Setup`), the supervisor, the one that
closes, and any number of job frame senders, utterances and session
registrations. `reader[g]` is the reader task of socket g. `socket[g]` is
"broken" when the connection is lost but `ws.closed` is still false. `route[g]`
is Casa's side of the registration.

| code | actions |
|---|---|
| `_ensure_ws` | `EnsureWs`, `DialRefused`, `DialFails`, `DialSucceeds`, `Install`, `Confirm`; its `except`: `Undo`, `ReaderJoined`, `Clear` |
| `_send_json`, `_register_voice_route` | `BeginSend`, `EndSend`, `BreakSend` |
| `_retire_ws_generation` | `Retire`, `Retired` |
| `_read_loop`, `_handle_route_ack` | `ReaderStarts`, `RouteAnswered`, `HandleRouteAck`, `UtteranceAnswered`, `ReaderEnds`, `Cleanup` |
| `_stream_utterance_ws` | `StreamUtterance`, `TakeFrame`, and the sends |
| `register_session`, `send_job_frame`, `start_background` | `RegisterSession`, `SendJobFrame`, `StartBackground` |
| `_supervise_ws` | `LoopHead`, `WatchEnds`, `BackoffEnds` |
| cancellation of a caller | `Cancel` |
| `close` | `CloseBegin`, `TasksStopped`, `CloseSocket`, `CloseEnd` |

Abstractions: `asyncio.Lock` is fair, but here its waiters are served in any order and
a free lock is taken in a step of its own, so the model has more behaviours than the code; the
length of the backoff is left out (`BackoffEnds` may happen at any time), and so are blocks,
malformed frames, and the job frames that come in. A task cancelled between
connecting and installing the socket loses that socket; the model forgets it too.

`Connection` is the client without tasks, locks and readers: one connection at a
time, a new one only when the last is lost; terms that end with their connection
and do not change under a frame; frames written one by one, job frames only on
accepted terms; CONNECTED shown only of a connection that is up; a rejected secret
that stops everything but the closing. In `ConnectionRefinement` a
connection is up while `_ws` is set and not `closed` (`HasSocket`), its terms are
`routeAck` and `accepted`, and the frame being written is that of the holder of
`_ws_write_lock`.

### Turn

`pc` is the await at which the turn is suspended, wherever it is: the turn, the
generator `_deltas`, `stream_utterance` and the stream of the transport are one stack of
suspended generators, and an exception at any of them runs the `finally` of all.
What matters there is one question, whether the `finally` of
`_stream_utterance_ws` sends a cancel frame; `Abandon` and `End` are its two
answers. `CutOff` is a `CancelledError` at the current await, from
`asyncio.timeout` (`TimesOut`) or from Home Assistant (`BargeIn`).

| code | actions |
|---|---|
| `_async_handle_message` | `Begin`, `ConnectFails`, `Fed`, `TimesOut`, `BargeIn`; its results are `End` and `Abandon` |
| `_stream_utterance_ws` | `Connected`, `Sent`, `SendFails`, `Read`, `Confirmed`, `CancelSent` |
| `_stream_utterance_sse` | `Connected`, `Read` |
| `_read_loop`, as far as it feeds the queue of an utterance | `CasaSends`, `ConnectionLost` |

An SSE response that ends without a terminal event counts as done
(`api.py:299-300`), so what is said about whole answers is said of the WebSocket.
The scope of the session, the context payload and the wording are left out.

### ConfigFlow and Entry

All flows of `ConfigFlow` name one host and port, since others do not meet. A flow
is where it waits: at its form, for the catalog, or in the pause between two
tries. In `Entry`, `phase` is where Home Assistant is with the entry; the head of the module lists
its values. `stored` is the config entry, `built` what the runtime was built from; the host,
port and overrides are one `settings` of two values, since all that matters of them is
whether they have changed.

| code | actions |
|---|---|
| `async_step_user`, `async_step_hassio`, `async_step_hassio_confirm` | `Submit`, `Discover`, `Confirm`, `FlowFetchFails`, `Sleep`, `CreateEntry` (in `Entry`: `FlowGoesOn`, `EntryCreated`) |
| `async_setup_entry` | `SetupBegins`, `CatalogFetched`, `CatalogRefused`, `CatalogUnavailable`, `ChildStarted`, `ChildRefused`, `Forwarded`, `SetupFails` |
| `reconcile_catalog` | `Reconciled` in `CatalogFetched`, wholly or by half |
| `connection_state_changed`, `maybe_start_reauth` | `ConnectionStateChanged`, `CatchUp` |
| `register_session`, `_registration_done` | `WakeEdge`, `RegistrationDone` |
| `async_unload_entry`, `_async_cleanup_children`, `async_close` | `UnloadBegins`, `PlatformsUnloaded`, `ChildClosed`, `CleanupEnds` |
| a turn that is answered 401 | `TurnRefused` |
| `async_step_reauth_confirm` | `Reauthenticated` |
| `async_step_hassio` of a known installation | `Rediscovered` |
| `CasaOptionsFlow`, `CasaAgentSubentryFlow`, `_async_options_updated` | `Edit` |
| a child that the user deletes (Home Assistant) | `Removed` in `Edit` |

Home Assistant is external: it sets up, retries, reloads and unloads an entry
under one lock (`reloads` are waiting for it), tells the update listener of
changes only, and keeps one reauthentication flow at a time. A discovery record for an installation that is known is
stored as it is, with a secret that Casa may have replaced since and with any endpoint:
`async_step_hassio` does not ask Casa. Casa is taken to answer at every endpoint that is
announced; one where it does not is a catalog that is unavailable. The flows go on to
name the first endpoint, and to find the entry there. The code starts and
closes the children one after the other in the order of their subentries; the model in any order.
`missed` is a history, for `RunningConfigIsStored`.

## The runs

| run | instance | states | what it shows |
|---|---|---|---|
| `playback_slot` | three deliveries for one device, one for another | 182 | mutual exclusion and an exact map through every order of arrival, release and cancellation; nobody starves |
| `directory` | two devices, one with a fixed satellite, two satellites, two listeners, three instants | 7.8 thousand | the maps agree, no wakeup is lost, idle stretches never reach back over a busy report |
| `contention` | two agents with a job each for one satellite, stability 0 and 1, one manager may close | 202 thousand | one result at a time; nothing leaks; playback starts only with every right to; silence after a lost lease |
| `reoffer` | one agent, two attempts of one job and one of another, cache of one place | 291 thousand | no replay of what is remembered, no stranded offer, and the refinement of `Announcements`: offers in order, permissions that are asked for and have not lapsed, no false report |
| `rebind` | one agent with two jobs, two satellites that move between two devices or go | 557 thousand | the waiting delivery hears of every move and never speaks on a satellite that left |
| `delivery_liveness` | the instance of `contention` with a shorter clock | 57 thousand | every offer comes to an end; `close` returns |
| `ws_client` | three sockets, a sender of job frames, an utterance | 1.1 million | the safety of the client when sockets are lost and replaced at any await |
| `ws_liveness` | two sockets, an utterance that comes before `start_background` | 132 thousand | no socket is handed out that nobody reads: one on which the route cannot be registered is retired; it reconnects until closed; `close` returns |
| `entry` | two agents, two secrets, a manual flow and a discovery, two reloads that wait | 527 thousand | whatever fails or changes when: rejected secrets reach the user and the entry comes back, what is stored runs, settings survive catalogs, nothing survives its runtime |
| `turn` | either transport, three frames that wait | 1.3 thousand | results say what Casa said, abandoned turns are cancelled, handoffs agree, every turn ends |
| `ws_cancelled` | `ws_liveness` with `CancelCleanup` | | a violation, see *The findings* |
| `duplicate_entries` | two forms for one endpoint | | a violation, see *The findings* |

### Bounds

* `MaxTime` (last instant), the number of attempts, devices and satellites. What
  can go wrong between deliveries needs two of them and one device (a third
  attempt for the cache); what can go wrong with a satellite needs one instant before,
  one at and one after the end of its stability window. Offers expire at or
  before `MaxTime`, so the expiry is in the runs.
* `LruSize` is 1: with two jobs the cache overflows. 256 is the code's value;
  nothing depends on it but how long a job is remembered.
* `Closable`: the managers that may close. One is enough to meet the other one's
  deliveries in every state.
* One detached nack of an attempt at a time (`JobReady`).
* `MaxGeneration`: the number of sockets; the last one is not disturbed, so that the
  instance does not just run out of sockets. Three are needed for a reader of
  the first to meet the second while the third is being made.
* A client is used before `start_background` only where `EarlyUse` says so. The
  entry always calls it first (`__init__.py:369`); the tests of `api.py` do not.
* A task is cancelled while it gives up a socket only where `CancelCleanup` says
  so: the code does not survive it, see below.
* The histories `announced` (`Delivery`) and `busyAt` (`DirectoryHistory`) exist for
  the properties only: no guard reads them.
* `MaxInbox` is 3: words, a terminal frame and the end of the connection may wait
  at the same time. The proofs do not need a bound.
* `MaxReloads` is 2: one reload waits while another change asks for the next. A change
  that would exceed it waits too. An entry that Home Assistant has
  given up ("refused", "stuck") is left as it is: only a restart recovers it.
* A child is deleted (`Removed`) only while the entry is loaded or awaits its catalog; at
  other times the next set-up finds the child gone, or the deletion is missed as any other change.
* `Concurrent` is FALSE in the run `entry`: there one flow at a time tries to create the entry, as
  otherwise there may be two; `duplicate_entries` shows it.
* A turn is refused (`TurnRefused`) only before its runtime is unloaded; see
  *Not modelled*.

Deadlock is checked in the slot, directory and delivery runs. The WebSocket
runs do not check it: a closed client, and one whose last socket is quiet, stops. Nor do
those of turns and entries: a turn is over, an entry may be given up.

### Fairness

* `SlotSpec`: the event loop runs a waiter that was woken, and a delivery inside
  the lock leaves it. (In `Delivery` the second is a consequence.)
* `DeliverySpec`: weak fairness of every worker step, since the event loop runs
  what can run and every send and announcement ends, with success or not; of
  detached nacks; of the clock; and of the end of `close`. None of Casa's
  frames is assumed. That an announcement ends is an assumption about Home Assistant:
  `delivery.py:421` has no timeout.
* `WsSpec`: weak fairness of the tasks, sends and timers, and strong fairness of
  `DialSucceeds`, since "connects again and again" promises nothing if Casa is
  never there. Calls, drops and the answers of Casa are not fair.

* `TurnSpec`: weak fairness of the deadline and of the end of a cancel frame: sent
  or failed. The latter is only needed past the deadline, in `aclose`. Nothing
  is assumed of Casa, of the chat log or of the user, so a turn may end by its deadline only.
* `EntrySpec`: weak fairness of set-up and clean-up steps (Home Assistant goes on with what
  it began, a retry is due some time), strong fairness of an
  answer to the catalog request, which is repeated in each set-up, and of the
  reauthentication: the user answers a form that comes back again and again.
  Nothing is assumed of rejections, edits, flows or wake edges.
  `RejectedAgentsRecover` is about runs in which Casa's secret settles and, from some
  point on, no discovery stores another one: a Supervisor that announces a stale
  secret again and again undoes each reauthentication, as the code is written.

## The findings

`ws_cancelled` violates the docstring of `_supervise_ws`, "Reconnect a configured
background route until the client closes" (`api.py:450`). The `except
BaseException` block of `_ensure_ws` (`api.py:352-367`) gives up a socket whose
registration failed; it awaits the reader it cancelled (354), the close, and
the write lock. When the task is cancelled there - an utterance whose turn is
abandoned twice, or abandoned just after the send failed - and the reader had
not begun, or was waiting for the write lock in its own `finally`, nobody clears `_ws`.
It stays an open socket that nobody reads. From then on `_ensure_ws` returns it
at once (308), and `_supervise_ws` awaits a finished task and calls
`_ensure_ws`, neither of which suspends: the supervisor never reconnects and
never lets the event loop run again. The passing runs leave this cancellation out
(`CancelCleanup` is FALSE); with it `SocketsAreRead`
fails in the same way, and `ClosedForGood` when the reader did clear `_ws` but the
task is cancelled before it closes the socket, which `close` then cannot find.

`duplicate_entries` violates `README.md:72`, "Manual setup rejects another entry
with the exact host and port." `async_step_user` looks for such an entry
(`config_flow.py:202-205`) and then awaits the catalog; an entry made by hand has no
unique id, so that nothing else stops a second form submitted before
the first has its answer. Both create an entry (`EndpointsAreUnique`). The same
holds for a manual form and a discovery.

## The proofs

All eight proof modules hold for every value of the constants that satisfies the
named assumptions, with no bound on attempts, devices, satellites, tasks or sockets
(`MaxTime`, `MaxGeneration`, `MaxInbox` and `MaxReloads` are arbitrary numbers).

* `PlaybackSlotProofs`: `SlotTypes`, `SlotMutualExclusion`, `SlotMapIsExact`. None of them
  is inductive: a second holder appears when a waiter and a newcomer
  refer to different slot objects. The inductive invariant `SlotInv` says that
  whoever uses a slot uses the mapped one of its device, that mapped slots are
  used, that owners are users, and that a line has each waiter once, a user
  that does not hold the lock. The lemmas on lines say what joining, serving
  and cancelling do to that.
* `DeliveryProofs`: `DeliveryImplementsSlots` says that whatever the managers
  do, the slots see only `SlotNext` steps or none. `SlotInv` thus carries over,
  together with `PhasesHold`: from the wait for idle to the announcement a
  delivery holds the lock. The last step, `DeliverySpeaksOneAtATime`, is
  mutual exclusion at `pc = "playing"`.
* `DeliveryStateProofs`: `DeliveryTypes`, `NoOfferIsStranded`, `DeliveryLeaksNothing`,
  `LostLeaseIsSilent`, `PlaybackIsEntitled`, `DeliveriesNeverDeadlock`. The inductive invariant `StateInv` joins
  `SlotInv`, `PhasesHold` and `DirectoryInv` with the types, with `Clean`
  (slots, events, renewers, authorizations and lost leases belong to deliveries in
  progress) and with `LanesInv`: a queue has each attempt that waits
  once (`QueuesHoldTheQueued`, `QueuesAreOrderly`), and a lane has a worker as long
  as it has an attempt (`WorkersWork`). That a worker may retire with an empty
  queue needs that it has one delivery at a time, that an empty queue means that nobody
  waits, and neither is inductive alone. The steps of a worker are thirteen; the lemma
  `WorkerIsProper` says of each of them what the rest of the proof needs
  (`Proper`), among it that an announcement begins only with a claim.
  `DeliveriesNeverDeadlock` adds `LinesHoldTheWaiting`: who stands in the line of a
  lock is exactly who is suspended in its acquire. So the owner of a lock is past
  the wait, the head of a line without an owner can take the lock, and each offer
  that waits has, on its lane, a delivery in progress or one that its worker can
  start: no wait is circular (`NoWaitIsCircular`).
* `DeliveryHistoryProofs`: `SleepersHearChanges` joins the proof about the directory, that a
  change sets the events held, with the one about the slots: the only deliveries that
  discard events of a device hold its lock, and so does the sleeper.
  `AudioIsNotRepeated` shows that the cache is always the end of the log of
  announcements (`CacheFollowsLog`), and that a delivery that found its job absent from the cache
  stays right, since no other attempt of the job is in progress on the lane.
  `DeliveryKeepsThePromise` is the refinement: `Outcome` lists where each
  step of a worker may lead, and each maps to a step of `Announcements` or to a
  stutter, one lemma for each kind of step. For the order it needs that the attempt in
  progress on a lane is the only one and not in the queue (`OneInProgress`); for the permission
  that a delivery about to report its playback was granted it
  (`AuthorizedWereGranted`), since the worker reads the decision one await after the frame set it.
* `SatelliteDirectoryProofs`: two of the invariants are inductive together with the
  types, `DirectoryInv`. `IdleStretchesAreUnbroken` adds that no busy report lies in
  the future and that a satellite the directory does not know has none
  (`BusyReportsArePast`), since an idle stretch begins now, or earlier only for such
  a satellite (`OneSatelliteStep`). For `DirectoryWakesListeners` the lemma
  `ChangeConcernsListed` reduces a change of what `resolve` says to a change
  of the satellites listed for the device, or of the data of one of them, and `ChangeIsHeard`
  shows that such a step notifies it.
* `WsClientProofs`: `NegotiationStaysCurrent` needs that Casa's answer on a socket
  is final and that a reader waiting for the write lock carries one
  (`NegotiationInv`). `RejectedSecretSticks` needs that whoever is past the
  dial holds `_ws_lock`, and that nobody holds it once the secret was
  rejected (`ConnectInv`). `ClientTypesHold` rests on `TasksInv`, which says of each
  await whether a task there has a socket, of a generation made so far, and a
  frame; `Moved` is what the steps of one task have in common, the
  supervisor that the end of `start_background` starts included. With it
  `JobsAreSentWhereAccepted` follows the frame from the check under the write
  lock to the end of the send.
  The other four assume that no task is cancelled while it gives up a socket
  (`~CancelCleanup`), without which they are false (see *The findings*), and
  `UtterancesAreTold` that no utterance comes before `start_background` is
  done (`~EarlyUse`). `ConnectedStaysWatched` and `HandedOutSocketsAreRead`: the current
  socket has a living reader, or a task is about to give it up (`Watched`).
  `ClosesForGood`: of an open client every open socket is current or about to be given
  up, and what the supervisor or `start_background` gives up is broken already
  (`Owned`), so that when `close` cancels the supervisor no open socket loses
  its owner; of a closed client what is open is the socket `close` found or about
  to be given up (`ClosingInv`). `UtterancesAreTold`: no task makes or gives up the
  socket of an utterance (`ToldInv`), so only its own end, or `close`, can take
  the reader away.
  `ClientNeverDeadlocks` needs no such assumption. `LocksInv`: a lock is held exactly
  by who is between taking it and giving it back in the code, so no failure or
  cancellation leaves one behind. `ReadersInv`: a reader that anybody but the
  supervisor awaits is over or in its `finally`, where it waits for the write
  lock at most, and a supervisor that `close` awaits gives up. Writers wait for the
  network only; so the waits have no circle.
  `ClientKeepsTheConnection` is the refinement of `Connection`. Its invariant is
  `TasksInv`, `ConnectInv`, `LocksInv` and `NegotiationInv` together with `DialInv`:
  who dials does so because there is no socket, and nobody else makes one
  meanwhile. There is a lemma for each part of the client (`ConnectLinks`, `SendLinks`,
  `ReaderLinks`, `RetireLinks`, `CancelLinks`, `CloseLinks`, ...), and `LinkKept` for the
  many steps that the connection does not see. `FramesGoToTheCurrentSocket` uses it: what
  Connection promises of a frame (`FramesStayCurrent`) holds of whoever writes, so no
  socket is replaced, given up or negotiated anew under a write.
* `EntryProofs`: types, `NothingOutlivesItsRuntime`, `RejectionsReachTheUser`,
  `StoredConfigRuns`, `CatalogIsHarmless`, for any set of agents and secrets. The
  inductive invariant `EntryInv` adds what the properties of a loaded entry need of the phases
  before: a WebSocket child in service is open, so its registration tasks
  can be cancelled by closing it (`ChildrenAreOwned`); a runtime that has told the user
  is active (`ReportsAreHandled`); from the moment the children are built, what was
  built is what is stored, or a reload waits, or the change was `missed`
  (`ConfigIsFollowed`). `FlowsInTurnAreUnique` is the other side of the finding
  `duplicate_entries`: if no flow begins while another is under way
  (`~Concurrent`), what the check for duplicates saw still holds at the creation
  (`OneFlowAtATime`). `EntryImplementsFlows` says that the entry with its runtimes and
  reloads takes only steps of `ConfigFlow`.
* `TurnProofs`: `AbandonmentReachesCasa`, `HandoffsStayAgreed`, `AnswersAreWhole`.
  `TurnInv` says that a terminal frame in the queue is what Casa said last
  (`FramesAreCasas`), and ties the await of the turn to what Casa does
  (`StagesAgree`, `ResultsAreTrue`).

Only model-checked: the liveness properties (`EveryOfferEnds`, `Reconnects` and the like), since
what fairness and ENABLED imply is beyond the prover. The two theorems on deadlocks are
what can be proved of them: that whoever waits, waits for something that can go on.
That it does go on is what the runs show. Every invariant and action property of a
passing run is a theorem. `ConnectionRefinement` is proved only; no run has it as a property.

## Not modelled

* Diagnostics, constants, the health request and signatures: no state changes.
* Validation of catalogs, forms and frames: functions without state, which their tests cover.
* The removal of the whole entry: Home Assistant unloads it, as for a reload, and forgets
  it. Nor is the cleaning of its registries when a child is deleted.
* The names that a catalog gives to children, and the titles: data.
* The availability that an entity shows, and the callbacks that tell it: the state they
  show is `state` of `WsClient`.
* The scope of a session and the context payload of an utterance: data.
* Which transition of a satellite is a wake edge (`registration.py`): a `WakeEdge`
  may come whenever the listener is attached.
* A cancellation that arrives while `_async_cleanup_children` awaits the children
  (`__init__.py:246-259`, 169).
* A turn that outlives its runtime and is answered 401 (`conversation.py:184`): it
  starts a reauthentication without asking whether its secret is still the stored
  one, so the user may be asked once more after the new secret was entered.
* Releasing an SSE response that was not read to its end.
* Wall-clock jumps: the code uses `time.time()` for expiry and stability.
* Whether a reoffer of a job that was heard, revoked while it waits, should be
  answered `job_revoked` as it is (`delivery.py:368`): no document says.
* `docs/BACKLOG.md` item 5 (no reconnect loop) predates the supervisor.

## The plan

Done: slots, directory, delivery and its refinement, the WebSocket client and its
refinement, turns, flows and entries; a theorem for every safety property. What is
left, in this order:

1. A composition of `Delivery` with `Connection`: leases that are lost because the
   generation changed, sends that fail because the connection did.
2. An abstract turn, as Home Assistant sees it, and `Turn` shown to implement it.
3. The wake edges of `SessionRegistrationListener`: one registration for one edge.
