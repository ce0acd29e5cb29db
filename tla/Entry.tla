-------------------------------- MODULE Entry --------------------------------
(***************************************************************************)
(* The life of a Casa parent entry (__init__.py), its children and the     *)
(* flows that change it (config_flow.py, ConfigFlow).  Home Assistant      *)
(* (external) sets an entry up, retries, reloads and unloads it under one  *)
(* lock, and keeps at most one reauthentication flow open for it.          *)
(*                                                                         *)
(* phase:                                                                  *)
(*   absent      no entry yet             fetching   awaits the catalog    *)
(*   starting    awaits start_background  forwarding awaits the platforms  *)
(*   loaded      set up                   unloading  awaits the platforms  *)
(*   closing     async_unload_entry closes the children                    *)
(*   undoing, undoingAuth   a failed set-up closes them                    *)
(*   failed, authFailed, retry   as Home Assistant records the failure     *)
(*   refused     the platforms did not unload: the runtime stays           *)
(*   stuck       the unload has raised: not loaded, not recoverable        *)
(***************************************************************************)
EXTENDS ConfigFlow

CONSTANTS
  Roles,       \* the agents Casa may advertise
  Secrets,     \* the webhook secrets
  MaxReloads   \* bound: reloads that wait at the same time

ASSUME EntryConstants == MaxReloads \in Nat

Transports == {"ws", "sse"}

VARIABLES
  casaSecret,  \* the secret Casa accepts
  stored,      \* the config entry: secret, settings (a version of host, port and
               \* overrides), and children by role
  phase,       \* see above
  built,       \* what the runtime was built from; agents by role (until the
               \* catalog is there, the children that were persisted)
  client,      \* the client and manager of each child
  rejected,    \* the children with AUTH_FAILED, while that can be told
  tasks,       \* the children that have a registration task
  told,        \* reauth_started of this runtime
  cleanError,  \* whether the listener or a child failed to close
  reauth,      \* whether a reauthentication flow is open
  reloads,     \* reloads that wait for the entry's lock
  missed       \* history: a change of what this runtime was built from that no
               \* update listener heard, until its unload begins

setupVars == <<built, client, rejected, tasks, told, cleanError>>
haVars == <<reauth, reloads>>
entryVars == <<flowVars, casaSecret, stored, phase, setupVars, haVars, missed>>

None == "none"
NoAgents == [r \in Roles |-> None]
NoRuntime == [secret |-> None, settings |-> 0, agents |-> NoAgents]

EntryInit ==
  /\ FlowInit
  /\ casaSecret \in Secrets
  /\ stored = [secret |-> casaSecret, settings |-> 0, children |-> NoAgents]
  /\ phase = "absent"
  /\ built = NoRuntime
  /\ client = NoAgents
  /\ rejected = {}
  /\ tasks = {}
  /\ told = FALSE
  /\ cleanError = FALSE
  /\ reauth = FALSE
  /\ reloads = 0
  /\ missed = FALSE

-----------------------------------------------------------------------------
(* The catalog.                                                            *)

\* Defect: a child that is not advertised is marked so in the entry.
MarksUnadvertised(children, roles) ==
  [r \in Roles |-> IF r \in roles THEN "ws" ELSE "unadvertised"]

\* Defect: a child that is advertised again gets the defaults again.
ResetsSettings(children, roles) ==
  [r \in Roles |-> IF r \in roles THEN "ws" ELSE children[r]]

\* reconcile_catalog: a role that is new gets a child with the defaults; the
\* others keep their settings, and those not advertised stay.
Reconciled(children, roles) ==
  [r \in Roles |-> IF r \in roles /\ children[r] = None THEN "ws" ELSE children[r]]

Persisted == {r \in Roles : stored.children[r] # None}

-----------------------------------------------------------------------------
(* Set-up.                                                                 *)

\* runtime_data is this runtime, and the listener is attached.
InService == phase \in {"forwarding", "loaded", "unloading", "refused"}

\* runtime_active as well.
Active == phase \in {"loaded", "unloading", "refused"}

\* The children are being closed.
Cleaning == phase \in {"closing", "undoing", "undoingAuth"}

\* The update listener is registered.
Listening == phase \in {"loaded", "unloading", "refused", "closing", "stuck"}

\* Home Assistant calls async_setup_entry, which notes the children that are
\* persisted and sends the stored secret.
SetupBegins ==
  /\ phase' = "fetching"
  /\ built' = [secret |-> stored.secret, settings |-> stored.settings, agents |-> stored.children]
  /\ client' = NoAgents
  /\ rejected' = {}
  /\ tasks' = {}
  /\ told' = FALSE
  /\ cleanError' = FALSE
  /\ missed' = FALSE

SetupAgain ==
  /\ \/ phase = "retry" /\ UNCHANGED reloads
     \/ phase \in {"failed", "authFailed", "retry"} /\ reloads > 0 /\ reloads' = reloads - 1
  /\ SetupBegins
  /\ UNCHANGED <<flowVars, casaSecret, stored, reauth>>

EntryCreated(f) ==
  /\ phase = "absent"
  /\ CreateEntry(f)
  /\ \E roles \in SUBSET Roles :
       stored' = [secret |-> casaSecret, settings |-> 0, children |-> Reconciled(NoAgents, roles)]
  /\ phase' = "fetching"
  /\ built' = [secret |-> casaSecret, settings |-> 0, agents |-> stored'.children]
  /\ UNCHANGED <<casaSecret, client, rejected, tasks, told, cleanError, haVars, missed>>

\* 401 for the secret that was sent.
CatalogRefused ==
  /\ phase = "fetching"
  /\ built.secret # casaSecret
  /\ phase' = "authFailed"
  /\ built' = NoRuntime
  /\ reauth' = TRUE
  /\ UNCHANGED <<flowVars, casaSecret, stored, client, rejected, tasks, told, cleanError, reloads,
                 missed>>

\* The children that have yet to be started, of a runtime b and clients c.
ToStart(b, c) == {r \in Roles : b.agents[r] = "ws" /\ c[r] = "new"}

\* What follows the last start, without an await: the listener is attached and
\* the runtime put in service.
AfterStarts(b, c) == IF ToStart(b, c) = {} THEN "forwarding" ELSE "starting"

\* The children are built from what is stored now; one that is not advertised
\* gets no client.
Build(children, roles) ==
  LET b == [secret |-> stored.secret, settings |-> stored.settings,
            agents |-> [r \in Roles |-> IF r \in roles \/ children[r] = None
                                        THEN children[r] ELSE "unadvertised"]]
      c == [r \in Roles |-> IF b.agents[r] \in Transports THEN "new" ELSE None]
  IN
  /\ built' = b
  /\ client' = c
  /\ phase' = AfterStarts(b, c)

\* The catalog is fetched.  If Home Assistant refuses a change, the children
\* that were handled before keep theirs, and the set-up fails.
CatalogFetched ==
  /\ phase = "fetching"
  /\ built.secret = casaSecret
  /\ \E roles \in SUBSET Roles :
       \/ /\ stored' = [stored EXCEPT !.children = Reconciled(@, roles)]
          /\ Build(Reconciled(stored.children, roles), roles)
       \/ /\ stored' = [stored EXCEPT !.children = Reconciled(@, roles)]
          /\ phase' = "failed"
          /\ built' = NoRuntime
          /\ UNCHANGED client
  /\ UNCHANGED <<flowVars, casaSecret, rejected, tasks, told, cleanError, haVars, missed>>

\* Without a catalog the children that were known before the request are taken
\* for advertised, and those there are now used as they are.
CatalogUnavailable ==
  /\ phase = "fetching"
  /\ LET known == {r \in Roles : built.agents[r] # None} IN
     IF known = {} THEN phase' = "retry" /\ built' = NoRuntime /\ UNCHANGED client
                   ELSE Build(stored.children, known)
  /\ UNCHANGED <<flowVars, casaSecret, stored, rejected, tasks, told, cleanError, haVars, missed>>

\* start_background returns, connected or deferred.
ChildStarted(r) ==
  /\ phase = "starting"
  /\ r \in ToStart(built, client)
  /\ client' = [client EXCEPT ![r] = "started"]
  /\ phase' = AfterStarts(built, client')
  /\ UNCHANGED <<flowVars, casaSecret, stored, built, rejected, tasks, told, cleanError, haVars,
                 missed>>

\* runtime_data is None: what the children report is not heard any more.
OutOfService ==
  /\ built' = NoRuntime
  /\ rejected' = {}
  /\ told' = FALSE
  /\ missed' = FALSE

\* start_background raises AuthenticationError.
ChildRefused(r) ==
  /\ phase = "starting"
  /\ r \in ToStart(built, client)
  /\ built.secret # casaSecret
  /\ phase' = "undoingAuth"
  /\ OutOfService
  /\ UNCHANGED <<flowVars, casaSecret, stored, client, tasks, cleanError, haVars>>

\* Any other exception, or a cancellation, at one of the awaits.
SetupFails ==
  /\ phase \in {"starting", "forwarding"}
  /\ phase' = "undoing"
  /\ OutOfService
  /\ UNCHANGED <<flowVars, casaSecret, stored, client, tasks, cleanError, haVars>>

\* Defect: what children reported before the runtime was active is forgotten.
ForgetsEarlyReports == UNCHANGED <<told, reauth>>

\* A child whose secret was rejected before starts the reauthentication.
CatchUp ==
  IF rejected # {}
  THEN told' = TRUE /\ reauth' = TRUE
  ELSE UNCHANGED <<told, reauth>>

\* The platforms are set up, and the update listener is added.
Forwarded ==
  /\ phase = "forwarding"
  /\ phase' = "loaded"
  /\ CatchUp
  /\ UNCHANGED <<flowVars, casaSecret, stored, built, client, rejected, tasks, cleanError, reloads,
                 missed>>

-----------------------------------------------------------------------------
(* What the children do.                                                   *)

\* connection_state_changed with AUTH_FAILED, called by the supervisor of a
\* child that was started.  The other states only tell the entity.
ConnectionStateChanged(r) ==
  /\ client[r] = "started"
  /\ ~Cleaning
  /\ built.secret # casaSecret
  /\ r \notin rejected
  /\ rejected' = rejected \cup {r}
  /\ IF Active /\ ~told THEN told' = TRUE /\ reauth' = TRUE
                         ELSE UNCHANGED <<told, reauth>>
  /\ UNCHANGED <<flowVars, casaSecret, stored, phase, built, client, tasks, cleanError, reloads,
                 missed>>

\* A turn of the agent is answered 401.  Bound: before its runtime is unloaded.
TurnRefused(r) ==
  /\ InService
  /\ client[r] \in {"new", "started"}
  /\ built.secret # casaSecret \/ r \in rejected
  /\ reauth' = TRUE
  /\ UNCHANGED <<flowVars, casaSecret, stored, phase, setupVars, reloads, missed>>

\* A satellite starts to listen: every present WebSocket child registers it.
WakeEdge ==
  /\ InService
  /\ tasks' = tasks \cup {r \in Roles : built.agents[r] = "ws"}
  /\ UNCHANGED <<flowVars, casaSecret, stored, phase, built, client, rejected, told, cleanError,
                 haVars, missed>>

RegistrationDone(r) ==
  /\ r \in tasks
  /\ tasks' = tasks \ {r}
  /\ UNCHANGED <<flowVars, casaSecret, stored, phase, built, client, rejected, told, cleanError,
                 haVars, missed>>

-----------------------------------------------------------------------------
(* Unload and rollback.                                                    *)

UnloadBegins ==
  /\ phase = "loaded"
  /\ reloads > 0
  /\ reloads' = reloads - 1
  /\ phase' = "unloading"
  /\ missed' = FALSE
  /\ UNCHANGED <<flowVars, casaSecret, stored, setupVars, reauth>>

\* Whether or not the platforms were unloaded.  If they were, the runtime goes
\* out of service, and the listener is detached, which may raise.
PlatformsUnloaded ==
  /\ phase = "unloading"
  /\ \/ phase' = "closing" /\ OutOfService /\ cleanError' \in BOOLEAN
     \/ phase' = "refused" /\ UNCHANGED <<built, rejected, told, cleanError, missed>>
  /\ UNCHANGED <<flowVars, casaSecret, stored, client, tasks, haVars>>

\* async_close of one child; its manager or client may raise.
ChildClosed(r) ==
  /\ Cleaning
  /\ client[r] \in {"new", "started"}
  /\ client' = [client EXCEPT ![r] = "closed"]
  /\ tasks' = tasks \ {r}
  /\ \E raises \in BOOLEAN : cleanError' = (cleanError \/ raises)
  /\ UNCHANGED <<flowVars, casaSecret, stored, phase, built, rejected, told, haVars, missed>>

\* Defect: the first child that fails to close ends the cleanup.
StopsAtFirstError == cleanError \/ \A r \in Roles : client[r] \in {None, "closed"}

EveryChildClosed == \A r \in Roles : client[r] \in {None, "closed"}

\* The first error is raised when every child was closed; a rollback raises its
\* own.
CleanupEnds ==
  /\ Cleaning
  /\ EveryChildClosed
  /\ \/ /\ phase = "closing"
        /\ ~cleanError
        /\ SetupBegins
        /\ UNCHANGED reauth
     \/ /\ phase = "closing"
        /\ cleanError
        /\ phase' = "stuck"
        /\ UNCHANGED <<setupVars, missed, reauth>>
     \/ /\ phase = "undoing"
        /\ phase' = "failed"
        /\ UNCHANGED <<setupVars, missed, reauth>>
     \/ /\ phase = "undoingAuth"
        /\ phase' = "authFailed"
        /\ reauth' = TRUE
        /\ UNCHANGED <<setupVars, missed>>
  /\ UNCHANGED <<flowVars, casaSecret, stored, reloads>>

-----------------------------------------------------------------------------
(* What changes the entry.                                                 *)

\* Bounds: few reloads wait at once, and what cannot be reloaded is left alone.
Changeable ==
  /\ phase \notin {"absent", "refused", "stuck"}
  /\ reloads < MaxReloads

\* The update listener reloads the entry after a change.
ListenerReloads == IF Listening THEN 1 ELSE 0

\* CasaOptionsFlow stores other overrides.
NewOptions == stored' = [stored EXCEPT !.settings = 1 - @]

\* CasaAgentSubentryFlow stores another transport for a child.
Reconfigured ==
  \E r \in Persisted, t \in Transports :
    t # stored.children[r] /\ stored' = [stored EXCEPT !.children[r] = t]

\* The user deletes a child; a catalog that advertises it brings it back.  Bound:
\* while the entry is loaded or awaits its catalog; at other times the deletion is
\* found by the next set-up, or missed as any other change.
Removed ==
  /\ phase \in {"fetching", "loaded"}
  /\ \E r \in Persisted : stored' = [stored EXCEPT !.children[r] = None]

\* A change by a form that leaves the reload to the update listener.
Edit ==
  /\ Changeable
  /\ NewOptions \/ Reconfigured \/ Removed
  /\ reloads' = reloads + ListenerReloads
  /\ missed' = (missed \/ (~Listening /\ phase \in {"starting", "forwarding"}))
  /\ UNCHANGED <<flowVars, casaSecret, phase, setupVars, reauth>>

\* Defect: the update listener is relied on while there is none.
ReliesOnListener == IF stored.secret = casaSecret THEN 1 ELSE 0

\* Whether the reauthentication reloads explicitly: no listener would, or none
\* will since nothing changes.
ExplicitReloads == IF ~Listening \/ stored.secret = casaSecret THEN 1 ELSE 0

\* async_step_reauth_confirm: the new secret is verified with Casa, and stored.
Reauthenticated ==
  /\ Changeable
  /\ reauth
  /\ reauth' = FALSE
  /\ stored' = [stored EXCEPT !.secret = casaSecret]
  /\ reloads' = reloads + ExplicitReloads
                  + (IF stored.secret # casaSecret THEN ListenerReloads ELSE 0)
  /\ UNCHANGED <<flowVars, casaSecret, phase, setupVars, missed>>

\* async_step_hassio for an entry with this UUID: the host, port and secret that
\* are announced, stale or not, are stored without asking Casa, and the entry is
\* reloaded, once more if the update listener hears of a change.
Rediscovered ==
  /\ Changeable
  /\ entries \cap Discovered # {}
  /\ \E s \in Secrets, v \in {0, 1} :
       stored' = [stored EXCEPT !.secret = s, !.settings = v]
  /\ reloads' = reloads + 1 + (IF stored' # stored THEN ListenerReloads ELSE 0)
  /\ reloads' <= MaxReloads
  /\ UNCHANGED <<flowVars, casaSecret, phase, setupVars, reauth, missed>>

\* Casa gets another secret.
SecretReplaced ==
  /\ casaSecret' \in Secrets \ {casaSecret}
  /\ UNCHANGED <<flowVars, stored, phase, setupVars, haVars, missed>>

FlowGoesOn ==
  /\ \E f \in Flows : FlowStep(f)
  /\ UNCHANGED <<casaSecret, stored, phase, setupVars, haVars, missed>>

-----------------------------------------------------------------------------
(* The specification.                                                      *)

SetupStep ==
  \/ SetupAgain
  \/ CatalogRefused \/ CatalogFetched \/ CatalogUnavailable
  \/ \E r \in Roles : ChildStarted(r) \/ ChildRefused(r)
  \/ SetupFails
  \/ Forwarded

CleanupStep ==
  \/ UnloadBegins
  \/ PlatformsUnloaded
  \/ \E r \in Roles : ChildClosed(r)
  \/ CleanupEnds

ChildStep ==
  \/ \E r \in Roles : ConnectionStateChanged(r) \/ TurnRefused(r) \/ RegistrationDone(r)
  \/ WakeEdge

ChangeStep ==
  \/ \E f \in Flows : EntryCreated(f)
  \/ FlowGoesOn
  \/ Edit
  \/ Reauthenticated
  \/ Rediscovered
  \/ SecretReplaced

EntryNext == SetupStep \/ CleanupStep \/ ChildStep \/ ChangeStep

EntrySafety == EntryInit /\ [][EntryNext]_entryVars

\* Home Assistant goes on with what it has begun, Casa answers one of the
\* catalog requests that are made again and again, and the user answers the
\* reauthentication flow.
EntrySpec ==
  /\ EntrySafety
  /\ WF_entryVars(SetupStep)
  /\ SF_entryVars(CatalogFetched \/ CatalogRefused)
  /\ WF_entryVars(CleanupStep)
  /\ SF_entryVars(Reauthenticated)

-----------------------------------------------------------------------------
(* Properties.                                                             *)

\* The type invariant.
EntryTypeOK ==
  /\ casaSecret \in Secrets
  /\ stored \in [secret : Secrets, settings : {0, 1}, children : [Roles -> Transports \cup {None}]]
  /\ phase \in {"absent", "fetching", "starting", "forwarding", "loaded", "unloading", "closing",
                "undoing", "undoingAuth", "failed", "authFailed", "retry", "refused", "stuck"}
  /\ built \in [secret : Secrets \cup {None}, settings : {0, 1},
                agents : [Roles -> Transports \cup {None, "unadvertised"}]]
  /\ client \in [Roles -> {None, "new", "started", "closed"}]
  /\ rejected \subseteq Roles
  /\ tasks \subseteq Roles
  /\ told \in BOOLEAN
  /\ cleanError \in BOOLEAN
  /\ reauth \in BOOLEAN
  /\ reloads \in 0 .. MaxReloads
  /\ missed \in BOOLEAN

\* Once a set-up has failed or an unload is over, whichever child failed to
\* close, every client and manager that was built is closed and no registration
\* task is left.
NothingSurvives ==
  InService \/ Cleaning \/ phase = "starting" \/
    (tasks = {} /\ \A r \in Roles : client[r] \notin {"new", "started"})

\* A loaded entry with an agent whose secret was rejected - even one that said
\* so while the entry was being set up - asks the user, or is about to reload.
RejectedAgentsAreHandled ==
  phase = "loaded" /\ rejected # {} => reauth \/ reloads > 0

\* What a loaded entry runs with is what is stored, unless a reload is on its
\* way.  A change made while the entry was being set up is the exception: the
\* update listener is added last.
RunningConfigIsStored ==
  phase = "loaded" /\ reloads = 0 /\ ~missed =>
    /\ built.secret = stored.secret
    /\ built.settings = stored.settings
    /\ \A r \in Roles : built.agents[r] \in {stored.children[r], "unadvertised"}

\* A catalog neither removes a child nor touches its settings, and one that was
\* applied by half does no harm.
CatalogKeepsSettings ==
  [][phase = "fetching" /\ phase' # "fetching" =>
       \A r \in Persisted : stored'.children[r] = stored.children[r]]_entryVars

\* An agent whose secret was rejected does not stay so: once Casa's secret has
\* settled and no stale one is announced any more, the entry comes back without
\* a rejected agent, unless Home Assistant gave it up.
RejectedAgentsRecover ==
  \A s \in Secrets :
    <>[](casaSecret = s) /\ <>[][stored'.secret \in {stored.secret, s}]_entryVars =>
      []<>(\/ phase \in {"absent", "failed", "refused", "stuck"}
           \/ phase = "loaded" /\ rejected = {})

=============================================================================
