----------------------------- MODULE EntryProofs -----------------------------
(* Proofs about Entry, for all sets of agents and secrets.                   *)
EXTENDS Entry, TLAPS

Open(r) == client[r] \in {"new", "started"}

\* Registration tasks belong to children that can still be closed, a WebSocket
\* child in service is one of them, and without a runtime there is none.
ChildrenAreOwned ==
  /\ \A r \in tasks : Open(r)
  /\ InService \/ phase = "starting" =>
       \A r \in Roles : built.agents[r] = "ws" => Open(r)
  /\ InService \/ Cleaning \/ phase = "starting" \/ \A r \in Roles : ~Open(r)

\* A runtime that has asked the user is active, and a loaded one with a
\* rejected secret is being helped.
ReportsAreHandled ==
  /\ told => Active
  /\ phase = "loaded" /\ (rejected # {} \/ told) => reauth \/ reloads > 0

\* From the moment the children are built.
ConfigIsFollowed ==
  phase \in {"starting", "forwarding", "loaded"} /\ reloads = 0 /\ ~missed =>
    /\ built.secret = stored.secret
    /\ built.settings = stored.settings
    /\ \A r \in Roles : built.agents[r] \in {stored.children[r], "unadvertised"}

EntryInv ==
  /\ EntryTypeOK
  /\ ChildrenAreOwned
  /\ ReportsAreHandled
  /\ ConfigIsFollowed

Runtimes == [secret : Secrets \cup {None}, settings : {0, 1},
             agents : [Roles -> Transports \cup {None, "unadvertised"}]]

\* What there is without a runtime.
LEMMA EmptyRuntime ==
  /\ NoRuntime \in Runtimes
  /\ \A s \in Secrets, o \in {0, 1} : [secret |-> s, settings |-> o, agents |-> NoAgents] \in Runtimes
  /\ NoAgents \in [Roles -> {None, "new", "started", "closed"}]
  /\ NoAgents \in [Roles -> Transports \cup {None}]
<1>1. /\ NoAgents \in [Roles -> Transports \cup {None, "unadvertised"}]
      /\ NoAgents \in [Roles -> Transports \cup {None}]
      /\ NoAgents \in [Roles -> {None, "new", "started", "closed"}]
  BY DEF NoAgents
<1>2. QED
  BY <1>1 DEF NoRuntime, Runtimes

\* Every step keeps the types.
LEMMA TypesStep ==
  ASSUME EntryTypeOK, [EntryNext]_entryVars
  PROVE  EntryTypeOK'
<1> USE EntryConstants DEF EntryTypeOK, Runtimes, setupVars, haVars, Transports, None
<1>1. CASE SetupAgain
  <2>1. built' \in Runtimes /\ client' \in [Roles -> {None, "new", "started", "closed"}]
    BY <1>1, EmptyRuntime DEF SetupBegins, SetupAgain
  <2>2. reloads' \in 0 .. MaxReloads
    BY <1>1 DEF SetupAgain
  <2>3. QED
    BY <1>1, <2>1, <2>2 DEF SetupBegins, SetupAgain
<1>2. CASE CatalogRefused
  <2>1. built' \in Runtimes
    BY <1>2, EmptyRuntime DEF CatalogRefused
  <2>2. QED
    BY <1>2, <2>1 DEF CatalogRefused
<1>3. CASE CatalogFetched
  <2>1. PICK roles \in SUBSET Roles :
          /\ stored' = [stored EXCEPT !.children = Reconciled(@, roles)]
          /\ \/ Build(Reconciled(stored.children, roles), roles)
             \/ phase' = "failed" /\ built' = NoRuntime /\ UNCHANGED client
    BY <1>3 DEF CatalogFetched
  <2>2. Reconciled(stored.children, roles) \in [Roles -> Transports \cup {None}]
    BY DEF Reconciled
  <2>3. stored' \in [secret : Secrets, settings : {0, 1}, children : [Roles -> Transports \cup {None}]]
    BY <2>1, <2>2
  <2>4. /\ built' \in Runtimes
        /\ client' \in [Roles -> {None, "new", "started", "closed"}]
        /\ phase' \in {"starting", "forwarding", "failed"}
    <3>1. CASE Build(Reconciled(stored.children, roles), roles)
      BY <2>2, <3>1 DEF Build, AfterStarts
    <3>2. QED
      BY <2>1, <3>1, EmptyRuntime
  <2>5. QED
    BY <1>3, <2>3, <2>4 DEF CatalogFetched
<1>4. CASE CatalogUnavailable
  <2>1. /\ built' \in Runtimes
        /\ client' \in [Roles -> {None, "new", "started", "closed"}]
        /\ phase' \in {"starting", "forwarding", "retry"}
    BY <1>4, EmptyRuntime DEF CatalogUnavailable, Build, AfterStarts
  <2>2. QED
    BY <1>4, <2>1 DEF CatalogUnavailable
<1>5. ASSUME NEW r \in Roles, ChildStarted(r) PROVE EntryTypeOK'
  BY <1>5 DEF ChildStarted, AfterStarts
<1>6. ASSUME NEW r \in Roles, ChildRefused(r) PROVE EntryTypeOK'
  <2>1. built' \in Runtimes
    BY <1>6, EmptyRuntime DEF ChildRefused, OutOfService
  <2>2. QED
    BY <1>6, <2>1 DEF ChildRefused, OutOfService
<1>7. CASE SetupFails
  <2>1. built' \in Runtimes
    BY <1>7, EmptyRuntime DEF SetupFails, OutOfService
  <2>2. QED
    BY <1>7, <2>1 DEF SetupFails, OutOfService
<1>8. CASE Forwarded
  BY <1>8 DEF Forwarded, CatchUp
<1>9. CASE UnloadBegins
  <2>1. reloads' \in 0 .. MaxReloads
    BY <1>9 DEF UnloadBegins
  <2>2. QED
    BY <1>9, <2>1 DEF UnloadBegins
<1>10. CASE PlatformsUnloaded
  <2>1. built' \in Runtimes
    BY <1>10, EmptyRuntime DEF PlatformsUnloaded, OutOfService
  <2>2. QED
    BY <1>10, <2>1 DEF PlatformsUnloaded, OutOfService
<1>11. ASSUME NEW r \in Roles, ChildClosed(r) PROVE EntryTypeOK'
  BY <1>11 DEF ChildClosed
<1>12. CASE CleanupEnds
  <2>1. CASE phase = "closing" /\ ~cleanError
    <3>1. built' \in Runtimes /\ client' \in [Roles -> {None, "new", "started", "closed"}]
      BY <1>12, <2>1, EmptyRuntime DEF SetupBegins, CleanupEnds
    <3>2. QED
      BY <1>12, <2>1, <3>1 DEF SetupBegins, CleanupEnds
  <2>2. CASE ~(phase = "closing" /\ ~cleanError)
    BY <1>12, <2>2 DEF CleanupEnds
  <2>3. QED
    BY <2>1, <2>2
<1>13. ASSUME NEW r \in Roles, ConnectionStateChanged(r) PROVE EntryTypeOK'
  <2>1. rejected' \subseteq Roles /\ told' \in BOOLEAN /\ reauth' \in BOOLEAN
    BY <1>13 DEF ConnectionStateChanged
  <2>2. QED
    BY <1>13, <2>1 DEF ConnectionStateChanged
<1>14. ASSUME NEW r \in Roles, TurnRefused(r) PROVE EntryTypeOK'
  BY <1>14 DEF TurnRefused
<1>15. ASSUME NEW r \in Roles, RegistrationDone(r) PROVE EntryTypeOK'
  BY <1>15 DEF RegistrationDone
<1>16. CASE WakeEdge
  BY <1>16 DEF WakeEdge
<1>17. ASSUME NEW f \in Flows, EntryCreated(f) PROVE EntryTypeOK'
  <2>1. \A roles \in SUBSET Roles : Reconciled(NoAgents, roles) \in [Roles -> Transports \cup {None}]
    BY EmptyRuntime DEF Reconciled
  <2>2. stored' \in [secret : Secrets, settings : {0, 1}, children : [Roles -> Transports \cup {None}]]
    BY <1>17, <2>1 DEF EntryCreated
  <2>3. built' \in Runtimes
    BY <1>17, <2>2 DEF EntryCreated
  <2>4. QED
    BY <1>17, <2>2, <2>3 DEF EntryCreated
<1>18. CASE FlowGoesOn
  BY <1>18 DEF FlowGoesOn
<1>19. CASE Edit
  BY <1>19 DEF Edit, NewOptions, Reconfigured, Removed, Changeable, ListenerReloads, Persisted
<1>20. CASE Reauthenticated
  <2>1. reloads' \in 0 .. MaxReloads
    BY <1>20 DEF Reauthenticated, Changeable, ListenerReloads, ExplicitReloads
  <2>2. stored' \in [secret : Secrets, settings : {0, 1}, children : [Roles -> Transports \cup {None}]]
    BY <1>20 DEF Reauthenticated
  <2>3. QED
    BY <1>20, <2>1, <2>2 DEF Reauthenticated
<1>21. CASE Rediscovered
  <2>1. reloads' \in 0 .. MaxReloads
    BY <1>21 DEF Rediscovered, Changeable, ListenerReloads
  <2>2. stored' \in [secret : Secrets, settings : {0, 1}, children : [Roles -> Transports \cup {None}]]
    BY <1>21 DEF Rediscovered
  <2>3. QED
    BY <1>21, <2>1, <2>2 DEF Rediscovered
<1>22. CASE SecretReplaced
  BY <1>22 DEF SecretReplaced
<1>23. CASE UNCHANGED entryVars
  BY <1>23 DEF entryVars
<1>24. QED
  BY <1>1, <1>2, <1>3, <1>4, <1>5, <1>6, <1>7, <1>8, <1>9, <1>10, <1>11, <1>12,
     <1>13, <1>14, <1>15, <1>16, <1>17, <1>18, <1>19, <1>20, <1>21, <1>22, <1>23
  DEF EntryNext, SetupStep, CleanupStep, ChildStep, ChangeStep

\* Every step keeps the tasks with their children.
LEMMA OwnedStep ==
  ASSUME EntryTypeOK, ChildrenAreOwned, [EntryNext]_entryVars
  PROVE  ChildrenAreOwned'
<1> USE EntryConstants DEF EntryTypeOK, ChildrenAreOwned, Open, InService, Cleaning, setupVars, haVars,
     Transports, None, NoAgents, NoRuntime
<1>1. CASE SetupAgain
  BY <1>1 DEF SetupAgain, SetupBegins
<1>2. CASE CatalogRefused
  BY <1>2 DEF CatalogRefused
<1>3. CASE CatalogFetched
  BY <1>3 DEF CatalogFetched, Build, AfterStarts
<1>4. CASE CatalogUnavailable
  BY <1>4 DEF CatalogUnavailable, Build, AfterStarts
<1>5. ASSUME NEW r \in Roles, ChildStarted(r) PROVE ChildrenAreOwned'
  BY <1>5 DEF ChildStarted, AfterStarts, ToStart
<1>6. ASSUME NEW r \in Roles, ChildRefused(r) PROVE ChildrenAreOwned'
  BY <1>6 DEF ChildRefused, OutOfService
<1>7. CASE SetupFails
  BY <1>7 DEF SetupFails, OutOfService
<1>8. CASE Forwarded
  BY <1>8 DEF Forwarded
<1>9. CASE UnloadBegins
  BY <1>9 DEF UnloadBegins
<1>10. CASE PlatformsUnloaded
  BY <1>10 DEF PlatformsUnloaded, OutOfService
<1>11. ASSUME NEW r \in Roles, ChildClosed(r) PROVE ChildrenAreOwned'
  BY <1>11 DEF ChildClosed
<1>12. CASE CleanupEnds
  BY <1>12 DEF CleanupEnds, SetupBegins, EveryChildClosed
<1>13. ASSUME NEW r \in Roles, ConnectionStateChanged(r) PROVE ChildrenAreOwned'
  BY <1>13 DEF ConnectionStateChanged
<1>14. ASSUME NEW r \in Roles, TurnRefused(r) PROVE ChildrenAreOwned'
  BY <1>14 DEF TurnRefused
<1>15. ASSUME NEW r \in Roles, RegistrationDone(r) PROVE ChildrenAreOwned'
  BY <1>15 DEF RegistrationDone
<1>16. CASE WakeEdge
  BY <1>16 DEF WakeEdge
<1>17. ASSUME NEW f \in Flows, EntryCreated(f) PROVE ChildrenAreOwned'
  BY <1>17 DEF EntryCreated
<1>18. CASE FlowGoesOn
  BY <1>18 DEF FlowGoesOn
<1>19. CASE Edit
  BY <1>19 DEF Edit, NewOptions, Reconfigured, Removed
<1>20. CASE Reauthenticated
  BY <1>20 DEF Reauthenticated
<1>21. CASE Rediscovered
  BY <1>21 DEF Rediscovered
<1>22. CASE SecretReplaced
  BY <1>22 DEF SecretReplaced
<1>23. CASE UNCHANGED entryVars
  BY <1>23 DEF entryVars
<1>24. QED
  BY <1>1, <1>2, <1>3, <1>4, <1>5, <1>6, <1>7, <1>8, <1>9, <1>10, <1>11, <1>12,
     <1>13, <1>14, <1>15, <1>16, <1>17, <1>18, <1>19, <1>20, <1>21, <1>22, <1>23
  DEF EntryNext, SetupStep, CleanupStep, ChildStep, ChangeStep

\* Every step keeps the reports handled.
LEMMA ReportsStep ==
  ASSUME EntryTypeOK, ReportsAreHandled, [EntryNext]_entryVars
  PROVE  ReportsAreHandled'
<1> USE EntryConstants DEF EntryTypeOK, ReportsAreHandled, Active, setupVars, haVars
<1>1. CASE SetupAgain
  BY <1>1 DEF SetupAgain, SetupBegins
<1>2. CASE CatalogRefused
  BY <1>2 DEF CatalogRefused
<1>3. CASE CatalogFetched
  BY <1>3 DEF CatalogFetched, Build, AfterStarts
<1>4. CASE CatalogUnavailable
  BY <1>4 DEF CatalogUnavailable, Build, AfterStarts
<1>5. ASSUME NEW r \in Roles, ChildStarted(r) PROVE ReportsAreHandled'
  BY <1>5 DEF ChildStarted, AfterStarts
<1>6. ASSUME NEW r \in Roles, ChildRefused(r) PROVE ReportsAreHandled'
  BY <1>6 DEF ChildRefused, OutOfService
<1>7. CASE SetupFails
  BY <1>7 DEF SetupFails, OutOfService
<1>8. CASE Forwarded
  BY <1>8 DEF Forwarded, CatchUp
<1>9. CASE UnloadBegins
  BY <1>9 DEF UnloadBegins
<1>10. CASE PlatformsUnloaded
  BY <1>10 DEF PlatformsUnloaded, OutOfService
<1>11. ASSUME NEW r \in Roles, ChildClosed(r) PROVE ReportsAreHandled'
  BY <1>11 DEF ChildClosed
<1>12. CASE CleanupEnds
  BY <1>12 DEF CleanupEnds, SetupBegins
<1>13. ASSUME NEW r \in Roles, ConnectionStateChanged(r) PROVE ReportsAreHandled'
  BY <1>13 DEF ConnectionStateChanged
<1>14. ASSUME NEW r \in Roles, TurnRefused(r) PROVE ReportsAreHandled'
  BY <1>14 DEF TurnRefused
<1>15. ASSUME NEW r \in Roles, RegistrationDone(r) PROVE ReportsAreHandled'
  BY <1>15 DEF RegistrationDone
<1>16. CASE WakeEdge
  BY <1>16 DEF WakeEdge
<1>17. ASSUME NEW f \in Flows, EntryCreated(f) PROVE ReportsAreHandled'
  BY <1>17 DEF EntryCreated
<1>18. CASE FlowGoesOn
  BY <1>18 DEF FlowGoesOn
<1>19. CASE Edit
  BY <1>19 DEF Edit, NewOptions, Reconfigured, Removed, ListenerReloads
<1>20. CASE Reauthenticated
  BY <1>20 DEF Reauthenticated, ListenerReloads, ExplicitReloads, Listening
<1>21. CASE Rediscovered
  BY <1>21 DEF Rediscovered, ListenerReloads
<1>22. CASE SecretReplaced
  BY <1>22 DEF SecretReplaced
<1>23. CASE UNCHANGED entryVars
  BY <1>23 DEF entryVars
<1>24. QED
  BY <1>1, <1>2, <1>3, <1>4, <1>5, <1>6, <1>7, <1>8, <1>9, <1>10, <1>11, <1>12,
     <1>13, <1>14, <1>15, <1>16, <1>17, <1>18, <1>19, <1>20, <1>21, <1>22, <1>23
  DEF EntryNext, SetupStep, CleanupStep, ChildStep, ChangeStep

\* Every step keeps what runs and what is stored together.
LEMMA ConfigStep ==
  ASSUME EntryTypeOK, ConfigIsFollowed, [EntryNext]_entryVars
  PROVE  ConfigIsFollowed'
<1> USE EntryConstants DEF EntryTypeOK, ConfigIsFollowed, setupVars, haVars
<1>1. CASE SetupAgain
  BY <1>1 DEF SetupAgain, SetupBegins
<1>2. CASE CatalogRefused
  BY <1>2 DEF CatalogRefused
<1>3. CASE CatalogFetched
  BY <1>3 DEF CatalogFetched, Build, AfterStarts, Reconciled
<1>4. CASE CatalogUnavailable
  BY <1>4 DEF CatalogUnavailable, Build, AfterStarts
<1>5. ASSUME NEW r \in Roles, ChildStarted(r) PROVE ConfigIsFollowed'
  BY <1>5 DEF ChildStarted, AfterStarts
<1>6. ASSUME NEW r \in Roles, ChildRefused(r) PROVE ConfigIsFollowed'
  BY <1>6 DEF ChildRefused, OutOfService
<1>7. CASE SetupFails
  BY <1>7 DEF SetupFails, OutOfService
<1>8. CASE Forwarded
  BY <1>8 DEF Forwarded
<1>9. CASE UnloadBegins
  BY <1>9 DEF UnloadBegins
<1>10. CASE PlatformsUnloaded
  BY <1>10 DEF PlatformsUnloaded, OutOfService
<1>11. ASSUME NEW r \in Roles, ChildClosed(r) PROVE ConfigIsFollowed'
  BY <1>11 DEF ChildClosed
<1>12. CASE CleanupEnds
  BY <1>12 DEF CleanupEnds, SetupBegins
<1>13. ASSUME NEW r \in Roles, ConnectionStateChanged(r) PROVE ConfigIsFollowed'
  BY <1>13 DEF ConnectionStateChanged
<1>14. ASSUME NEW r \in Roles, TurnRefused(r) PROVE ConfigIsFollowed'
  BY <1>14 DEF TurnRefused
<1>15. ASSUME NEW r \in Roles, RegistrationDone(r) PROVE ConfigIsFollowed'
  BY <1>15 DEF RegistrationDone
<1>16. CASE WakeEdge
  BY <1>16 DEF WakeEdge
<1>17. ASSUME NEW f \in Flows, EntryCreated(f) PROVE ConfigIsFollowed'
  BY <1>17 DEF EntryCreated
<1>18. CASE FlowGoesOn
  BY <1>18 DEF FlowGoesOn
<1>19. CASE Edit
  <2>1. CASE phase = "loaded"
    <3>1. reloads' # 0
      BY <1>19, <2>1 DEF Edit, NewOptions, Reconfigured, Removed, ListenerReloads, Listening
    <3>2. QED
      BY <3>1
  <2>2. CASE phase \in {"starting", "forwarding"}
    BY <1>19, <2>2 DEF Edit, NewOptions, Reconfigured, Removed, Listening
  <2>3. CASE phase \notin {"starting", "forwarding", "loaded"}
    BY <1>19, <2>3 DEF Edit, NewOptions, Reconfigured, Removed
  <2>4. QED
    BY <2>1, <2>2, <2>3
<1>20. CASE Reauthenticated
  BY <1>20 DEF Reauthenticated, ListenerReloads, ExplicitReloads, Listening
<1>21. CASE Rediscovered
  BY <1>21 DEF Rediscovered, ListenerReloads
<1>22. CASE SecretReplaced
  BY <1>22 DEF SecretReplaced
<1>23. CASE UNCHANGED entryVars
  BY <1>23 DEF entryVars
<1>24. QED
  BY <1>1, <1>2, <1>3, <1>4, <1>5, <1>6, <1>7, <1>8, <1>9, <1>10, <1>11, <1>12,
     <1>13, <1>14, <1>15, <1>16, <1>17, <1>18, <1>19, <1>20, <1>21, <1>22, <1>23
  DEF EntryNext, SetupStep, CleanupStep, ChildStep, ChangeStep

\* The inductive invariant.
THEOREM EntryInvariant == EntrySafety => []EntryInv
<1>1. EntryInit => EntryInv
  <2> SUFFICES ASSUME EntryInit PROVE EntryInv
    OBVIOUS
  <2>1. EntryTypeOK
    <3>1. built \in Runtimes /\ client \in [Roles -> {None, "new", "started", "closed"}]
      BY EmptyRuntime DEF EntryInit
    <3>2. stored \in [secret : Secrets, settings : {0, 1}, children : [Roles -> Transports \cup {None}]]
      BY EmptyRuntime DEF EntryInit
    <3>3. reloads \in 0 .. MaxReloads
      BY EntryConstants DEF EntryInit
    <3>4. QED
      BY <3>1, <3>2, <3>3 DEF EntryInit, EntryTypeOK, Runtimes, Transports, None
  <2>2. ChildrenAreOwned /\ ReportsAreHandled /\ ConfigIsFollowed
    BY DEF EntryInit, ChildrenAreOwned, ReportsAreHandled, ConfigIsFollowed, Open, InService,
       None, NoAgents
  <2>3. QED
    BY <2>1, <2>2 DEF EntryInv
<1>2. EntryInv /\ [EntryNext]_entryVars => EntryInv'
  BY TypesStep, OwnedStep, ReportsStep, ConfigStep DEF EntryInv
<1>3. QED
  BY <1>1, <1>2, PTL DEF EntrySafety

\* Type correctness.
THEOREM EntryTypes == EntrySafety => []EntryTypeOK
<1>1. EntryInv => EntryTypeOK
  BY DEF EntryInv
<1>2. QED
  BY <1>1, EntryInvariant, PTL

\* Whatever fails to close, nothing of a runtime outlives it.
THEOREM NothingOutlivesItsRuntime == EntrySafety => []NothingSurvives
<1>1. EntryInv => NothingSurvives
  BY DEF EntryInv, EntryTypeOK, ChildrenAreOwned, NothingSurvives, Open
<1>2. QED
  BY <1>1, EntryInvariant, PTL

\* A rejected secret reaches the user, or a reload is on its way.
THEOREM RejectionsReachTheUser == EntrySafety => []RejectedAgentsAreHandled
<1>1. EntryInv => RejectedAgentsAreHandled
  BY DEF EntryInv, ReportsAreHandled, RejectedAgentsAreHandled
<1>2. QED
  BY <1>1, EntryInvariant, PTL

\* What runs is what is stored.
THEOREM StoredConfigRuns == EntrySafety => []RunningConfigIsStored
<1>1. EntryInv => RunningConfigIsStored
  BY DEF EntryInv, ConfigIsFollowed, RunningConfigIsStored
<1>2. QED
  BY <1>1, EntryInvariant, PTL

\* A catalog that is applied, wholly or by half, leaves the children that there
\* were as they were.
THEOREM CatalogIsHarmless == EntrySafety => CatalogKeepsSettings
<1> DEFINE Harmless ==
      phase = "fetching" /\ phase' # "fetching" =>
        \A r \in Persisted : stored'.children[r] = stored.children[r]
<1>1. ASSUME EntryTypeOK, [EntryNext]_entryVars PROVE Harmless
  <2>1. CASE SetupAgain
    BY <1>1, <2>1 DEF SetupAgain
  <2>2. CASE CatalogRefused
    BY <1>1, <2>2 DEF CatalogRefused
  <2>3. CASE CatalogFetched
    BY <1>1, <2>3 DEF CatalogFetched, Reconciled, Persisted, EntryTypeOK
  <2>4. CASE CatalogUnavailable
    BY <1>1, <2>4 DEF CatalogUnavailable, EntryTypeOK
  <2>5. ASSUME NEW r \in Roles, ChildStarted(r) PROVE Harmless
    BY <1>1, <2>5 DEF ChildStarted
  <2>6. ASSUME NEW r \in Roles, ChildRefused(r) PROVE Harmless
    BY <1>1, <2>6 DEF ChildRefused
  <2>7. CASE SetupFails
    BY <1>1, <2>7 DEF SetupFails
  <2>8. CASE Forwarded
    BY <1>1, <2>8 DEF Forwarded
  <2>9. CASE UnloadBegins
    BY <1>1, <2>9 DEF UnloadBegins
  <2>10. CASE PlatformsUnloaded
    BY <1>1, <2>10 DEF PlatformsUnloaded
  <2>11. ASSUME NEW r \in Roles, ChildClosed(r) PROVE Harmless
    BY <1>1, <2>11 DEF ChildClosed
  <2>12. CASE CleanupEnds
    BY <1>1, <2>12 DEF CleanupEnds, Cleaning
  <2>13. ASSUME NEW r \in Roles, ConnectionStateChanged(r) PROVE Harmless
    BY <1>1, <2>13 DEF ConnectionStateChanged
  <2>14. ASSUME NEW r \in Roles, TurnRefused(r) PROVE Harmless
    BY <1>1, <2>14 DEF TurnRefused
  <2>15. ASSUME NEW r \in Roles, RegistrationDone(r) PROVE Harmless
    BY <1>1, <2>15 DEF RegistrationDone
  <2>16. CASE WakeEdge
    BY <1>1, <2>16 DEF WakeEdge
  <2>17. ASSUME NEW f \in Flows, EntryCreated(f) PROVE Harmless
    BY <1>1, <2>17 DEF EntryCreated
  <2>18. CASE FlowGoesOn
    BY <1>1, <2>18 DEF FlowGoesOn
  <2>19. CASE Edit
    BY <1>1, <2>19 DEF Edit, NewOptions, Reconfigured, Removed
  <2>20. CASE Reauthenticated
    BY <1>1, <2>20 DEF Reauthenticated
  <2>21. CASE Rediscovered
    BY <1>1, <2>21 DEF Rediscovered
  <2>22. CASE SecretReplaced
    BY <1>1, <2>22 DEF SecretReplaced
  <2>23. CASE UNCHANGED entryVars
    BY <2>23 DEF entryVars
  <2>24. QED
    BY <1>1, <2>1, <2>2, <2>3, <2>4, <2>5, <2>6, <2>7, <2>8, <2>9, <2>10, <2>11, <2>12,
       <2>13, <2>14, <2>15, <2>16, <2>17, <2>18, <2>19, <2>20, <2>21, <2>22, <2>23
    DEF EntryNext, SetupStep, CleanupStep, ChildStep, ChangeStep
<1>2. QED
  BY <1>1, EntryTypes, PTL DEF EntrySafety, CatalogKeepsSettings

-----------------------------------------------------------------------------
(* The flows that create the entry.                                        *)

Underway(f) == flow[f] \notin {"none", "created"}

\* Flows that are opened one after the other: one at most is under way, none is
\* once there is an entry, and the entry is of a flow that was brought to its end.
OneFlowAtATime ==
  /\ flow \in [Flows -> {"none", "form", "fetching", "sleeping", "created"}]
  /\ entries = {f \in Flows : flow[f] = "created"}
  /\ \A f, g \in Flows :
       Underway(f) => (Underway(g) => f = g) /\ entries = {}
  /\ EndpointsAreUnique

\* Every step of the flows keeps them apart.
LEMMA FlowsStep ==
  ASSUME ~Concurrent, OneFlowAtATime, [FlowNext]_flowVars
  PROVE  OneFlowAtATime'
<1> USE DEF OneFlowAtATime, Underway, EndpointsAreUnique, FlowGoes
<1>1. ASSUME NEW f \in Flows, Submit(f) \/ Discover(f) PROVE OneFlowAtATime'
  <2>1. \A g \in Flows \ {f} : flow[g] \in {"none", "created"}
    BY <1>1 DEF Submit, Discover, MayBegin
  <2>2. flow[f] \in {"none", "form"} /\ UNCHANGED entries
    BY <1>1 DEF Submit, Discover
  <2>3. \E where \in {"none", "form", "fetching"} :
          flow' = [flow EXCEPT ![f] = where] /\ (where = "none" \/ entries = {})
    BY <1>1 DEF Submit, Discover
  <2> QED BY <2>1, <2>2, <2>3
<1>2. ASSUME NEW f \in Flows, Confirm(f) \/ FlowFetchFails(f) \/ Sleep(f)
      PROVE  OneFlowAtATime'
  <2>1. flow[f] \in {"form", "fetching", "sleeping"} /\ UNCHANGED entries
    BY <1>2 DEF Confirm, FlowFetchFails, Sleep
  <2>2. \E where \in {"form", "fetching", "sleeping"} : flow' = [flow EXCEPT ![f] = where]
    BY <1>2 DEF Confirm, FlowFetchFails, Sleep
  <2> QED BY <2>1, <2>2
<1>3. ASSUME NEW f \in Flows, CreateEntry(f) PROVE OneFlowAtATime'
  <2>1. entries = {} /\ \A g \in Flows : flow[g] # "created"
    BY <1>3 DEF CreateEntry
  <2> QED BY <1>3, <2>1 DEF CreateEntry
<1>4. CASE UNCHANGED flowVars
  BY <1>4 DEF flowVars
<1> QED BY <1>1, <1>2, <1>3, <1>4 DEF FlowNext, FlowStep

\* As long as no flow begins while another is under way, one host and port never
\* has two entries: the overlap that the run duplicate_entries shows is the only way.
THEOREM FlowsInTurnAreUnique ==
  ASSUME ~Concurrent
  PROVE  FlowSpec => []EndpointsAreUnique
<1>1. FlowInit => OneFlowAtATime
  BY DEF FlowInit, OneFlowAtATime, Underway, EndpointsAreUnique
<1>2. OneFlowAtATime /\ [FlowNext]_flowVars => OneFlowAtATime'
  BY FlowsStep
<1>3. OneFlowAtATime => EndpointsAreUnique
  BY DEF OneFlowAtATime
<1> QED BY <1>1, <1>2, <1>3, PTL DEF FlowSpec

\* The entry's life cycle, set-up by set-up and change by change, does to the flows
\* what ConfigFlow prescribes.
THEOREM EntryImplementsFlows == EntrySafety => FlowSpec
<1>1. EntryInit => FlowInit
  BY DEF EntryInit
<1>2. ASSUME [EntryNext]_entryVars PROVE [FlowNext]_flowVars
  <2>1. CASE \E f \in Flows : EntryCreated(f)
    BY <2>1 DEF EntryCreated, FlowNext
  <2>2. CASE FlowGoesOn
    BY <2>2 DEF FlowGoesOn, FlowNext
  <2>3. CASE SetupStep
    BY <2>3 DEF SetupStep, SetupAgain, CatalogRefused, CatalogFetched, CatalogUnavailable,
         ChildStarted, ChildRefused, SetupFails, Forwarded
  <2>4. CASE CleanupStep
    BY <2>4 DEF CleanupStep, UnloadBegins, PlatformsUnloaded, ChildClosed, CleanupEnds
  <2>5. CASE ChildStep
    BY <2>5 DEF ChildStep, ConnectionStateChanged, TurnRefused, RegistrationDone, WakeEdge
  <2>6. CASE Edit \/ Reauthenticated \/ Rediscovered \/ SecretReplaced
    BY <2>6 DEF Edit, Reauthenticated, Rediscovered, SecretReplaced
  <2>7. CASE UNCHANGED entryVars
    BY <2>7 DEF entryVars, flowVars
  <2> QED BY <1>2, <2>1, <2>2, <2>3, <2>4, <2>5, <2>6, <2>7 DEF EntryNext, ChangeStep
<1> QED BY <1>1, <1>2, PTL DEF EntrySafety, FlowSpec

=============================================================================
