------------------------------ MODULE ConfigFlow ------------------------------
(***************************************************************************)
(* CasaConfigFlow (config_flow.py): the two ways to a new parent entry.    *)
(* The user fills in a form, or Supervisor announces Casa and the user     *)
(* confirms; both fetch the catalog before they create the entry.  All     *)
(* flows here name the same host and port.                                 *)
(***************************************************************************)
EXTENDS Naturals

CONSTANTS
  Manual,      \* flows that the user opens
  Discovered,  \* flows that Supervisor opens
  Concurrent   \* whether a flow may begin while another is open

ASSUME FlowConstants == Manual \cap Discovered = {} /\ Concurrent \in BOOLEAN

Flows == Manual \cup Discovered

VARIABLES
  flow,       \* "none" (not open), "form", "fetching", "sleeping" or "created"
  attempts,   \* the fetches of a confirmation
  entries     \* the flows that created a parent entry

flowVars == <<flow, attempts, entries>>

FlowInit ==
  /\ flow = [f \in Flows |-> "none"]
  /\ attempts = [f \in Flows |-> 0]
  /\ entries = {}

FlowGoes(f, where) == flow' = [flow EXCEPT ![f] = where]

MayBegin(f) ==
  Concurrent \/ \A g \in Flows \ {f} : flow[g] \in {"none", "created"}

\* async_step_user with input: an entry with this host and port aborts it.
Submit(f) ==
  /\ f \in Manual
  /\ flow[f] \in {"none", "form"}
  /\ MayBegin(f)
  /\ FlowGoes(f, IF entries = {} THEN "fetching" ELSE "none")
  /\ UNCHANGED <<attempts, entries>>

\* async_step_hassio of an installation that has no entry under its UUID.
Discover(f) ==
  /\ f \in Discovered
  /\ flow[f] = "none"
  /\ MayBegin(f)
  /\ entries \cap Discovered = {}
  /\ FlowGoes(f, IF entries = {} THEN "form" ELSE "none")
  /\ UNCHANGED <<attempts, entries>>

\* async_step_hassio_confirm with input.
Confirm(f) ==
  /\ f \in Discovered
  /\ flow[f] = "form"
  /\ FlowGoes(f, "fetching")
  /\ attempts' = [attempts EXCEPT ![f] = 1]
  /\ UNCHANGED entries

\* A confirmation that cannot connect tries three times; everything else is
\* shown on the form.
FlowFetchFails(f) ==
  /\ flow[f] = "fetching"
  /\ \/ FlowGoes(f, "form")
     \/ f \in Discovered /\ attempts[f] < 3 /\ FlowGoes(f, "sleeping")
  /\ UNCHANGED <<attempts, entries>>

Sleep(f) ==
  /\ flow[f] = "sleeping"
  /\ FlowGoes(f, "fetching")
  /\ attempts' = [attempts EXCEPT ![f] = @ + 1]
  /\ UNCHANGED entries

CreateEntry(f) ==
  /\ flow[f] = "fetching"
  /\ FlowGoes(f, "created")
  /\ entries' = entries \cup {f}
  /\ attempts' = [attempts EXCEPT ![f] = 0]

FlowStep(f) ==
  Submit(f) \/ Discover(f) \/ Confirm(f) \/ FlowFetchFails(f) \/ Sleep(f)

FlowNext == \E f \in Flows : FlowStep(f) \/ CreateEntry(f)

FlowSpec == FlowInit /\ [][FlowNext]_flowVars

-----------------------------------------------------------------------------
(* Properties.                                                             *)

\* No host and port has two parent entries, however the flows to create them
\* overlap.
EndpointsAreUnique == \A f, g \in entries : f = g

=============================================================================
