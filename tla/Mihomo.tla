------------------------------- MODULE Mihomo -------------------------------
(***************************************************************************)
(* The auxiliary protocol service: internal/auxiliary/mihomo.go, and the   *)
(* policy check that shares its users (applyPolicies in policy.go).  The   *)
(* manager owns one child process, restarts it for every change, and keeps *)
(* the listeners it should serve in mihomo/state.json.  An operation holds *)
(* Manager.mu from its first step to its last; it is cut at every file and *)
(* process operation, each of which may fail.  The child may exit by       *)
(* itself at any time, and ends with the agent.                            *)
(***************************************************************************)
EXTENDS Naturals

CONSTANTS
    Lists,      \* lists of listeners with at least one member
    NoList,     \* the empty list
    Emails,     \* identities of users
    Bridged     \* the users of every list: [Lists -> SUBSET Emails]

ASSUME MihomoAssumption ==
    /\ NoList \notin Lists
    /\ Bridged \in [Lists -> SUBSET Emails]

VARIABLES
    state,      \* mihomo/state.json
    desired,    \* Manager.desired
    proc,       \* the listeners the child serves, or NoList
    mpc,        \* step of the operation in progress
    list,       \* its listeners
    wasRunning, \* apply's wasRunning
    outcome,    \* what the last operation reported
    limited     \* users with an IP limit (policies.json, loaded by New)

service == <<state, desired, proc>>
operation == <<mpc, list, wasRunning, outcome>>
mihomoVars == <<service, operation, limited>>

MihomoSteps == {"idle", "disable", "preflight", "replace", "keep", "recover", "boot", "relaunch"}
Outcomes == {"none", "applied", "failed"}
States == [enabled : BOOLEAN, listeners : Lists \cup {NoList}]

Disabled == [enabled |-> FALSE, listeners |-> NoList]
Enabled(l) == [enabled |-> TRUE, listeners |-> l]

MihomoInit ==
    /\ state = Disabled /\ desired = state
    /\ proc = NoList /\ mpc = "idle" /\ list = NoList /\ wasRunning = FALSE
    /\ outcome = "none" /\ limited = {}

Finish(result) == mpc' = "idle" /\ list' = NoList /\ wasRunning' = FALSE /\ outcome' = result
Continue(step) == mpc' = step /\ UNCHANGED <<list, wasRunning, outcome>>

\* save replaces the file as a whole; memory then follows it.
SaveState(s) == state' = s /\ desired' = s

\* validate: of what it refuses, users with an IP limit (ValidateUser) are what
\* other state can change; a list that is malformed is one preflight fails for.
Validated(l) == Bridged[l] \cap limited = {}

\* New reads the saved state.
MihomoNew ==
    /\ desired' = state /\ proc' = NoList
    /\ Finish("none")
    /\ UNCHANGED <<state, limited>>

-----------------------------------------------------------------------------
(* apply: mihomo.config.apply, mihomo.users.sync, mihomo.start and restart, *)
(* and the auxiliary part of core.config.apply.                             *)

\* Apply, Sync and Activate end in apply.
Apply(l) ==
    /\ mpc = "idle"
    /\ mpc' = IF l = NoList THEN "disable" ELSE "preflight"
    /\ list' = l /\ outcome' = "none"
    /\ UNCHANGED <<service, wasRunning, limited>>

\* Sync replaces the users of one of the listeners there are.
Sync(l) == desired.listeners # NoList /\ l # NoList /\ Apply(l)

Activate == Apply(desired.listeners)

\* No listeners: the state is saved, then the child stopped (lines 469-479).
Disable ==
    /\ mpc = "disable"
    /\ \/ /\ SaveState(Disabled) /\ proc' = NoList
          /\ Finish("applied")
       \/ UNCHANGED service /\ Finish("failed")
    /\ UNCHANGED limited

\* Mutant: preflight does not ask ValidateUser.
PreflightUnchecked ==
    /\ mpc = "preflight"
    /\ Continue("replace") \/ Finish("failed")
    /\ UNCHANGED <<service, limited>>

\* preflight: the executable, the list (ValidateUser refuses users with an IP
\* limit), the candidate configuration and the ports, in any of which it may
\* fail.  The child keeps running.
Preflight ==
    /\ mpc = "preflight"
    /\ \/ Validated(list) /\ Continue("replace")
       \/ Finish("failed")
    /\ UNCHANGED <<service, limited>>

\* Stop the child and launch it with the new list; a launch that fails
\* has stopped what it started (lines 484-496, launch).
Replace ==
    /\ mpc = "replace"
    /\ \/ proc' = list /\ mpc' = "keep"
       \/ proc' = NoList /\ mpc' = "recover"
    /\ wasRunning' = (proc # NoList)
    /\ UNCHANGED <<state, desired, list, outcome, limited>>

\* Mutant: the list is taken over although it could not be saved.
KeepUnsaved ==
    /\ mpc = "keep"
    /\ state' = Enabled(list) \/ UNCHANGED state
    /\ desired' = Enabled(list) /\ Finish("applied")
    /\ UNCHANGED <<proc, limited>>

\* Save what now runs, then adopt it.
Keep ==
    /\ mpc = "keep"
    /\ \/ /\ SaveState(Enabled(list))
          /\ Finish("applied")
       \/ Continue("recover") /\ UNCHANGED <<state, desired>>
    /\ UNCHANGED <<proc, limited>>

\* recover: stop, and launch the previous list again when it was running.
Recover ==
    /\ mpc = "recover"
    /\ \/ proc' = NoList
       \/ wasRunning /\ proc' = desired.listeners
    /\ Finish("failed")
    /\ UNCHANGED <<state, desired, limited>>

-----------------------------------------------------------------------------
(* Start, Stop, the policies, and the child. *)

\* Start: nothing to do, or a preflight of the saved listeners ...
StartService ==
    /\ mpc = "boot"
    /\ \/ proc # NoList /\ Finish("none")
       \/ ~desired.enabled /\ Finish("none")
       \/ /\ proc = NoList /\ desired.enabled
          /\ Validated(desired.listeners)
          /\ Continue("relaunch")
       \/ proc = NoList /\ desired.enabled /\ Finish("failed")
    /\ UNCHANGED <<service, limited>>

\* ... and a launch.
Relaunch ==
    /\ mpc = "relaunch"
    /\ \/ proc' = desired.listeners /\ Finish("applied")
       \/ UNCHANGED proc /\ Finish("failed")
    /\ UNCHANGED <<state, desired, limited>>

\* mihomo.stop keeps the listeners but not their being enabled.
StopService ==
    /\ mpc = "idle"
    /\ \/ /\ SaveState([desired EXCEPT !.enabled = FALSE]) /\ proc' = NoList
          /\ Finish("applied")
       \/ UNCHANGED service /\ Finish("failed")
    /\ UNCHANGED limited

\* BridgeEmails: users of the enabled listeners.
BridgeEmails ==
    IF desired.enabled THEN Bridged[desired.listeners] ELSE {}

\* applyPolicies refuses IP limits for bridged users, then saves and applies.
ApplyPolicies(users) ==
    /\ mpc = "idle"
    /\ users \cap BridgeEmails = {}
    /\ limited' = users
    /\ UNCHANGED <<service, operation>>

\* The child exits by itself; nothing notices until the next operation.
ChildExit ==
    /\ proc # NoList
    /\ proc' = NoList
    /\ UNCHANGED <<state, desired, operation, limited>>

MihomoStep ==
    \/ Disable \/ Preflight \/ Replace \/ Keep \/ Recover \/ StartService \/ Relaunch

=============================================================================
