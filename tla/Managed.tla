------------------------------ MODULE Managed -------------------------------
(***************************************************************************)
(* Runtime as the owner of the core and the auxiliary service:             *)
(* applyManagedConfig in managed_config.go, and Start and Handle in        *)
(* runtime.go.  Runtime.mu is held for a whole command, so the two         *)
(* components never work at the same time; a managed configuration makes   *)
(* one of them follow the other, and a start of the agent starts the core  *)
(* before the service.  The process may end between any two steps, and the *)
(* child may exit during any of them.                                      *)
(***************************************************************************)
EXTENDS Core, Mihomo

VARIABLES
    booting,    \* Runtime.Start has not reached the auxiliary service
    goal,       \* history: listeners of the managed command
    before,     \* history: both saved configurations when it began
    reported    \* history: what it reported

record == <<goal, before, reported>>
managedVars == <<vars, mihomoVars, booting, record>>

ManagedInit ==
    /\ Init /\ MihomoInit
    /\ booting = FALSE
    /\ goal = NoList /\ before = [file |-> NoFile, state |-> Disabled] /\ reported = "none"

Free == pc = "idle" /\ mpc = "idle" /\ ~booting
Forget == goal' = NoList /\ before' = [file |-> NoFile, state |-> Disabled] /\ reported' = "none"

\* New, then Start as far as the core.
NewAgent ==
    /\ New /\ MihomoNew
    /\ booting' = TRUE /\ UNCHANGED record

\* Start goes on to the service when the core has started.
BootService ==
    /\ booting /\ pc = "idle"
    /\ booting' = FALSE
    /\ IF running # NoFile THEN Continue("boot") ELSE UNCHANGED operation
    /\ UNCHANGED <<vars, service, limited, record>>

\* The commands of the core alone.
CoreCommand ==
    /\ Free
    /\ \/ \E c \in Configs : ApplyConfig(c, FALSE) \/ SyncUsers(c)
       \/ StartCommand \/ Stop
    /\ Forget
    /\ UNCHANGED <<mihomoVars, booting>>

\* The commands of the service alone.
ServiceCommand ==
    /\ Free
    /\ \/ \E l \in Lists \cup {NoList} : Apply(l) \/ Sync(l)
       \/ Activate \/ StopService
       \/ \E users \in SUBSET Emails : ApplyPolicies(users)
    /\ Forget
    /\ UNCHANGED <<vars, booting>>

-----------------------------------------------------------------------------
(* core.config.apply with an auxiliary object. *)

ManagedCommand(c) ==
    /\ Free
    /\ ApplyConfig(c, TRUE)
    /\ outcome' = "none"
    /\ goal' = NoList /\ before' = [file |-> file, state |-> state] /\ reported' = "none"
    /\ UNCHANGED <<service, mpc, list, wasRunning, limited, booting>>

\* The core runs the new configuration: apply the listeners.
AuxiliaryApply(l) ==
    /\ pc = "auxiliary" /\ outcome = "none"
    /\ Apply(l)
    /\ goal' = l
    /\ UNCHANGED <<vars, booting, before, reported>>

\* Mutant: a failure of the listeners leaves the new core configuration.
AuxiliaryForgotten ==
    /\ pc = "auxiliary" /\ mpc = "idle" /\ outcome # "none"
    /\ AuxiliaryApplied /\ reported' = "applied"
    /\ UNCHANGED <<mihomoVars, booting, goal, before>>

\* Their outcome decides about the core.
AuxiliaryDone ==
    /\ pc = "auxiliary" /\ mpc = "idle" /\ outcome # "none"
    /\ \/ outcome = "applied" /\ AuxiliaryApplied /\ reported' = "applied"
       \/ outcome = "failed" /\ AuxiliaryFailed
          /\ reported' = IF pc' = "backup" THEN "recovering" ELSE "failed"
    /\ UNCHANGED <<mihomoVars, booting, goal, before>>

\* A step of the core inside a command.  The recovery of a managed command
\* has succeeded when its core started.
CoreStep ==
    /\ \/ Backup \/ Save \/ Close \/ Advance \/ Boot \/ Restore
       \/ Start \/ StartBoot \/ SyncLive \/ SyncSave
    /\ reported' = IF reported # "recovering" THEN reported
                   ELSE IF pc = "boot" /\ pc' = "idle" THEN "rolled_back"
                   ELSE IF pc' \in {"idle", "start"} THEN "failed"
                   ELSE reported
    /\ UNCHANGED <<mihomoVars, booting, goal, before>>

ServiceStep == MihomoStep /\ UNCHANGED <<vars, booting, record>>

ServiceExit == ChildExit /\ UNCHANGED <<vars, booting, record>>

\* The child ends with the agent (ownChild).
CrashAgent ==
    /\ Crash
    /\ proc' = NoList /\ Finish("none")
    /\ booting' = FALSE /\ Forget
    /\ UNCHANGED <<state, desired, limited>>

ManagedNext ==
    \/ NewAgent \/ BootService \/ CoreCommand \/ ServiceCommand
    \/ \E c \in Configs : ManagedCommand(c)
    \/ \E l \in Lists \cup {NoList} : AuxiliaryApply(l)
    \/ AuxiliaryDone \/ CoreStep \/ ServiceStep \/ ServiceExit \/ CrashAgent

ManagedSpec == ManagedInit /\ [][ManagedNext]_managedVars

-----------------------------------------------------------------------------
(* Properties. *)

\* Every variable of the composition has its type.
ManagedTypeOK ==
    /\ TypeOK
    /\ state \in States /\ desired \in States /\ proc \in Lists \cup {NoList}
    /\ mpc \in MihomoSteps /\ list \in Lists \cup {NoList}
    /\ wasRunning \in BOOLEAN /\ outcome \in Outcomes /\ limited \in SUBSET Emails
    /\ booting \in BOOLEAN /\ goal \in Lists \cup {NoList}
    /\ before \in [file : Configs \cup {NoFile}, state : States]
    /\ reported \in Outcomes \cup {"recovering", "rolled_back"}

\* Between operations a running auxiliary child serves exactly the listeners
\* that are saved as enabled: a restart of the agent brings back the same
\* service (apply with recover, Start, Stop).
ServiceIsSaved ==
    mpc = "idle" /\ proc # NoList => desired = Enabled(proc) /\ state = desired

\* README "Agent and controller reject simultaneous-IP limits on these users":
\* at no moment does the child serve a user with an IP limit, which the bridge
\* could not enforce, whether the limit or the listener came first, across
\* recovery and restarts (ValidateUser, applyPolicies, BridgeEmails).
BridgedUnlimited ==
    proc # NoList => Bridged[proc] \cap limited = {}

\* A managed command that reports success leaves both components with its
\* configuration, saved; one that reports that the core was rolled back
\* leaves both as they were (applyManagedConfig).
ManagedTogether ==
    /\ reported = "applied" /\ pc = "idle" =>
         /\ running = last /\ file = last
         /\ state = IF goal = NoList THEN Disabled ELSE Enabled(goal)
    /\ reported = "rolled_back" =>
         /\ running = before.file /\ file = before.file
         /\ state = before.state

=============================================================================
