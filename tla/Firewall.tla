------------------------------ MODULE Firewall ------------------------------
(***************************************************************************)
(* Managed port allowlists: internal/runtime/firewall.go and               *)
(* firewall_persistence.go, with the parts of the core's life cycle that   *)
(* wait for them.  Handlers run one at a time under Runtime.mu; each is    *)
(* cut into its file and kernel operations so that a crash, a power loss   *)
(* or a failed operation can fall between any two.                         *)
(*                                                                         *)
(* A policy is a revision and the listener binding of every port it        *)
(* protects (which sources a rule allows is left out: two rule sets that   *)
(* differ protect different ports).  The kernel table is the set of ports  *)
(* it restricts, {} when there is no table.  Every nft call may fail; a    *)
(* failed batch may have been applied all the same (the call timed out).   *)
(* A file entry is what the process sees plus the set of values a power    *)
(* loss may leave: a rename or unlink adds one, a directory sync that      *)
(* succeeds leaves only the visible one.                                   *)
(***************************************************************************)
EXTENDS Naturals

CONSTANTS
    Ports,     \* ports the core, the allowlist or the management may use
    Binds,     \* eligible public listeners: tag, kind, address
    NoBind,    \* the configuration has no eligible listener on the port
    MaxRev,    \* bound on the revisions a controller sends
    None,      \* no saved policy; no such file
    Foreign    \* a table of that name without this installation's mark

ASSUME FirewallAssumption ==
    /\ NoBind \notin Binds
    /\ MaxRev \in Nat
    /\ \A S \in SUBSET Ports : S # Foreign

Configs == [Ports -> Binds \cup {NoBind}]
Policies == [rev : 1..MaxRev, bind : Configs]

ASSUME NoneAssumption == None \notin Policies

VARIABLES
    committed, pending,  \* firewall.json and firewall-pending.json as seen
    mayC, mayP,          \* what a power loss may leave of them
    kernel,              \* the live table
    ready,               \* Runtime.firewallReady
    running,             \* Runtime.instance is not nil
    config,              \* the core configuration file
    mgmt, reserved,      \* management port; ports kept for it until restart
    pc, op,              \* step and kind of the handler in progress
    next, old, goal,     \* its new policy, the one it found, the one to commit
    acked,               \* history: the last policy reported as applied
    tampered             \* history: the table was changed from outside

files == <<committed, pending, mayC, mayP>>
core == <<running, config>>
management == <<mgmt, reserved>>
handler == <<pc, op, next, old, goal>>
history == <<acked, tampered>>
vars == <<files, kernel, ready, core, management, handler, history>>

Steps == {"idle", "journal", "journal_sync", "batch", "verify", "commit",
          "commit_sync", "unjournal", "unjournal_sync", "listeners"}
Ops == {"none", "apply", "rollback", "ensure", "resave"}

\* The ports a saved policy restricts; none without one.
Protected(policy) ==
    IF policy = None THEN {} ELSE {p \in Ports : policy.bind[p] # NoBind}

\* readFirewallState: the journal of an unfinished update goes first.
Effective(c, p) == IF p # None THEN p ELSE c
State == Effective(committed, pending)

\* firewallTargets without the ports kept for the management listener.
Targets(cfg) == {p \in Ports : cfg[p] # NoBind} \ ({mgmt} \cup reserved)

\* validateFirewallConfig: every protected listener is still bound as saved.
ValidConfig(policy, cfg) ==
    \A p \in Protected(policy) : p \in Targets(cfg) /\ cfg[p] = policy.bind[p]

\* firewallMatches and checkFirewallOwnership.
Matches(policy) == kernel = Protected(policy)

\* Mutant: any table counts as owned once a policy was saved.
OwnedUnmarked(policy) == kernel # {} => policy # None

Owned(policy) == kernel # Foreign /\ (kernel # {} => policy # None)

Init ==
    /\ committed = None /\ pending = None /\ mayC = {None} /\ mayP = {None}
    /\ kernel = {}
    /\ ready = FALSE /\ running = FALSE
    /\ config \in Configs
    /\ mgmt \in Ports /\ reserved = {}
    /\ pc = "idle" /\ op = "none" /\ next = None /\ old = None /\ goal = None
    /\ acked = None /\ tampered = FALSE

-----------------------------------------------------------------------------
(* How a handler ends. *)

Return ==
    /\ pc' = "idle" /\ op' = "none"
    /\ next' = None /\ old' = None /\ goal' = None

\* Mutant: the listeners of a failed recovery are left open.
FailOpen == ready' = FALSE /\ UNCHANGED core /\ Return

\* firewallPersistenceFailure, and a rollback that could not be finished:
\* close the listeners and block them until a recovery succeeds.
FailClosed == ready' = FALSE /\ running' = FALSE /\ UNCHANGED config /\ Return

\* An error that ends the handler before it changed anything lasting.
Refuse == UNCHANGED <<ready, core>> /\ Return

\* A directory sync makes every visible entry the only one that can survive.
Synced == mayC' = {committed} /\ mayP' = {pending}

-----------------------------------------------------------------------------
(* network.firewall.apply: applyFirewall, up to the first write. *)

\* The policy a request for the ports S at revision rev would save.
Requested(rev, S) ==
    [rev |-> rev, bind |-> [p \in Ports |-> IF p \in S THEN config[p] ELSE NoBind]]

\* Revision and binding checks of lines 874-909: a stale or conflicting
\* revision, a port that is no target, a changed binding and a new listener
\* while the core is stopped are refused.
Acceptable(rev, S) ==
    /\ State # None =>
         /\ rev >= State.rev
         /\ rev = State.rev => S = Protected(State)
    /\ S \subseteq Targets(config)
    /\ \A p \in S : IF p \in Protected(State) THEN config[p] = State.bind[p]
                                              ELSE running

\* The same policy already in force is only saved again (931-940); any other
\* passes the check run of nft and goes on to the journal.
Apply(rev, S) ==
    /\ pc = "idle"
    /\ Acceptable(rev, S)
    /\ Owned(State)
    /\ old' = State
    /\ IF State # None /\ rev = State.rev /\ Matches(State)
       THEN /\ op' = "resave" /\ pc' = "commit"
            /\ next' = State /\ goal' = State
       ELSE /\ op' = "apply" /\ pc' = "journal"
            /\ next' = Requested(rev, S) /\ goal' = Requested(rev, S)
    /\ UNCHANGED <<files, kernel, ready, core, management, history>>

\* Mutant: the kernel is changed before the journal is written.
JournalDeferred ==
    /\ pc = "journal" /\ pc' = "batch"
    /\ UNCHANGED <<files, kernel, ready, core, management, op, next, old, goal, history>>

\* Write firewall-pending.json (the rename, then the directory sync).
Journal ==
    /\ pc = "journal"
    /\ \/ /\ pending' = next /\ mayP' = mayP \cup {next}
          /\ pc' = "journal_sync"
          /\ UNCHANGED <<ready, core, op, next, old, goal>>
       \/ UNCHANGED <<pending, mayP>> /\ FailClosed
    /\ UNCHANGED <<committed, mayC, kernel, management, history>>

JournalSync ==
    /\ pc = "journal_sync"
    /\ \/ Synced /\ pc' = "batch" /\ UNCHANGED <<ready, core, op, next, old, goal>>
       \/ UNCHANGED <<mayC, mayP>> /\ FailClosed
    /\ UNCHANGED <<committed, pending, kernel, management, history>>

-----------------------------------------------------------------------------
(* The kernel update, shared by apply, its rollback and ensureFirewall.    *)

\* An error of the update: apply starts its rollback, the rollback itself
\* fails closed, ensureFirewall returns and leaves the core alone.
KernelFailure ==
    \/ /\ op = "apply"
       /\ op' = "rollback" /\ goal' = old /\ pc' = "batch"
       /\ UNCHANGED <<ready, core, next, old>>
    \/ op = "rollback" /\ FailClosed
    \/ op = "ensure" /\ Refuse

\* One atomic nft batch.  A rollback first checks the owner again (952).
Batch ==
    /\ pc = "batch"
    /\ \/ /\ op = "rollback" => kernel # Foreign
          /\ kernel' = Protected(goal) /\ pc' = "verify"
          /\ UNCHANGED <<ready, core, op, next, old, goal>>
       \/ /\ op = "rollback" => kernel # Foreign
          /\ kernel' = Protected(goal) /\ KernelFailure
       \/ UNCHANGED kernel /\ KernelFailure
    /\ UNCHANGED <<files, management, history>>

\* Observe the table again and compare.
Verify ==
    /\ pc = "verify"
    /\ \/ /\ Matches(goal) /\ tampered' = FALSE
          /\ pc' = IF op = "rollback" /\ goal = None THEN "unjournal" ELSE "commit"
          /\ UNCHANGED <<ready, core, op, next, old, goal>>
       \/ UNCHANGED tampered /\ KernelFailure
    /\ UNCHANGED <<files, kernel, management, acked>>

-----------------------------------------------------------------------------
(* Publication: firewall.json, then the removal of the journal. *)

\* A failed rename of firewall.json rolls an apply back (line 1005) ...
Commit ==
    /\ pc = "commit"
    /\ \/ /\ committed' = goal /\ mayC' = mayC \cup {goal}
          /\ pc' = "commit_sync"
          /\ UNCHANGED <<ready, core, op, next, old, goal>>
       \/ UNCHANGED <<committed, mayC>> /\ op = "apply" /\ KernelFailure
       \/ UNCHANGED <<committed, mayC>> /\ op # "apply" /\ FailClosed
    /\ UNCHANGED <<pending, mayP, kernel, management, history>>

\* Mutant: the journal is removed before firewall.json is known to be durable.
CommitUnsynced ==
    /\ pc = "commit_sync"
    /\ pc' = "unjournal"
    /\ UNCHANGED <<files, kernel, ready, core, management, op, next, old, goal, history>>

\* ... a failed directory sync fails closed, and keeps the journal (998-1003).
CommitSync ==
    /\ pc = "commit_sync"
    /\ \/ Synced /\ pc' = "unjournal" /\ UNCHANGED <<ready, core, op, next, old, goal>>
       \/ UNCHANGED <<mayC, mayP>> /\ FailClosed
    /\ UNCHANGED <<committed, pending, kernel, management, history>>

\* The handler succeeded.  The trailing firewallStatus may fail to observe
\* the table and take ready back.
Finish ==
    /\ ready' \in (IF committed # None THEN BOOLEAN ELSE {TRUE})
    /\ acked' = IF op \in {"apply", "resave"} THEN next ELSE acked
    /\ IF op = "ensure"
       THEN /\ pc' = "listeners" /\ op' = "none"
            /\ next' = None /\ old' = None /\ goal' = None
       ELSE Return
    /\ UNCHANGED core

\* removeFirewallJournal: nothing to do, a failed unlink, or an unlink ...
Unjournal ==
    /\ pc = "unjournal"
    /\ \/ pending = None /\ Finish /\ UNCHANGED files
       \/ pending # None /\ FailClosed /\ UNCHANGED <<files, acked>>
       \/ /\ pending # None
          /\ pending' = None /\ mayP' = mayP \cup {None}
          /\ pc' = "unjournal_sync"
          /\ UNCHANGED <<committed, mayC, ready, core, op, next, old, goal, acked>>
    /\ UNCHANGED <<kernel, management, tampered>>

\* ... that is synced, or else undone as far as that succeeds (lines 43-51).
UnjournalSync ==
    /\ pc = "unjournal_sync"
    /\ \/ Synced /\ Finish /\ UNCHANGED pending
       \/ pending' = next /\ mayP' = {next} /\ mayC' = {committed} /\ FailClosed /\ UNCHANGED acked
       \/ pending' = next /\ mayP' = mayP \cup {next} /\ UNCHANGED mayC /\ FailClosed /\ UNCHANGED acked
       \/ UNCHANGED <<pending, mayC, mayP, acked>> /\ FailClosed
    /\ UNCHANGED <<committed, kernel, management, tampered>>

-----------------------------------------------------------------------------
(* Commands that start listeners: ensureFirewall, then the core. *)

\* ensureFirewall of Start and of the actions firewallStartsListener names.
Ensure ==
    /\ pc = "idle"
    /\ \/ /\ ready \/ State = None
          /\ ready' = TRUE /\ pc' = "listeners"
          /\ UNCHANGED <<op, next, old, goal>>
       \/ /\ ~ready /\ State # None
          /\ ValidConfig(State, config) /\ Owned(State)
          /\ op' = "ensure" /\ next' = State /\ old' = State /\ goal' = State
          /\ pc' = IF Matches(State) THEN "verify" ELSE "batch"
          /\ UNCHANGED ready
    /\ UNCHANGED <<files, kernel, core, management, history>>

\* Mutant: a new configuration may drop or move a protected listener.
ListenersUnchecked ==
    /\ pc = "listeners"
    /\ config' \in Configs /\ running' \in BOOLEAN
    /\ Return
    /\ UNCHANGED <<files, kernel, ready, management, history>>

\* start, restart, or applyConfig of a configuration that keeps the protected
\* listeners; a core that fails to start, or to restart with the previous
\* configuration, stays stopped.
Listeners ==
    /\ pc = "listeners"
    /\ \/ UNCHANGED <<running, config>>
       \/ /\ config' \in {c \in Configs : c = config \/ ValidConfig(State, c)}
          /\ running' \in IF ValidConfig(State, config') THEN BOOLEAN ELSE {FALSE}
    /\ Return
    /\ UNCHANGED <<files, kernel, ready, management, history>>

\* core.stop
StopCore ==
    /\ pc = "idle" /\ running
    /\ running' = FALSE
    /\ UNCHANGED <<files, kernel, ready, config, management, handler, history>>

\* network.firewall.status: any doubt about a saved policy clears ready.
FirewallStatus ==
    /\ pc = "idle" /\ State # None /\ ready
    /\ ready' = FALSE
    /\ UNCHANGED <<files, kernel, core, management, handler, history>>

\* UpdateConnection: a new management port must be protected by neither file.
UpdateConnection(p) ==
    /\ pc = "idle"
    /\ p \notin Protected(committed) \cup Protected(pending)
    /\ mgmt' = p /\ reserved' = reserved \cup {mgmt, p}
    /\ UNCHANGED <<files, kernel, ready, core, handler, history>>

-----------------------------------------------------------------------------
(* The environment. *)

\* Another program deletes the table at any time, or creates one of the same
\* name while no command is in progress.
Tamper ==
    /\ \/ kernel # {} /\ kernel' = {}
       \/ kernel = {} /\ pc = "idle" /\ kernel' = Foreign
    /\ tampered' = TRUE
    /\ UNCHANGED <<files, ready, core, management, handler, acked>>

\* The agent process ends and a new one starts; kernel and files stay.
Restart ==
    /\ ready' = FALSE /\ running' = FALSE /\ reserved' = {}
    /\ Return
    /\ UNCHANGED <<files, kernel, config, mgmt, history>>

\* Power loss: the table is gone, each entry is one that could survive.
PowerLoss ==
    /\ committed' \in mayC /\ pending' \in mayP
    /\ mayC' = {committed'} /\ mayP' = {pending'}
    /\ kernel' = {}
    /\ ready' = FALSE /\ running' = FALSE /\ reserved' = {}
    /\ Return
    /\ tampered' = FALSE
    /\ UNCHANGED <<config, mgmt, acked>>

Next ==
    \/ \E rev \in 1..MaxRev, S \in SUBSET Ports : Apply(rev, S)
    \/ Journal \/ JournalSync \/ Batch \/ Verify
    \/ Commit \/ CommitSync \/ Unjournal \/ UnjournalSync
    \/ Ensure \/ Listeners \/ StopCore \/ FirewallStatus
    \/ \E p \in Ports : UpdateConnection(p)
    \/ Tamper \/ Restart \/ PowerLoss

Spec == Init /\ [][Next]_vars

-----------------------------------------------------------------------------
(* Properties. *)

PolicyOrNone == Policies \cup {None}

\* Every variable has its type, a visible entry is one that can survive, and
\* a handler's locals are set exactly while it runs.
TypeOK ==
    /\ committed \in PolicyOrNone /\ pending \in PolicyOrNone
    /\ mayC \in SUBSET PolicyOrNone /\ committed \in mayC
    /\ mayP \in SUBSET PolicyOrNone /\ pending \in mayP
    /\ kernel \in {Foreign} \cup SUBSET Ports
    /\ ready \in BOOLEAN /\ running \in BOOLEAN /\ tampered \in BOOLEAN
    /\ config \in Configs /\ mgmt \in Ports /\ reserved \in SUBSET Ports
    /\ pc \in Steps /\ op \in Ops
    /\ next \in PolicyOrNone /\ old \in PolicyOrNone /\ goal \in PolicyOrNone
    /\ acked \in PolicyOrNone
    /\ op = "none" <=> pc \in {"idle", "listeners"}
    /\ op # "none" => next # None

\* firewall.go:973-975: between commands a running core is restricted by
\* exactly the committed policy, with no update left unfinished, unless
\* another program changed the table.
RunningEnforced ==
    pc = "idle" /\ running =>
        /\ pending = None
        /\ ~tampered => kernel = Protected(committed)

\* Whatever a crash or power loss leaves, the recovery starts from the last
\* policy reported as applied or from a newer one, never from another policy
\* of the same revision.
AckedSurvives ==
    acked # None =>
        \A c \in mayC, p \in mayP :
            LET s == Effective(c, p) IN
            s # None /\ s.rev >= acked.rev /\ (s.rev = acked.rev => s = acked)

\* firewall_persistence.go:88-89: "Inspect both files: pending removal does
\* not yet prove that the previously protected port has been released in the
\* kernel."  So the management port is never restricted by the live table.
ManagementReachable ==
    kernel = Foreign \/ mgmt \notin kernel

\* The agent never loses the owner mark of its own table: without it every
\* later command would refuse to touch the table.
OwnershipKept ==
    kernel \notin {{}, Foreign} => State # None

\* A running core still serves every protected listener as it was protected,
\* and none of them is on a port the management listener uses.
ProtectedBound ==
    running => ValidConfig(State, config)

\* A table without the mark is only ever removed by its owner.
ForeignUntouched ==
    [][kernel = Foreign => kernel' = Foreign \/ Tamper \/ PowerLoss]_vars

=============================================================================
