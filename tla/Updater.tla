------------------------------ MODULE Updater ------------------------------
(***************************************************************************)
(* Online worker replacement: internal/updater.  Two processes share the   *)
(* directory <data_dir>/agent-update without a common lock:                *)
(*   - the supervisor (Supervise) owns the executables current, previous   *)
(*     and next, and the worker it starts from current;                    *)
(*   - the worker (Stage, Acknowledge) downloads next and moves state.json *)
(*     forward when the controller answers.                                *)
(* One action is one file-system operation, so a crash can fall between    *)
(* any two of them.  An error return of Supervise leaves the same files a  *)
(* crash at that point leaves and ends the worker with its service's       *)
(* control group, so Crash stands for both.  Renames are assumed to reach  *)
(* the disk in the order they are made.                                    *)
(***************************************************************************)
CONSTANTS
    Tasks,      \* identifiers of agent.update commands
    NoTask,     \* the identifier of any other acknowledged command
    Versions,   \* released worker binaries, named by version and checksum
    Bootstrap,  \* the binary the supervisor itself runs from
    Missing,    \* no such file; no such process
    Torn        \* an executable whose copy was cut short

ASSUME UpdaterAssumption ==
    /\ Bootstrap \in Versions
    /\ Missing \notin Versions /\ Torn \notin Versions /\ Missing # Torn
    /\ NoTask \notin Tasks

VARIABLES
    current, previous, next,  \* the executables of agent-update/
    disk,      \* state.json
    sup,       \* where Supervise stands
    mem,       \* the supervisor's copy of state.json
    armed,     \* the 90 s confirmation deadline is set
    child,     \* the binary the worker process runs, or Missing
    work,      \* the worker's update operation holding updater.mu
    seen,      \* state.json as that operation read it
    unacked,   \* staged results the controller has not acknowledged
    confirmed, \* history: tasks whose result the controller acknowledged
    base,      \* history: the worker a promotion is replacing
    overrode,  \* history: the last rollback overrode a confirmation
    stable     \* no further crash will happen

exes == <<current, previous, next>>
supervisor == <<sup, mem, armed>>
worker == <<child, work, seen, unacked>>
history == <<confirmed, base, overrode>>
vars == <<exes, disk, supervisor, worker, history, stable>>

Statuses == {"none", "staged", "ready", "restarting", "healthy",
             "completed", "rolled_back", "failed"}
States == [status : Statuses, task : Tasks \cup {NoTask},
           version : Versions \cup {Missing}]
NoState == [status |-> "none", task |-> NoTask, version |-> Missing]
With(state, status) == [state EXCEPT !.status = status]

SupSteps == {"off", "copy", "recover", "restored", "start", "run",
             "stop_promote", "promote", "mark", "move", "swap", "launch",
             "stop_rollback", "rollback", "rolled"}
WorkSteps == {"idle", "fetch", "stage", "acknowledge"}

Init ==
    /\ current = Missing /\ previous = Missing /\ next = Missing
    /\ disk = NoState
    /\ sup = "off" /\ mem = NoState /\ armed = FALSE
    /\ child = Missing /\ work = "idle" /\ seen = NoState /\ unacked = {}
    /\ confirmed = {} /\ base = Missing /\ overrode = FALSE
    /\ stable = FALSE

-----------------------------------------------------------------------------
(* The worker process. *)

\* An update already in progress refuses another one (updater.go:90).
InProgress == {"staged", "ready", "restarting", "healthy"}

\* Stage up to the removal of a stale next; seen.task and seen.version keep
\* the command, seen.status the status that was read.
StageBegin(t, v) ==
    /\ child \in Versions /\ work = "idle"
    /\ disk.status \notin InProgress
    /\ seen' = [status |-> disk.status, task |-> t, version |-> v]
    /\ next' = Missing
    /\ work' = "fetch"
    /\ UNCHANGED <<current, previous, disk, supervisor, child, unacked, history, stable>>

\* artifact.Fetch publishes a verified file by rename, or nothing.
StageFetch ==
    /\ work = "fetch"
    /\ \/ next' = seen.version /\ work' = "stage"
       \/ next' = next /\ work' = "idle"
    /\ UNCHANGED <<current, previous, disk, supervisor, child, seen, unacked, history, stable>>

\* The final write of Stage; its result then waits for the controller.
StageWrite ==
    /\ work = "stage"
    /\ \/ /\ disk' = With(seen, "staged")
          /\ unacked' = unacked \cup {seen.task}
       \/ UNCHANGED <<disk, unacked>>
    /\ work' = "idle"
    /\ UNCHANGED <<exes, supervisor, child, seen, history, stable>>

\* Mutant: any acknowledged result confirms the staged update.
AcknowledgeReadAny(t) ==
    /\ child \in Versions /\ work = "idle"
    /\ t \in unacked \cup {NoTask}
    /\ unacked' = unacked \ {t}
    /\ confirmed' = confirmed \cup ({t} \ {NoTask})
    /\ IF disk.status = "staged" \/ (disk.status = "restarting" /\ disk.version = child)
       THEN seen' = disk /\ work' = "acknowledge"
       ELSE UNCHANGED <<seen, work>>
    /\ UNCHANGED <<exes, disk, supervisor, child, base, overrode, stable>>

\* Acknowledge, up to the read of state.json: the controller answered and
\* acknowledged the result of t (NoTask: of another command, or of none).
AcknowledgeRead(t) ==
    /\ child \in Versions /\ work = "idle"
    /\ t \in unacked \cup {NoTask}
    /\ unacked' = unacked \ {t}
    /\ confirmed' = confirmed \cup ({t} \ {NoTask})
    /\ \/ /\ disk.status = "staged" /\ disk.task = t
          /\ seen' = disk /\ work' = "acknowledge"
       \/ /\ disk.status = "restarting" /\ disk.version = child
          /\ seen' = disk /\ work' = "acknowledge"
       \/ /\ ~(disk.status = "staged" /\ disk.task = t)
          /\ ~(disk.status = "restarting" /\ disk.version = child)
          /\ UNCHANGED <<seen, work>>
    /\ UNCHANGED <<exes, disk, supervisor, child, base, overrode, stable>>

\* The write of Acknowledge; its error is ignored by the callers.
AcknowledgeWrite ==
    /\ work = "acknowledge"
    /\ \/ disk' = With(seen, IF seen.status = "staged" THEN "ready" ELSE "healthy")
       \/ UNCHANGED disk
    /\ work' = "idle"
    /\ UNCHANGED <<exes, supervisor, child, seen, unacked, history, stable>>

\* A worker may die at any time; once the environment is stable only an
\* unconfirmed replacement or a torn executable still does.
WorkerExit ==
    /\ child # Missing
    /\ ~stable \/ armed \/ child = Torn
    /\ child' = Missing /\ work' = "idle" /\ unacked' = {}
    /\ UNCHANGED <<exes, disk, supervisor, seen, history, stable>>

-----------------------------------------------------------------------------
(* The supervisor process. *)

\* A service start: take the lock and look for current (lines 42-67).
Boot ==
    /\ sup = "off"
    /\ IF current = Missing THEN current' = Torn /\ sup' = "copy"
                            ELSE current' = current /\ sup' = "recover"
    /\ UNCHANGED <<previous, next, disk, mem, armed, worker, history, stable>>

\* copyBinary filled and synced the file it had created.
CopyBinary ==
    /\ sup = "copy"
    /\ current' = Bootstrap /\ sup' = "recover"
    /\ UNCHANGED <<previous, next, disk, mem, armed, worker, history, stable>>

\* Mutant: without previous the promotion is taken to be finished.
RecoverCompletes ==
    /\ sup = "recover" /\ mem' = disk
    /\ IF disk.status = "restarting" /\ previous # Missing
       THEN sup' = "restored" /\ current' = previous /\ previous' = Missing
       ELSE sup' = "start" /\ UNCHANGED <<current, previous>>
    /\ disk' = IF disk.status = "healthy" \/ (disk.status = "restarting" /\ previous = Missing)
               THEN With(disk, "completed") ELSE disk
    /\ UNCHANGED <<next, armed, worker, history, stable>>

\* Read state.json; an interrupted promotion first gets its file back, a
\* confirmed one is completed (lines 68-91).
Recover ==
    /\ sup = "recover" /\ mem' = disk
    /\ \/ /\ disk.status = "restarting" /\ sup' = "restored"
          /\ IF previous # Missing
             THEN current' = previous /\ previous' = Missing
             ELSE UNCHANGED <<current, previous>>
          /\ UNCHANGED disk
       \/ /\ disk.status = "healthy" /\ sup' = "start"
          /\ disk' = With(disk, "completed")
          /\ UNCHANGED <<current, previous>>
       \/ /\ disk.status \notin {"restarting", "healthy"} /\ sup' = "start"
          /\ UNCHANGED <<disk, current, previous>>
    /\ UNCHANGED <<next, armed, worker, history, stable>>

\* Record the outcome of a restore, on recovery (81-85) or rollback (123-127).
RecordRolledBack ==
    /\ sup \in {"restored", "rolled"}
    /\ disk' = With(mem, "rolled_back")
    /\ sup' = "start" /\ armed' = FALSE
    /\ UNCHANGED <<exes, mem, worker, history, stable>>

\* start: run current as the worker (lines 94-109, 130).
Start ==
    /\ sup = "start"
    /\ child' = current /\ sup' = "run"
    /\ UNCHANGED <<exes, disk, mem, armed, work, seen, unacked, history, stable>>

\* Mutant: the replacement begins while the old worker is still running.
TickReadyWithoutStop ==
    /\ sup = "run" /\ disk.status = "ready"
    /\ mem' = disk
    /\ \/ disk' = With(disk, "failed") /\ sup' = "run"
       \/ next = disk.version /\ sup' = "promote" /\ disk' = disk
    /\ UNCHANGED <<exes, armed, worker, history, stable>>

\* A tick sees an acknowledged update: verify next again, refuse it or stop
\* the worker to promote it (lines 151-166).
TickReady ==
    /\ sup = "run" /\ disk.status = "ready"
    /\ mem' = disk
    /\ \/ disk' = With(disk, "failed") /\ sup' = "run"
       \/ next = disk.version /\ sup' = "stop_promote" /\ disk' = disk
    /\ UNCHANGED <<exes, armed, worker, history, stable>>

\* A tick sees the replacement confirmed (lines 187-193).
TickHealthy ==
    /\ sup = "run" /\ armed /\ disk.status = "healthy"
    /\ mem' = disk /\ disk' = With(disk, "completed") /\ armed' = FALSE
    /\ UNCHANGED <<exes, sup, worker, history, stable>>

\* Mutant: only a replacement that has exited is given up.
TickExpiredExited ==
    /\ sup = "run" /\ armed /\ disk.status \notin {"ready", "healthy"} /\ child = Missing
    /\ mem' = disk /\ sup' = "stop_rollback"
    /\ UNCHANGED <<exes, disk, armed, worker, history, stable>>

\* A tick finds the 90 s deadline past and no confirmation (lines 194-195).
TickExpired ==
    /\ sup = "run" /\ armed /\ disk.status \notin {"ready", "healthy"}
    /\ mem' = disk /\ sup' = "stop_rollback"
    /\ UNCHANGED <<exes, disk, armed, worker, history, stable>>

\* stop: the worker goes on until it exits or is killed after 15 s.
Stop ==
    /\ sup \in {"stop_promote", "stop_rollback"}
    /\ child' = Missing /\ work' = "idle" /\ unacked' = {}
    /\ sup' = IF sup = "stop_promote" THEN "promote" ELSE "rollback"
    /\ UNCHANGED <<exes, disk, mem, armed, seen, history, stable>>

\* Mutant: the worker a completed update left behind is not removed.
RemovePreviousSkipped ==
    /\ sup = "promote"
    /\ sup' = "mark"
    /\ UNCHANGED <<exes, disk, mem, armed, worker, history, stable>>

RemovePrevious ==
    /\ sup = "promote"
    /\ previous' = Missing /\ sup' = "mark"
    /\ UNCHANGED <<current, next, disk, mem, armed, worker, history, stable>>

MarkRestarting ==
    /\ sup = "mark"
    /\ disk' = With(mem, "restarting") /\ mem' = With(mem, "restarting")
    /\ base' = current /\ overrode' = FALSE
    /\ sup' = "move"
    /\ UNCHANGED <<exes, armed, worker, confirmed, stable>>

MoveCurrent ==
    /\ sup = "move"
    /\ previous' = current /\ current' = Missing /\ sup' = "swap"
    /\ UNCHANGED <<next, disk, mem, armed, worker, history, stable>>

\* Rename next over current and arm the deadline; a failed rename puts the
\* old worker back and ends the supervisor (lines 175-179).
SwapNext ==
    /\ sup = "swap"
    /\ \/ /\ current' = next /\ next' = Missing
          /\ sup' = "launch" /\ armed' = TRUE
          /\ UNCHANGED previous
       \/ /\ current' = previous /\ previous' = Missing
          /\ sup' = "off" /\ UNCHANGED <<next, armed>>
    /\ UNCHANGED <<disk, mem, worker, history, stable>>

\* Start the replacement, or fall back when it cannot be executed.
Launch ==
    /\ sup = "launch"
    /\ \/ child' = current /\ sup' = "run"
       \/ child' = child /\ sup' = "rollback"
    /\ UNCHANGED <<exes, disk, mem, armed, work, seen, unacked, history, stable>>

\* The worker ended: an unconfirmed replacement is rolled back, any other
\* exit ends the supervisor (lines 141-149).
ChildDone ==
    /\ sup = "run" /\ child = Missing
    /\ sup' = IF armed THEN "rollback" ELSE "off"
    /\ UNCHANGED <<exes, disk, mem, armed, worker, history, stable>>

\* rollback: give current its old content (lines 120-122).
Rollback ==
    /\ sup = "rollback" /\ previous # Missing
    /\ current' = previous /\ previous' = Missing
    /\ overrode' = (disk.status = "healthy")
    /\ sup' = "rolled"
    /\ UNCHANGED <<next, disk, mem, armed, worker, confirmed, base, stable>>

-----------------------------------------------------------------------------
(* The environment. *)

\* Both processes end: host crash, service stop, or an error return.
Crash ==
    /\ ~stable /\ sup # "off"
    /\ sup' = "off" /\ mem' = NoState /\ armed' = FALSE
    /\ child' = Missing /\ work' = "idle" /\ unacked' = {}
    /\ UNCHANGED <<exes, disk, seen, history, stable>>

Stabilise ==
    /\ ~stable /\ stable' = TRUE
    /\ UNCHANGED <<exes, disk, supervisor, worker, history>>

Worker ==
    \/ \E t \in Tasks, v \in Versions : StageBegin(t, v)
    \/ StageFetch \/ StageWrite
    \/ \E t \in Tasks \cup {NoTask} : AcknowledgeRead(t)
    \/ AcknowledgeWrite \/ WorkerExit

Supervise ==
    \/ Boot \/ CopyBinary \/ Recover \/ RecordRolledBack \/ Start
    \/ TickReady \/ TickHealthy \/ TickExpired \/ Stop
    \/ RemovePrevious \/ MarkRestarting \/ MoveCurrent \/ SwapNext \/ Launch
    \/ ChildDone \/ Rollback

Next == Worker \/ Supervise \/ Crash \/ Stabilise

Spec == Init /\ [][Next]_vars

\* The supervisor's loop keeps running and its ticker keeps firing, the
\* service manager restarts it, and crashes come to an end.
LiveSpec == Spec /\ WF_vars(Supervise) /\ WF_vars(Stabilise)

-----------------------------------------------------------------------------
(* Properties. *)

\* Every variable has its type, only a live worker of a complete binary holds
\* updater.mu or owes results, and the deadline is only set during a trial.
TypeOK ==
    /\ current \in Versions \cup {Missing, Torn}
    /\ previous \in Versions \cup {Missing}
    /\ next \in Versions \cup {Missing}
    /\ disk \in States /\ mem \in States /\ seen \in States
    /\ sup \in SupSteps /\ work \in WorkSteps
    /\ armed \in BOOLEAN /\ overrode \in BOOLEAN /\ stable \in BOOLEAN
    /\ child \in Versions \cup {Missing, Torn}
    /\ unacked \in SUBSET Tasks /\ confirmed \in SUBSET Tasks
    /\ base \in Versions \cup {Missing, Torn}
    /\ work # "idle" \/ unacked # {} => child \in Versions
    /\ armed => sup \in {"launch", "run", "stop_rollback", "rollback", "rolled"}

\* state.json has two unlocked writers: whenever the worker is about to write
\* what it derived from an earlier read, nobody has changed the file since.
NoLostUpdate ==
    /\ work = "acknowledge" => disk = seen
    /\ work \in {"fetch", "stage"} => disk.status = seen.status

\* At every instant of a promotion (the comment at supervisor_linux.go:80)
\* a restart finds the worker being replaced: in previous, or still (or
\* again) in current when there is no previous.  And although copyBinary is
\* not atomic, a truncated current is only ever run when the very first
\* installation was cut short, never after an update was staged.
PromotionRecoverable ==
    /\ disk.status = "restarting" =>
        /\ base \in Versions
        /\ previous = base \/ (previous = Missing /\ current = base)
    /\ current = Torn /\ sup \in {"start", "run"} => disk.status = "none"

\* The outcome on disk is the one that runs: "rolled_back" only once the
\* replaced worker is current again, "completed" only while the requested
\* version is, unless a rollback ignored a confirmation already on disk.
OutcomeTrue ==
    /\ disk.status = "rolled_back" => current = base
    /\ disk.status = "completed" /\ ~overrode => current = disk.version

\* README "Online Agent updates": the final status is completed when the
\* replacement runs; a missing confirmation restores the previous worker.
CompletedMeansReplaced ==
    disk.status = "completed" => current = disk.version

\* A worker is only stopped for an update whose task result the controller
\* acknowledged, and the file that replaces it is the one that was verified.
OnlyAcknowledgedPromoted ==
    /\ disk.status \in {"ready", "restarting", "healthy", "completed"} =>
           disk.task \in confirmed
    /\ sup \in {"stop_promote", "promote", "mark", "move", "swap"} => next = mem.version
    /\ sup = "launch" => current = mem.version

\* Once the controller acknowledged it, an update reaches a final status.
UpdateDecided ==
    disk.status \in {"ready", "restarting", "healthy"} ~>
        disk.status \in {"completed", "rolled_back", "failed"}

=============================================================================
