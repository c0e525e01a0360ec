--------------------------- MODULE DurableProofs ----------------------------
(***************************************************************************)
(* Proofs about what survives a failure or a crash. Updater, for any tasks *)
(* and any versions: the safety of the replacement of the worker at every  *)
(* interleaving of the two processes and every point of a crash.           *)
(* WireGuard, for any tunnels, configurations and assignment of keys to    *)
(* them.                                                                   *)
(***************************************************************************)
EXTENDS Updater, WireGuard, TLAPS

-----------------------------------------------------------------------------
(* Updater. *)

\* The worker writes only what it may derive from the file as it still is.
Writers ==
    /\ NoLostUpdate
    /\ work = "acknowledge" => \/ seen.status = "staged" /\ seen.task \in confirmed
                               \/ seen.status = "restarting" /\ seen.version = child
    /\ work \in {"fetch", "stage"} => seen.status \notin InProgress /\ seen.task \in Tasks /\ seen.version \in Versions
    /\ disk.status = "staged" => disk.task \in Tasks
    /\ disk.status # "none" => disk.version \in Versions

\* What the supervisor knows of the file at every step.
Phases ==
    /\ child # Missing => sup \in {"run", "stop_promote", "stop_rollback"} /\ child = current
    /\ sup \in {"launch", "stop_rollback", "rollback", "rolled"} => armed
    /\ sup \in {"stop_promote", "promote", "mark"} => disk = mem /\ disk.status = "ready"
    /\ sup \in {"move", "swap", "launch"} => disk = mem /\ disk.status = "restarting"
    /\ sup = "restored" => disk = mem /\ disk.status = "restarting"
    /\ sup = "start" \/ (sup = "run" /\ ~armed) => disk.status \notin {"restarting", "healthy"}
    /\ armed => disk.status \in {"restarting", "healthy"} /\ mem.version = disk.version

\* Where the executables are at every step.
Executables ==
    /\ armed /\ sup # "rolled" => previous = base /\ base \in Versions /\ current = disk.version
    /\ sup = "rolled" => current = base /\ base \in Versions /\ previous = Missing /\ (disk.status = "healthy" => overrode)
    /\ sup = "restored" => current = base /\ base \in Versions /\ previous = Missing
    /\ sup \in {"mark", "move"} => previous = Missing
    /\ sup = "move" => current = base /\ base \in Versions
    /\ sup = "swap" => previous = base /\ base \in Versions
    /\ sup = "copy" \/ current \in {Missing, Torn} => disk.status \in {"none", "restarting"}
    /\ sup = "copy" => current = Torn

Outcome ==
    /\ PromotionRecoverable /\ OutcomeTrue /\ OnlyAcknowledgedPromoted
    /\ disk.status = "healthy" /\ ~overrode => current = disk.version

UpdaterInv == TypeOK /\ Writers /\ Phases /\ Executables /\ Outcome

\* What a change of the status does to state.json.
LEMMA WithFacts ==
    /\ NoState \in States /\ NoState.status = "none"
    /\ \A s \in States : /\ s.status \in Statuses /\ s.task \in Tasks \cup {NoTask}
                         /\ s.version \in Versions \cup {Missing}
    /\ \A s \in States, x \in Statuses :
         /\ With(s, x) \in States /\ With(s, x).status = x
         /\ With(s, x).task = s.task /\ With(s, x).version = s.version
  BY DEF With, NoState, States, Statuses

\* Stage begins.
LEMMA StageBeginInv ==
    ASSUME UpdaterInv, NEW t \in Tasks, NEW v \in Versions, StageBegin(t, v)
    PROVE  UpdaterInv'
  <1> USE UpdaterAssumption, WithFacts
      DEF UpdaterInv, StageBegin, exes, supervisor, worker, history, InProgress
  <1>1. TypeOK'
    BY DEF TypeOK, Phases, Executables, SupSteps, WorkSteps, Statuses, States
  <1>2. Writers'
    BY DEF TypeOK, Writers, Phases, NoLostUpdate, Statuses
  <1>3. Phases'
    BY DEF TypeOK, Writers, Phases, NoLostUpdate, Statuses
  <1>4. Executables'
    BY DEF TypeOK, Writers, Phases, Executables, Outcome, NoLostUpdate, PromotionRecoverable,
       OnlyAcknowledgedPromoted, Statuses
  <1>5. Outcome'
    BY DEF TypeOK, Writers, Phases, Executables, Outcome, NoLostUpdate, PromotionRecoverable,
       OutcomeTrue, OnlyAcknowledgedPromoted, Statuses
  <1> QED
    BY <1>1, <1>2, <1>3, <1>4, <1>5, ZenonT(60)

\* The artifact is fetched.
LEMMA StageFetchInv ==
    ASSUME UpdaterInv, StageFetch
    PROVE  UpdaterInv'
  <1> USE UpdaterAssumption, WithFacts
      DEF UpdaterInv, StageFetch, exes, supervisor, worker, history, InProgress
  <1>1. TypeOK'
    BY DEF TypeOK, Phases, Executables, SupSteps, WorkSteps, Statuses
  <1>2. Writers'
    BY DEF TypeOK, Writers, Phases, NoLostUpdate, Statuses
  <1>3. Phases'
    BY DEF TypeOK, Writers, Phases, NoLostUpdate, Statuses
  <1>4. Executables'
    BY DEF TypeOK, Writers, Phases, Executables, Outcome, NoLostUpdate, PromotionRecoverable,
       OnlyAcknowledgedPromoted, Statuses
  <1>5. Outcome'
    BY DEF TypeOK, Writers, Phases, Executables, Outcome, NoLostUpdate, PromotionRecoverable,
       OutcomeTrue, OnlyAcknowledgedPromoted, Statuses
  <1> QED
    BY <1>1, <1>2, <1>3, <1>4, <1>5, ZenonT(60)

\* The update is staged.
LEMMA StageWriteInv ==
    ASSUME UpdaterInv, StageWrite
    PROVE  UpdaterInv'
  <1> USE UpdaterAssumption, WithFacts
      DEF UpdaterInv, StageWrite, exes, supervisor, worker, history, InProgress
  <1>1. TypeOK'
    BY DEF TypeOK, Writers, Phases, Executables, SupSteps, WorkSteps, Statuses
  <1>2. Writers'
    BY DEF TypeOK, Writers, Phases, NoLostUpdate, Statuses
  <1>3. Phases'
    BY DEF TypeOK, Writers, Phases, NoLostUpdate, Statuses
  <1>4. Executables'
    BY DEF TypeOK, Writers, Phases, Executables, Outcome, NoLostUpdate, PromotionRecoverable,
       OnlyAcknowledgedPromoted, Statuses
  <1>5. Outcome'
    BY DEF TypeOK, Writers, Phases, Executables, Outcome, NoLostUpdate, PromotionRecoverable,
       OutcomeTrue, OnlyAcknowledgedPromoted, Statuses
  <1> QED
    BY <1>1, <1>2, <1>3, <1>4, <1>5, ZenonT(60)

\* The controller acknowledges.
LEMMA AcknowledgeReadInv ==
    ASSUME UpdaterInv, NEW t \in Tasks \cup {NoTask}, AcknowledgeRead(t)
    PROVE  UpdaterInv'
  <1> USE UpdaterAssumption, WithFacts
      DEF UpdaterInv, AcknowledgeRead, exes, supervisor, worker, history, InProgress
  <1>1. TypeOK'
    BY DEF TypeOK, Phases, Executables, SupSteps, WorkSteps, Statuses
  <1>2. Writers'
    BY DEF TypeOK, Writers, Phases, NoLostUpdate, Statuses
  <1>3. Phases'
    BY DEF TypeOK, Writers, Phases, NoLostUpdate, Statuses
  <1>4. Executables'
    BY DEF TypeOK, Writers, Phases, Executables, Outcome, NoLostUpdate, PromotionRecoverable,
       OnlyAcknowledgedPromoted, Statuses
  <1>5. Outcome'
    BY DEF TypeOK, Writers, Phases, Executables, Outcome, NoLostUpdate, PromotionRecoverable,
       OutcomeTrue, OnlyAcknowledgedPromoted, Statuses
  <1> QED
    BY <1>1, <1>2, <1>3, <1>4, <1>5, ZenonT(60)

\* The acknowledgement is written.
LEMMA AcknowledgeWriteInv ==
    ASSUME UpdaterInv, AcknowledgeWrite
    PROVE  UpdaterInv'
  <1> USE UpdaterAssumption, WithFacts
      DEF UpdaterInv, AcknowledgeWrite, exes, supervisor, worker, history, InProgress
  <1>1. TypeOK'
    BY DEF TypeOK, Phases, Executables, SupSteps, WorkSteps, Statuses
  <1>2. Writers'
    BY DEF TypeOK, Writers, Phases, NoLostUpdate, Statuses
  <1>3. Phases'
    BY DEF TypeOK, Writers, Phases, NoLostUpdate, Statuses
  <1>4. Executables'
    BY DEF TypeOK, Writers, Phases, Executables, Outcome, NoLostUpdate, PromotionRecoverable,
       OnlyAcknowledgedPromoted, Statuses
  <1>5. Outcome'
    BY DEF TypeOK, Writers, Phases, Executables, Outcome, NoLostUpdate, PromotionRecoverable,
       OutcomeTrue, OnlyAcknowledgedPromoted, Statuses
  <1> QED
    BY <1>1, <1>2, <1>3, <1>4, <1>5, ZenonT(60)

\* The worker ends.
LEMMA WorkerExitInv ==
    ASSUME UpdaterInv, WorkerExit
    PROVE  UpdaterInv'
  <1> USE UpdaterAssumption, WithFacts
      DEF UpdaterInv, WorkerExit, exes, supervisor, worker, history, InProgress
  <1>1. TypeOK'
    BY DEF TypeOK, Phases, Executables, SupSteps, WorkSteps, Statuses
  <1>2. Writers'
    BY DEF TypeOK, Writers, Phases, NoLostUpdate, Statuses
  <1>3. Phases'
    BY DEF TypeOK, Writers, Phases, NoLostUpdate, Statuses
  <1>4. Executables'
    BY DEF TypeOK, Writers, Phases, Executables, Outcome, NoLostUpdate, PromotionRecoverable,
       OnlyAcknowledgedPromoted, Statuses
  <1>5. Outcome'
    BY DEF TypeOK, Writers, Phases, Executables, Outcome, NoLostUpdate, PromotionRecoverable,
       OutcomeTrue, OnlyAcknowledgedPromoted, Statuses
  <1> QED
    BY <1>1, <1>2, <1>3, <1>4, <1>5, ZenonT(60)

\* The supervisor starts.
LEMMA BootInv ==
    ASSUME UpdaterInv, Boot
    PROVE  UpdaterInv'
  <1> USE UpdaterAssumption, WithFacts
      DEF UpdaterInv, Boot, exes, supervisor, worker, history, InProgress
  <1>1. TypeOK'
    BY DEF TypeOK, Phases, Executables, SupSteps, WorkSteps, Statuses
  <1>2. Writers'
    BY DEF TypeOK, Writers, Phases, NoLostUpdate, Statuses
  <1>3. Phases'
    BY DEF TypeOK, Writers, Phases, NoLostUpdate, Statuses
  <1>4. Executables'
    BY DEF TypeOK, Writers, Phases, Executables, Outcome, NoLostUpdate, PromotionRecoverable,
       OnlyAcknowledgedPromoted, Statuses
  <1>5. Outcome'
    BY DEF TypeOK, Writers, Phases, Executables, Outcome, NoLostUpdate, PromotionRecoverable,
       OutcomeTrue, OnlyAcknowledgedPromoted, Statuses
  <1> QED
    BY <1>1, <1>2, <1>3, <1>4, <1>5, ZenonT(60)

\* The first installation.
LEMMA CopyBinaryInv ==
    ASSUME UpdaterInv, CopyBinary
    PROVE  UpdaterInv'
  <1> USE UpdaterAssumption, WithFacts
      DEF UpdaterInv, CopyBinary, exes, supervisor, worker, history, InProgress
  <1>1. TypeOK'
    BY DEF TypeOK, Phases, Executables, SupSteps, WorkSteps, Statuses
  <1>2. Writers'
    BY DEF TypeOK, Writers, Phases, NoLostUpdate, Statuses
  <1>3. Phases'
    BY DEF TypeOK, Writers, Phases, NoLostUpdate, Statuses
  <1>4. Executables'
    BY DEF TypeOK, Writers, Phases, Executables, Outcome, NoLostUpdate, PromotionRecoverable,
       OnlyAcknowledgedPromoted, Statuses
  <1>5. Outcome'
    BY DEF TypeOK, Writers, Phases, Executables, Outcome, NoLostUpdate, PromotionRecoverable,
       OutcomeTrue, OnlyAcknowledgedPromoted, Statuses
  <1> QED
    BY <1>1, <1>2, <1>3, <1>4, <1>5, ZenonT(60)

\* The supervisor reads the state.
LEMMA RecoverInv ==
    ASSUME UpdaterInv, Recover
    PROVE  UpdaterInv'
  <1> USE UpdaterAssumption, WithFacts
      DEF UpdaterInv, Recover, exes, supervisor, worker, history, InProgress
  <1>1. TypeOK'
    BY DEF TypeOK, Phases, Executables, SupSteps, WorkSteps, Statuses
  <1>2. Writers'
    BY DEF TypeOK, Writers, Phases, NoLostUpdate, Statuses
  <1>3. Phases'
    BY DEF TypeOK, Writers, Phases, NoLostUpdate, Statuses
  <1>4. Executables'
    BY DEF TypeOK, Writers, Phases, Executables, Outcome, NoLostUpdate, PromotionRecoverable,
       OnlyAcknowledgedPromoted, Statuses
  <1>5. Outcome'
    BY DEF TypeOK, Writers, Phases, Executables, Outcome, NoLostUpdate, PromotionRecoverable,
       OutcomeTrue, OnlyAcknowledgedPromoted, Statuses
  <1> QED
    BY <1>1, <1>2, <1>3, <1>4, <1>5, ZenonT(60)

\* A rollback is recorded.
LEMMA RecordRolledBackInv ==
    ASSUME UpdaterInv, RecordRolledBack
    PROVE  UpdaterInv'
  <1> USE UpdaterAssumption, WithFacts
      DEF UpdaterInv, RecordRolledBack, exes, supervisor, worker, history, InProgress
  <1>1. TypeOK'
    <2>1. disk' \in States
      BY DEF TypeOK, Statuses
    <2> QED
      BY ZenonT(60), <2>1 DEF TypeOK, SupSteps
  <1>2. Writers'
    BY DEF TypeOK, Writers, Phases, NoLostUpdate, Statuses
  <1>3. Phases'
    BY DEF TypeOK, Writers, Phases, NoLostUpdate, Statuses
  <1>4. Executables'
    BY DEF TypeOK, Writers, Phases, Executables, Outcome, NoLostUpdate, PromotionRecoverable,
       OnlyAcknowledgedPromoted, Statuses
  <1>5. Outcome'
    BY DEF TypeOK, Writers, Phases, Executables, Outcome, NoLostUpdate, PromotionRecoverable,
       OutcomeTrue, OnlyAcknowledgedPromoted, Statuses
  <1> QED
    BY <1>1, <1>2, <1>3, <1>4, <1>5, ZenonT(60)

\* The worker starts.
LEMMA StartInv ==
    ASSUME UpdaterInv, Start
    PROVE  UpdaterInv'
  <1> USE UpdaterAssumption, WithFacts
      DEF UpdaterInv, Start, exes, supervisor, worker, history, InProgress
  <1>1. TypeOK'
    BY DEF TypeOK, Phases, Executables, SupSteps, WorkSteps, Statuses
  <1>2. Writers'
    BY DEF TypeOK, Writers, Phases, NoLostUpdate, Statuses
  <1>3. Phases'
    BY DEF TypeOK, Writers, Phases, NoLostUpdate, Statuses
  <1>4. Executables'
    BY DEF TypeOK, Writers, Phases, Executables, Outcome, NoLostUpdate, PromotionRecoverable,
       OnlyAcknowledgedPromoted, Statuses
  <1>5. Outcome'
    BY DEF TypeOK, Writers, Phases, Executables, Outcome, NoLostUpdate, PromotionRecoverable,
       OutcomeTrue, OnlyAcknowledgedPromoted, Statuses
  <1> QED
    BY <1>1, <1>2, <1>3, <1>4, <1>5, ZenonT(60)

\* An acknowledged update is found.
LEMMA TickReadyInv ==
    ASSUME UpdaterInv, TickReady
    PROVE  UpdaterInv'
  <1> USE UpdaterAssumption, WithFacts
      DEF UpdaterInv, TickReady, exes, supervisor, worker, history, InProgress
  <1>1. TypeOK'
    BY DEF TypeOK, Phases, Executables, SupSteps, WorkSteps, Statuses
  <1>2. Writers'
    BY DEF TypeOK, Writers, Phases, NoLostUpdate, Statuses
  <1>3. Phases'
    BY DEF TypeOK, Writers, Phases, NoLostUpdate, Statuses
  <1>4. Executables'
    BY DEF TypeOK, Writers, Phases, Executables, Outcome, NoLostUpdate, PromotionRecoverable,
       OnlyAcknowledgedPromoted, Statuses
  <1>5. Outcome'
    BY DEF TypeOK, Writers, Phases, Executables, Outcome, NoLostUpdate, PromotionRecoverable,
       OutcomeTrue, OnlyAcknowledgedPromoted, Statuses
  <1> QED
    BY <1>1, <1>2, <1>3, <1>4, <1>5, ZenonT(60)

\* A confirmed one is found.
LEMMA TickHealthyInv ==
    ASSUME UpdaterInv, TickHealthy
    PROVE  UpdaterInv'
  <1> USE UpdaterAssumption, WithFacts
      DEF UpdaterInv, TickHealthy, exes, supervisor, worker, history, InProgress
  <1>1. TypeOK'
    BY ZenonT(60) DEF TypeOK, Phases, Executables, SupSteps, WorkSteps, Statuses
  <1>2. Writers'
    BY DEF TypeOK, Writers, Phases, NoLostUpdate, Statuses
  <1>3. Phases'
    BY DEF TypeOK, Writers, Phases, NoLostUpdate, Statuses
  <1>4. Executables'
    BY DEF TypeOK, Writers, Phases, Executables, Outcome, NoLostUpdate, PromotionRecoverable,
       OnlyAcknowledgedPromoted, Statuses
  <1>5. Outcome'
    BY DEF TypeOK, Writers, Phases, Executables, Outcome, NoLostUpdate, PromotionRecoverable,
       OutcomeTrue, OnlyAcknowledgedPromoted, Statuses
  <1> QED
    BY <1>1, <1>2, <1>3, <1>4, <1>5, ZenonT(60)

\* The deadline is past.
LEMMA TickExpiredInv ==
    ASSUME UpdaterInv, TickExpired
    PROVE  UpdaterInv'
  <1> USE UpdaterAssumption, WithFacts
      DEF UpdaterInv, TickExpired, exes, supervisor, worker, history, InProgress
  <1>1. TypeOK'
    BY DEF TypeOK, Phases, Executables, SupSteps, WorkSteps, Statuses
  <1>2. Writers'
    BY DEF TypeOK, Writers, Phases, NoLostUpdate, Statuses
  <1>3. Phases'
    BY DEF TypeOK, Writers, Phases, NoLostUpdate, Statuses
  <1>4. Executables'
    BY DEF TypeOK, Writers, Phases, Executables, Outcome, NoLostUpdate, PromotionRecoverable,
       OnlyAcknowledgedPromoted, Statuses
  <1>5. Outcome'
    BY DEF TypeOK, Writers, Phases, Executables, Outcome, NoLostUpdate, PromotionRecoverable,
       OutcomeTrue, OnlyAcknowledgedPromoted, Statuses
  <1> QED
    BY <1>1, <1>2, <1>3, <1>4, <1>5, ZenonT(60)

\* The worker is stopped.
LEMMA StopInv ==
    ASSUME UpdaterInv, Stop
    PROVE  UpdaterInv'
  <1> USE UpdaterAssumption, WithFacts
      DEF UpdaterInv, Stop, exes, supervisor, worker, history, InProgress
  <1>1. TypeOK'
    BY DEF TypeOK, Phases, Executables, SupSteps, WorkSteps, Statuses
  <1>2. Writers'
    BY DEF TypeOK, Writers, Phases, NoLostUpdate, Statuses
  <1>3. Phases'
    BY DEF TypeOK, Writers, Phases, NoLostUpdate, Statuses
  <1>4. Executables'
    BY DEF TypeOK, Writers, Phases, Executables, Outcome, NoLostUpdate, PromotionRecoverable,
       OnlyAcknowledgedPromoted, Statuses
  <1>5. Outcome'
    BY DEF TypeOK, Writers, Phases, Executables, Outcome, NoLostUpdate, PromotionRecoverable,
       OutcomeTrue, OnlyAcknowledgedPromoted, Statuses
  <1> QED
    BY <1>1, <1>2, <1>3, <1>4, <1>5, ZenonT(60)

\* Promotion: the old previous is removed.
LEMMA RemovePreviousInv ==
    ASSUME UpdaterInv, RemovePrevious
    PROVE  UpdaterInv'
  <1> USE UpdaterAssumption, WithFacts
      DEF UpdaterInv, RemovePrevious, exes, supervisor, worker, history, InProgress
  <1>1. TypeOK'
    BY DEF TypeOK, Phases, Executables, SupSteps, WorkSteps, Statuses
  <1>2. Writers'
    BY DEF TypeOK, Writers, Phases, NoLostUpdate, Statuses
  <1>3. Phases'
    BY DEF TypeOK, Writers, Phases, NoLostUpdate, Statuses
  <1>4. Executables'
    BY DEF TypeOK, Writers, Phases, Executables, Outcome, NoLostUpdate, PromotionRecoverable,
       OnlyAcknowledgedPromoted, Statuses
  <1>5. Outcome'
    BY DEF TypeOK, Writers, Phases, Executables, Outcome, NoLostUpdate, PromotionRecoverable,
       OutcomeTrue, OnlyAcknowledgedPromoted, Statuses
  <1> QED
    BY <1>1, <1>2, <1>3, <1>4, <1>5, ZenonT(60)

\* Promotion: the state.
LEMMA MarkRestartingInv ==
    ASSUME UpdaterInv, MarkRestarting
    PROVE  UpdaterInv'
  <1> USE UpdaterAssumption, WithFacts
      DEF UpdaterInv, MarkRestarting, exes, supervisor, worker, history, InProgress
  <1>1. TypeOK'
    BY ZenonT(60) DEF TypeOK, Phases, Executables, SupSteps, WorkSteps, Statuses
  <1>2. Writers'
    BY DEF TypeOK, Writers, Phases, NoLostUpdate, Statuses
  <1>3. Phases'
    BY DEF TypeOK, Writers, Phases, NoLostUpdate, Statuses
  <1>4. Executables'
    BY DEF TypeOK, Writers, Phases, Executables, Outcome, NoLostUpdate, PromotionRecoverable,
       OnlyAcknowledgedPromoted, Statuses
  <1>5. Outcome'
    BY DEF TypeOK, Writers, Phases, Executables, Outcome, NoLostUpdate, PromotionRecoverable,
       OutcomeTrue, OnlyAcknowledgedPromoted, Statuses
  <1> QED
    BY <1>1, <1>2, <1>3, <1>4, <1>5, ZenonT(60)

\* Promotion: current becomes previous.
LEMMA MoveCurrentInv ==
    ASSUME UpdaterInv, MoveCurrent
    PROVE  UpdaterInv'
  <1> USE UpdaterAssumption, WithFacts
      DEF UpdaterInv, MoveCurrent, exes, supervisor, worker, history, InProgress
  <1>1. TypeOK'
    BY DEF TypeOK, Phases, Executables, SupSteps, WorkSteps, Statuses
  <1>2. Writers'
    BY DEF TypeOK, Writers, Phases, NoLostUpdate, Statuses
  <1>3. Phases'
    BY DEF TypeOK, Writers, Phases, NoLostUpdate, Statuses
  <1>4. Executables'
    BY DEF TypeOK, Writers, Phases, Executables, Outcome, NoLostUpdate, PromotionRecoverable,
       OnlyAcknowledgedPromoted, Statuses
  <1>5. Outcome'
    BY DEF TypeOK, Writers, Phases, Executables, Outcome, NoLostUpdate, PromotionRecoverable,
       OutcomeTrue, OnlyAcknowledgedPromoted, Statuses
  <1> QED
    BY <1>1, <1>2, <1>3, <1>4, <1>5, ZenonT(60)

\* Promotion: next becomes current.
LEMMA SwapNextInv ==
    ASSUME UpdaterInv, SwapNext
    PROVE  UpdaterInv'
  <1> USE UpdaterAssumption, WithFacts
      DEF UpdaterInv, SwapNext, exes, supervisor, worker, history, InProgress
  <1>1. TypeOK'
    <2>1. ~armed
      BY DEF TypeOK
    <2>2. CASE current' = next /\ next' = Missing /\ sup' = "launch" /\ armed' = TRUE /\ UNCHANGED previous
      BY <2>2 DEF TypeOK, SupSteps
    <2>3. CASE current' = previous /\ previous' = Missing /\ sup' = "off" /\ UNCHANGED <<next, armed>>
      BY <2>1, <2>3 DEF TypeOK, SupSteps
    <2> QED
      BY ZenonT(60), <2>2, <2>3
  <1>2. Writers'
    BY DEF TypeOK, Writers, Phases, NoLostUpdate, Statuses
  <1>3. Phases'
    BY DEF TypeOK, Writers, Phases, NoLostUpdate, Statuses
  <1>4. Executables'
    BY DEF TypeOK, Writers, Phases, Executables, Outcome, NoLostUpdate, PromotionRecoverable,
       OnlyAcknowledgedPromoted, Statuses
  <1>5. Outcome'
    BY DEF TypeOK, Writers, Phases, Executables, Outcome, NoLostUpdate, PromotionRecoverable,
       OutcomeTrue, OnlyAcknowledgedPromoted, Statuses
  <1> QED
    BY <1>1, <1>2, <1>3, <1>4, <1>5, ZenonT(60)

\* The replacement starts.
LEMMA LaunchInv ==
    ASSUME UpdaterInv, Launch
    PROVE  UpdaterInv'
  <1> USE UpdaterAssumption, WithFacts
      DEF UpdaterInv, Launch, exes, supervisor, worker, history, InProgress
  <1>1. TypeOK'
    BY DEF TypeOK, Phases, Executables, SupSteps, WorkSteps, Statuses
  <1>2. Writers'
    BY DEF TypeOK, Writers, Phases, NoLostUpdate, Statuses
  <1>3. Phases'
    BY DEF TypeOK, Writers, Phases, NoLostUpdate, Statuses
  <1>4. Executables'
    BY DEF TypeOK, Writers, Phases, Executables, Outcome, NoLostUpdate, PromotionRecoverable,
       OnlyAcknowledgedPromoted, Statuses
  <1>5. Outcome'
    BY DEF TypeOK, Writers, Phases, Executables, Outcome, NoLostUpdate, PromotionRecoverable,
       OutcomeTrue, OnlyAcknowledgedPromoted, Statuses
  <1> QED
    BY <1>1, <1>2, <1>3, <1>4, <1>5, ZenonT(60)

\* The worker has ended.
LEMMA ChildDoneInv ==
    ASSUME UpdaterInv, ChildDone
    PROVE  UpdaterInv'
  <1> USE UpdaterAssumption, WithFacts
      DEF UpdaterInv, ChildDone, exes, supervisor, worker, history, InProgress
  <1>1. TypeOK'
    BY DEF TypeOK, Phases, Executables, SupSteps, WorkSteps, Statuses
  <1>2. Writers'
    BY DEF TypeOK, Writers, Phases, NoLostUpdate, Statuses
  <1>3. Phases'
    BY DEF TypeOK, Writers, Phases, NoLostUpdate, Statuses
  <1>4. Executables'
    BY DEF TypeOK, Writers, Phases, Executables, Outcome, NoLostUpdate, PromotionRecoverable,
       OnlyAcknowledgedPromoted, Statuses
  <1>5. Outcome'
    BY DEF TypeOK, Writers, Phases, Executables, Outcome, NoLostUpdate, PromotionRecoverable,
       OutcomeTrue, OnlyAcknowledgedPromoted, Statuses
  <1> QED
    BY <1>1, <1>2, <1>3, <1>4, <1>5, ZenonT(60)

\* previous becomes current again.
LEMMA RollbackInv ==
    ASSUME UpdaterInv, Rollback
    PROVE  UpdaterInv'
  <1> USE UpdaterAssumption, WithFacts
      DEF UpdaterInv, Rollback, exes, supervisor, worker, history, InProgress
  <1>1. TypeOK'
    BY DEF TypeOK, Phases, Executables, SupSteps, WorkSteps, Statuses
  <1>2. Writers'
    BY DEF TypeOK, Writers, Phases, NoLostUpdate, Statuses
  <1>3. Phases'
    BY DEF TypeOK, Writers, Phases, NoLostUpdate, Statuses
  <1>4. Executables'
    BY ZenonT(60) DEF TypeOK, Writers, Phases, Executables, Outcome, NoLostUpdate, PromotionRecoverable,
       OnlyAcknowledgedPromoted, Statuses
  <1>5. Outcome'
    BY ZenonT(60) DEF TypeOK, Writers, Phases, Executables, Outcome, NoLostUpdate, PromotionRecoverable,
       OutcomeTrue, OnlyAcknowledgedPromoted, Statuses
  <1> QED
    BY <1>1, <1>2, <1>3, <1>4, <1>5, ZenonT(60)

\* Both processes end.
LEMMA CrashInv ==
    ASSUME UpdaterInv, Crash
    PROVE  UpdaterInv'
  <1> USE UpdaterAssumption, WithFacts
      DEF UpdaterInv, Crash, exes, supervisor, worker, history, InProgress
  <1>1. TypeOK'
    BY ZenonT(60) DEF TypeOK, Phases, Executables, SupSteps, WorkSteps, Statuses
  <1>2. Writers'
    BY DEF TypeOK, Writers, Phases, NoLostUpdate, Statuses
  <1>3. Phases'
    BY DEF TypeOK, Writers, Phases, NoLostUpdate, Statuses
  <1>4. Executables'
    BY DEF TypeOK, Writers, Phases, Executables, Outcome, NoLostUpdate, PromotionRecoverable,
       OnlyAcknowledgedPromoted, Statuses
  <1>5. Outcome'
    BY DEF TypeOK, Writers, Phases, Executables, Outcome, NoLostUpdate, PromotionRecoverable,
       OutcomeTrue, OnlyAcknowledgedPromoted, Statuses
  <1> QED
    BY <1>1, <1>2, <1>3, <1>4, <1>5, ZenonT(60)

\* No further crash.
LEMMA StabiliseInv ==
    ASSUME UpdaterInv, Stabilise
    PROVE  UpdaterInv'
  <1> USE UpdaterAssumption, WithFacts
      DEF UpdaterInv, Stabilise, exes, supervisor, worker, history, InProgress
  <1>1. TypeOK'
    BY DEF TypeOK, Phases, Executables, SupSteps, WorkSteps, Statuses
  <1>2. Writers'
    BY DEF TypeOK, Writers, Phases, NoLostUpdate, Statuses
  <1>3. Phases'
    BY DEF TypeOK, Writers, Phases, NoLostUpdate, Statuses
  <1>4. Executables'
    BY DEF TypeOK, Writers, Phases, Executables, Outcome, NoLostUpdate, PromotionRecoverable,
       OnlyAcknowledgedPromoted, Statuses
  <1>5. Outcome'
    BY DEF TypeOK, Writers, Phases, Executables, Outcome, NoLostUpdate, PromotionRecoverable,
       OutcomeTrue, OnlyAcknowledgedPromoted, Statuses
  <1> QED
    BY <1>1, <1>2, <1>3, <1>4, <1>5, ZenonT(60)

\* Every step keeps the invariant.
LEMMA UpdaterNextInv == UpdaterInv /\ [Next]_vars => UpdaterInv'
  <1> SUFFICES ASSUME UpdaterInv, [Next]_vars PROVE UpdaterInv'
    OBVIOUS
  <1>1. CASE Worker
    BY <1>1, StageBeginInv, StageFetchInv, StageWriteInv, AcknowledgeReadInv, AcknowledgeWriteInv, WorkerExitInv
       DEF Worker
  <1>2. CASE Boot \/ CopyBinary \/ Recover \/ RecordRolledBack \/ Start
    BY <1>2, BootInv, CopyBinaryInv, RecoverInv, RecordRolledBackInv, StartInv
  <1>3. CASE TickReady \/ TickHealthy \/ TickExpired \/ Stop
    BY <1>3, TickReadyInv, TickHealthyInv, TickExpiredInv, StopInv
  <1>4. CASE RemovePrevious \/ MarkRestarting \/ MoveCurrent \/ SwapNext
    BY <1>4, RemovePreviousInv, MarkRestartingInv, MoveCurrentInv, SwapNextInv
  <1>5. CASE Launch \/ ChildDone \/ Rollback
    BY <1>5, LaunchInv, ChildDoneInv, RollbackInv
  <1>6. CASE Crash \/ Stabilise
    BY <1>6, CrashInv, StabiliseInv
  <1>7. CASE UNCHANGED vars
    <2>1. UNCHANGED <<current, previous, next, disk, sup, mem, armed, child, work, seen, unacked,
                      confirmed, base, overrode, stable>>
      BY <1>7 DEF vars, exes, supervisor, worker, history
    <2>2. TypeOK'
      BY <2>1 DEF UpdaterInv, TypeOK
    <2>3. Phases'
      BY <2>1 DEF UpdaterInv, Phases
    <2>4. Writers'
      BY <2>1, ZenonT(60) DEF UpdaterInv, Writers, NoLostUpdate
    <2>5. Executables'
      BY <2>1, ZenonT(60) DEF UpdaterInv, Executables, PromotionRecoverable, OnlyAcknowledgedPromoted
    <2>6. Outcome'
      BY <2>1, ZenonT(60) DEF UpdaterInv, Outcome, PromotionRecoverable, OutcomeTrue, OnlyAcknowledgedPromoted
    <2> QED
      BY <2>2, <2>3, <2>4, <2>5, <2>6 DEF UpdaterInv
  <1> QED
    BY <1>1, <1>2, <1>3, <1>4, <1>5, <1>6, <1>7 DEF Next, Supervise

-----------------------------------------------------------------------------
(* The theorems. *)

\* The inductive invariant holds in every reachable state.
THEOREM UpdaterInvariant == Spec => []UpdaterInv
  <1>1. Init => UpdaterInv
    BY ZenonT(60), UpdaterAssumption, WithFacts DEF Init, UpdaterInv, TypeOK, SupSteps, WorkSteps, Writers, NoLostUpdate, Phases,
       Executables, Outcome, PromotionRecoverable, OutcomeTrue, OnlyAcknowledgedPromoted
  <1> QED
    BY <1>1, UpdaterNextInv, PTL DEF Spec

\* Every variable has its type.
THEOREM TypeCorrect == Spec => []TypeOK
  BY UpdaterInvariant, PTL DEF UpdaterInv

\* The two unlocked writers of state.json never overwrite each other's change.
THEOREM NoUpdateLost == Spec => []NoLostUpdate
  <1>1. UpdaterInv => NoLostUpdate
    BY DEF UpdaterInv, Writers
  <1> QED
    BY <1>1, UpdaterInvariant, PTL

\* A crash at any point of a promotion leaves the worker being replaced where
\* the next start finds it.
THEOREM AlwaysRecoverable == Spec => []PromotionRecoverable
  <1>1. UpdaterInv => PromotionRecoverable
    BY DEF UpdaterInv, Outcome
  <1> QED
    BY <1>1, UpdaterInvariant, PTL

\* The outcome on disk is the one that runs.
THEOREM OutcomeIsTrue == Spec => []OutcomeTrue
  <1>1. UpdaterInv => OutcomeTrue
    BY DEF UpdaterInv, Outcome
  <1> QED
    BY <1>1, UpdaterInvariant, PTL

\* Only an update whose result the controller acknowledged is promoted, with
\* the file that was verified.
THEOREM PromotedAcknowledged == Spec => []OnlyAcknowledgedPromoted
  <1>1. UpdaterInv => OnlyAcknowledgedPromoted
    BY DEF UpdaterInv, Outcome
  <1> QED
    BY <1>1, UpdaterInvariant, PTL

-----------------------------------------------------------------------------
(* WireGuard. *)

TunnelStates == [spec : Specs \cup {NoSpec}, enabled : BOOLEAN]

\* Every variable has its type; an enabled tunnel has a configuration.
FileTypes ==
    /\ conf \in [Tunnels -> Specs \cup {NoSpec}]
    /\ tunnel \in [Tunnels -> TunnelStates]
    /\ \A t \in Tunnels : tunnel[t].enabled => tunnel[t].spec \in Specs
    /\ iface \in [Tunnels -> Specs \cup {NoSpec, Foreign}]

LocalTypes ==
    /\ wpc \in WireGuardSteps /\ cur \in Tunnels
    /\ spec \in Specs \cup {NoSpec} /\ oldConf \in Specs \cup {NoSpec}
    /\ existed \in BOOLEAN /\ clean \in BOOLEAN /\ uncertain \in SUBSET Tunnels

TunnelTypeOK == FileTypes /\ LocalTypes

\* A tunnel that is not being changed: its interface runs its configuration,
\* which is the saved one, and keys without saved state are gone.
Sound(t) ==
    /\ iface[t] \in Specs => tunnel[t].enabled /\ tunnel[t].spec = iface[t] /\ conf[t] = iface[t]
    /\ tunnel[t].spec = NoSpec => conf[t] = NoSpec

Settled == \A t \in Tunnels \ uncertain : t # cur \/ wpc \notin Exposed => Sound(t)

\* What apply has to put back when it fails.
Remembered ==
    wpc \in Exposed \cup {"down", "write", "undo_up"} /\ cur \notin uncertain =>
        /\ tunnel[cur].spec = NoSpec => oldConf = NoSpec
        /\ existed => tunnel[cur].enabled /\ tunnel[cur].spec = oldConf

\* How far the operation in progress is.
Progress ==
    /\ wpc \in {"down", "write", "undo_up"} => conf[cur] = oldConf
    /\ wpc \in {"write", "up", "undo_up", "mark", "unlink", "disown"} => iface[cur] = NoSpec
    /\ wpc \in {"down", "write", "up", "verify", "keep"} => spec \in Specs
    /\ wpc \in {"up", "verify", "keep"} => conf[cur] = spec
    /\ wpc \in {"verify", "keep"} => iface[cur] = spec
    /\ wpc = "undo_conf" /\ clean => iface[cur] = NoSpec
    /\ wpc \in {"mark", "unlink"} => tunnel[cur].spec # NoSpec
    /\ wpc = "disown" => conf[cur] = NoSpec
    /\ wpc \notin {"undo_conf", "undo_up"} => clean
    /\ wpc = "undo_up" => existed

\* Tunnels restoreWireGuard has been through have their interface.
Restored ==
    /\ wpc = "restore" => restored # "complete"
    /\ wpc = "restore" => \A t \in Tunnels : t < cur /\ tunnel[t].enabled => Verified(t, tunnel[t].spec)
    /\ wpc = "off" => cur = 1

TunnelInv == TunnelTypeOK /\ Settled /\ Remembered /\ Progress /\ Restored

\* The two kinds of saved state.
LEMMA StateFacts ==
    /\ NoTunnel \in TunnelStates /\ ~NoTunnel.enabled /\ NoTunnel.spec = NoSpec
    /\ \A s \in Specs : LET written == [spec |-> s, enabled |-> TRUE]
                        IN  written \in TunnelStates /\ written.enabled /\ written.spec = s
    /\ \A s \in TunnelStates : /\ [s EXCEPT !.enabled = FALSE] \in TunnelStates
                               /\ ~[s EXCEPT !.enabled = FALSE].enabled
                               /\ [s EXCEPT !.enabled = FALSE].spec = s.spec
  BY ZenonT(60) DEF NoTunnel, TunnelStates

\* The tunnels are numbered from 1.
LEMMA FirstTunnel == 1 \in Tunnels /\ \A t \in Tunnels : t < NTunnels => t + 1 \in Tunnels
  BY WireGuardAssumption DEF Tunnels

\* The invariant holds initially.
LEMMA TunnelInitInv == WireGuardInit => TunnelInv
  <1> SUFFICES ASSUME WireGuardInit PROVE TunnelInv
    OBVIOUS
  <1> USE StateFacts, FirstTunnel, WireGuardAssumption DEF WireGuardInit
  <1>1. TunnelTypeOK
    BY ZenonT(60) DEF TunnelTypeOK, FileTypes, LocalTypes, WireGuardSteps
  <1>2. Settled /\ Remembered
    BY DEF Settled, Sound, Remembered, Exposed
  <1>3. Progress /\ Restored
    BY DEF Progress, Restored
  <1> QED
    BY <1>1, <1>2, <1>3 DEF TunnelInv

-----------------------------------------------------------------------------
(* A step touches one tunnel. *)

\* The other tunnels stay as they are.
Others(u) ==
    \A t \in Tunnels \ {u} :
        /\ conf'[t] = conf[t] /\ tunnel'[t] = tunnel[t] /\ iface'[t] = iface[t]
        /\ t \in uncertain' <=> t \in uncertain

\* It is enough to look at the tunnel that is touched.
LEMMA OneTunnel ==
    ASSUME TunnelInv, NEW u \in Tunnels, Others(u), u = cur \/ wpc \notin Exposed,
           u \in uncertain' \/ (cur' = u /\ wpc' \in Exposed) \/ Sound(u)'
    PROVE  Settled'
  <1> SUFFICES ASSUME NEW t \in Tunnels, t \notin uncertain', t # cur' \/ wpc' \notin Exposed
               PROVE  Sound(t)'
    BY DEF Settled
  <1>1. CASE t # u
    BY <1>1 DEF Others, Settled, Sound, TunnelInv
  <1>2. CASE t = u
    BY <1>2
  <1> QED
    BY <1>1, <1>2

\* An operation that is over leaves nothing in its locals.
LEMMA Over ==
    ASSUME Done
    PROVE  Remembered' /\ Progress' /\ Restored' /\ (uncertain' \in SUBSET Tunnels => LocalTypes')
  BY ZenonT(60), FirstTunnel DEF Done, LocalTypes, Remembered, Progress, Restored, Exposed, WireGuardSteps

\* What the invariant says of the tunnel of the operation.
LEMMA Current ==
    ASSUME TunnelInv
    PROVE  /\ cur \in Tunnels /\ conf[cur] \in Specs \cup {NoSpec} /\ tunnel[cur] \in TunnelStates
           /\ iface[cur] \in Specs \cup {NoSpec, Foreign}
           /\ tunnel[cur].enabled => tunnel[cur].spec \in Specs
           /\ conf = [conf EXCEPT ![cur] = conf[cur]]
           /\ tunnel = [tunnel EXCEPT ![cur] = tunnel[cur]]
           /\ iface = [iface EXCEPT ![cur] = iface[cur]]
           /\ cur \notin uncertain /\ wpc \notin Exposed => Sound(cur)
  BY DEF TunnelInv, TunnelTypeOK, FileTypes, LocalTypes, Settled

\* Taking the previous interface down.
LEMMA StopPreviousInv ==
    ASSUME TunnelInv, StopPrevious
    PROVE  TunnelInv'
  <1>0. PICK u \in Tunnels : u = cur
    BY Current
  <1>1. wpc = "down" /\ UNCHANGED <<conf, tunnel, uncertain, restored>>
    BY DEF StopPrevious, tunnelFiles
  <1>2. PICK i \in {iface[u], NoSpec} :
            iface' = [iface EXCEPT ![u] = i] /\ ((i = NoSpec /\ Step("write")) \/ Done)
    BY <1>0, Current DEF StopPrevious, Down
  <1>3. TunnelTypeOK' /\ Others(u) /\ conf'[u] = conf[u] /\ tunnel'[u] = tunnel[u] /\ iface'[u] = i
    <2>1. LocalTypes'
      BY <1>0, <1>1, <1>2, Over DEF TunnelInv, TunnelTypeOK, LocalTypes, Step, locals, WireGuardSteps
    <2> QED
      BY <1>0, <1>1, <1>2, <2>1 DEF TunnelInv, TunnelTypeOK, FileTypes, LocalTypes, Others
  <1>4. Settled'
    <2>1. u \notin uncertain' => Sound(u)'
      BY <1>0, <1>1, <1>2, <1>3, Current, WireGuardAssumption DEF Sound, Exposed
    <2> QED
      BY <1>0, <1>3, <2>1, OneTunnel
  <1>5. CASE Done
    BY <1>0, <1>1, <1>3, <1>4, <1>5, Over DEF TunnelInv
  <1>6. CASE i = NoSpec /\ Step("write")
    BY <1>0, <1>1, <1>3, <1>4, <1>6 DEF TunnelInv, Remembered, Progress, Restored, Step, locals, Exposed
  <1> QED
    BY <1>2, <1>5, <1>6

\* Writing the configuration.
LEMMA WriteConfigInv ==
    ASSUME TunnelInv, WriteConfig
    PROVE  TunnelInv'
  <1>0. PICK u \in Tunnels : u = cur
    BY Current
  <1>1. wpc = "write" /\ UNCHANGED <<tunnel, iface, uncertain, restored>>
    BY DEF WriteConfig
  <1>2. PICK c \in {conf[u], spec} :
            conf' = [conf EXCEPT ![u] = c] /\ ((c = spec /\ Step("up")) \/ Step("undo_down"))
    BY <1>0, Current DEF WriteConfig
  <1>3. TunnelTypeOK' /\ Others(u) /\ conf'[u] = c /\ tunnel'[u] = tunnel[u] /\ iface'[u] = iface[u]
    <2>1. LocalTypes'
      BY <1>0, <1>1, <1>2, Over DEF TunnelInv, TunnelTypeOK, LocalTypes, Step, locals, WireGuardSteps
    <2> QED
      BY <1>0, <1>1, <1>2, <2>1 DEF TunnelInv, TunnelTypeOK, FileTypes, LocalTypes, Others
  <1>4. Settled'
    BY <1>0, <1>1, <1>2, <1>3, OneTunnel DEF Step, Unclean, locals, Exposed
  <1>5. CASE c = spec /\ Step("up")
    BY <1>0, <1>1, <1>3, <1>4, <1>5 DEF TunnelInv, Remembered, Progress, Restored, Step, locals, Exposed
  <1>6. CASE Step("undo_down")
    BY <1>0, <1>1, <1>3, <1>4, <1>6 DEF TunnelInv, Remembered, Progress, Restored, Step, locals, Exposed
  <1> QED
    BY <1>2, <1>5, <1>6

\* Bringing the interface up.
LEMMA BringInv ==
    ASSUME TunnelInv, Bring
    PROVE  TunnelInv'
  <1>0. PICK u \in Tunnels : u = cur
    BY Current
  <1>1. wpc = "up" /\ UNCHANGED <<conf, tunnel, uncertain, restored>>
    BY DEF Bring, tunnelFiles
  <1>2. PICK i \in {conf[u], NoSpec} :
            iface' = [iface EXCEPT ![u] = i] /\ ((i = conf[u] /\ Step("verify")) \/ Step("undo_down"))
    BY <1>0, Current DEF Bring, Up
  <1>3. TunnelTypeOK' /\ Others(u) /\ conf'[u] = conf[u] /\ tunnel'[u] = tunnel[u] /\ iface'[u] = i
    <2>1. LocalTypes'
      BY ZenonT(60), <1>0, <1>1, <1>2, Over DEF TunnelInv, TunnelTypeOK, LocalTypes, Step, locals, WireGuardSteps
    <2> QED
      BY <1>0, <1>1, <1>2, <2>1 DEF TunnelInv, TunnelTypeOK, FileTypes, LocalTypes, Others
  <1>4. Settled'
    BY ZenonT(60), <1>0, <1>1, <1>2, <1>3, OneTunnel DEF Step, Unclean, locals, Exposed
  <1>5. CASE i = conf[u] /\ Step("verify")
    BY ZenonT(60), <1>0, <1>1, <1>3, <1>4, <1>5 DEF TunnelInv, Remembered, Progress, Restored, Step, locals, Exposed
  <1>6. CASE Step("undo_down")
    BY <1>0, <1>1, <1>3, <1>4, <1>6 DEF TunnelInv, Remembered, Progress, Restored, Step, locals, Exposed
  <1> QED
    BY <1>2, <1>5, <1>6

\* Comparing the keys.
LEMMA VerifyInv ==
    ASSUME TunnelInv, Verify
    PROVE  TunnelInv'
  <1>0. PICK u \in Tunnels : u = cur
    BY Current
  <1>1. wpc = "verify" /\ UNCHANGED <<conf, tunnel, iface, uncertain, restored>>
    BY DEF Verify, tunnelFiles
  <1>2. Step("keep") \/ Step("undo_down")
    BY <1>0, Current DEF Verify
  <1>3. TunnelTypeOK' /\ Others(u) /\ conf'[u] = conf[u] /\ tunnel'[u] = tunnel[u] /\ iface'[u] = iface[u]
    <2>1. LocalTypes'
      BY <1>0, <1>1, <1>2, Over DEF TunnelInv, TunnelTypeOK, LocalTypes, Step, locals, WireGuardSteps
    <2> QED
      BY <1>0, <1>1, <1>2, <2>1 DEF TunnelInv, TunnelTypeOK, FileTypes, LocalTypes, Others
  <1>4. Settled'
    BY <1>0, <1>1, <1>2, <1>3, OneTunnel DEF Step, Unclean, locals, Exposed
  <1>5. CASE Step("keep")
    BY <1>0, <1>1, <1>3, <1>4, <1>5 DEF TunnelInv, Remembered, Progress, Restored, Step, locals, Exposed
  <1>6. CASE Step("undo_down")
    BY <1>0, <1>1, <1>3, <1>4, <1>6 DEF TunnelInv, Remembered, Progress, Restored, Step, locals, Exposed
  <1> QED
    BY <1>2, <1>5, <1>6

\* Saving the state.
LEMMA KeepTunnelInv ==
    ASSUME TunnelInv, KeepTunnel
    PROVE  TunnelInv'
  <1>0. PICK u \in Tunnels : u = cur
    BY Current
  <1>1. wpc = "keep" /\ spec \in Specs /\ UNCHANGED <<conf, iface, restored>>
    BY DEF KeepTunnel, TunnelInv, Progress
  <1>2. PICK s \in {tunnel[u], [spec |-> spec, enabled |-> TRUE]} :
            /\ tunnel' = [tunnel EXCEPT ![u] = s]
            /\ \/ s = [spec |-> spec, enabled |-> TRUE] /\ uncertain' = uncertain \ {u} /\ Done
               \/ s = tunnel[u] /\ UNCHANGED uncertain /\ Step("undo_down")
    BY <1>0, Current DEF KeepTunnel
  <1>3. TunnelTypeOK' /\ Others(u) /\ conf'[u] = conf[u] /\ tunnel'[u] = s /\ iface'[u] = iface[u]
    <2>1. LocalTypes'
      BY <1>0, <1>1, <1>2, Over DEF TunnelInv, TunnelTypeOK, LocalTypes, Step, locals, WireGuardSteps
    <2> QED
      BY <1>0, <1>1, <1>2, <2>1, StateFacts DEF TunnelInv, TunnelTypeOK, FileTypes, LocalTypes, Others
  <1>4. Settled'
    <2>1. CASE s = [spec |-> spec, enabled |-> TRUE] /\ uncertain' = uncertain \ {u} /\ Done
      <3>1. Sound(u)'
        BY <1>0, <1>1, <1>3, <2>1, StateFacts, WireGuardAssumption DEF TunnelInv, Progress, Sound
      <3> QED
        BY <1>0, <1>3, <3>1, OneTunnel
    <2>2. CASE s = tunnel[u] /\ UNCHANGED uncertain /\ Step("undo_down")
      BY <1>0, <1>3, <2>2, OneTunnel DEF Step, locals, Exposed
    <2> QED
      BY <1>2, <2>1, <2>2
  <1>5. CASE Done
    BY ZenonT(60), <1>0, <1>1, <1>3, <1>4, <1>5, Over DEF TunnelInv
  <1>6. CASE s = tunnel[u] /\ UNCHANGED uncertain /\ Step("undo_down")
    BY <1>0, <1>1, <1>3, <1>4, <1>6 DEF TunnelInv, Remembered, Progress, Restored, Step, locals, Exposed
  <1> QED
    BY <1>2, <1>5, <1>6

\* Rolling back: the interface.
LEMMA UndoDownInv ==
    ASSUME TunnelInv, UndoDown
    PROVE  TunnelInv'
  <1>0. PICK u \in Tunnels : u = cur
    BY Current
  <1>1. wpc = "undo_down" /\ UNCHANGED <<conf, tunnel, uncertain, restored>>
    BY DEF UndoDown, tunnelFiles
  <1>2. PICK i \in {iface[u], NoSpec} :
            iface' = [iface EXCEPT ![u] = i] /\ ((i = NoSpec /\ Step("undo_conf")) \/ Unclean("undo_conf"))
    BY <1>0, Current DEF UndoDown, Down
  <1>3. TunnelTypeOK' /\ Others(u) /\ conf'[u] = conf[u] /\ tunnel'[u] = tunnel[u] /\ iface'[u] = i
    <2>1. LocalTypes'
      BY ZenonT(60), <1>0, <1>1, <1>2, Over DEF TunnelInv, TunnelTypeOK, LocalTypes, Step, Unclean, locals, WireGuardSteps
    <2> QED
      BY <1>0, <1>1, <1>2, <2>1 DEF TunnelInv, TunnelTypeOK, FileTypes, LocalTypes, Others
  <1>4. Settled'
    BY <1>0, <1>1, <1>2, <1>3, OneTunnel DEF Step, Unclean, locals, Exposed
  <1>5. CASE i = NoSpec /\ Step("undo_conf")
    BY <1>0, <1>1, <1>3, <1>4, <1>5 DEF TunnelInv, Remembered, Progress, Restored, Step, locals, Exposed
  <1>6. CASE Unclean("undo_conf")
    BY <1>0, <1>1, <1>3, <1>4, <1>6 DEF TunnelInv, Remembered, Progress, Restored, Unclean, locals, Exposed
  <1> QED
    BY <1>2, <1>5, <1>6

\* Rolling back: the configuration.
LEMMA UndoConfigInv ==
    ASSUME TunnelInv, UndoConfig
    PROVE  TunnelInv'
  <1>0. PICK u \in Tunnels : u = cur
    BY Current
  <1>1. wpc = "undo_conf" /\ UNCHANGED <<tunnel, iface, restored>>
    BY DEF UndoConfig
  <1>2. \/ conf' = [conf EXCEPT ![u] = oldConf] /\ existed /\ clean /\ Step("undo_up") /\ UNCHANGED uncertain
        \/ conf' = [conf EXCEPT ![u] = oldConf] /\ ~existed /\ clean /\ Done /\ UNCHANGED uncertain
        \/ /\ \E c \in {conf[u], oldConf} : conf' = [conf EXCEPT ![u] = c]
           /\ Done /\ uncertain' = uncertain \cup {u}
    BY <1>0, Current DEF UndoConfig, EndRollback
  <1>3. TunnelTypeOK' /\ Others(u) /\ tunnel'[u] = tunnel[u] /\ iface'[u] = iface[u]
    <2>1. LocalTypes'
      BY ZenonT(60), <1>0, <1>1, <1>2, Over DEF TunnelInv, TunnelTypeOK, LocalTypes, Step, locals, WireGuardSteps
    <2> QED
      BY <1>0, <1>1, <1>2, <2>1 DEF TunnelInv, TunnelTypeOK, FileTypes, LocalTypes, Others
  <1>4. CASE conf' = [conf EXCEPT ![u] = oldConf] /\ existed /\ clean /\ Step("undo_up") /\ UNCHANGED uncertain
    <2>1. conf'[u] = oldConf /\ iface[u] = NoSpec
      BY <1>0, <1>1, <1>4 DEF TunnelInv, TunnelTypeOK, FileTypes, Progress
    <2>2. u \notin uncertain' => Sound(u)'
      BY <1>0, <1>1, <1>3, <1>4, <2>1, WireGuardAssumption DEF TunnelInv, Remembered, Sound, Exposed
    <2>3. Settled'
      BY <1>0, <1>3, <2>2, OneTunnel
    <2> QED
      BY <1>0, <1>1, <1>3, <1>4, <2>1, <2>3 DEF TunnelInv, Remembered, Progress, Restored, Step, locals, Exposed
  <1>5. CASE conf' = [conf EXCEPT ![u] = oldConf] /\ ~existed /\ clean /\ Done /\ UNCHANGED uncertain
    <2>1. conf'[u] = oldConf /\ iface[u] = NoSpec
      BY <1>0, <1>1, <1>5 DEF TunnelInv, TunnelTypeOK, FileTypes, Progress
    <2>2. u \notin uncertain' => Sound(u)'
      BY ZenonT(60), <1>0, <1>1, <1>3, <1>5, <2>1, WireGuardAssumption DEF TunnelInv, Remembered, Sound, Exposed
    <2> QED
      BY <1>0, <1>3, <1>5, <2>2, OneTunnel, Over DEF TunnelInv
  <1>6. CASE Done /\ uncertain' = uncertain \cup {u}
    BY <1>0, <1>3, <1>6, OneTunnel, Over DEF TunnelInv
  <1> QED
    BY <1>2, <1>4, <1>5, <1>6

\* Rolling back: the previous interface.
LEMMA UndoUpInv ==
    ASSUME TunnelInv, UndoUp
    PROVE  TunnelInv'
  <1>0. PICK u \in Tunnels : u = cur
    BY Current
  <1>1. wpc = "undo_up" /\ existed /\ conf[u] = oldConf /\ UNCHANGED <<conf, tunnel, restored>> /\ Done
    BY ZenonT(60), <1>0 DEF UndoUp, EndRollback, TunnelInv, Progress, tunnelFiles
  <1>2. PICK i \in {conf[u], NoSpec} :
            /\ iface' = [iface EXCEPT ![u] = i]
            /\ \/ i = conf[u] /\ UNCHANGED uncertain
               \/ uncertain' = uncertain \cup {u}
    BY <1>0 DEF UndoUp, Up, EndRollback
  <1>3. TunnelTypeOK' /\ Others(u) /\ conf'[u] = conf[u] /\ tunnel'[u] = tunnel[u] /\ iface'[u] = i
    <2>1. LocalTypes'
      BY <1>0, <1>1, <1>2, Over DEF TunnelInv, TunnelTypeOK, LocalTypes
    <2> QED
      BY <1>0, <1>1, <1>2, <2>1 DEF TunnelInv, TunnelTypeOK, FileTypes, LocalTypes, Others
  <1>4. u \notin uncertain' => Sound(u)'
    BY <1>0, <1>1, <1>2, <1>3, WireGuardAssumption DEF TunnelInv, Remembered, Sound
  <1> QED
    BY <1>0, <1>1, <1>3, <1>4, OneTunnel, Over DEF TunnelInv

\* Removing: the saved state is disabled.
LEMMA MarkInv ==
    ASSUME TunnelInv, Mark
    PROVE  TunnelInv'
  <1>0. PICK u \in Tunnels : u = cur
    BY Current
  <1>1. wpc = "mark" /\ UNCHANGED <<conf, iface, uncertain, restored>>
    BY DEF Mark
  <1>2. PICK s \in {tunnel[u], [tunnel[u] EXCEPT !.enabled = FALSE]} :
            tunnel' = [tunnel EXCEPT ![u] = s] /\ (Step("unlink") \/ Done)
    BY <1>0, Current DEF Mark
  <1>3. s \in TunnelStates /\ s.spec = tunnel[u].spec /\ (s.enabled => s.spec \in Specs)
    <2>1. tunnel[u] \in TunnelStates /\ (tunnel[u].enabled => tunnel[u].spec \in Specs)
      BY <1>0, Current
    <2>2. CASE s = tunnel[u]
      BY <2>1, <2>2
    <2>3. CASE s = [tunnel[u] EXCEPT !.enabled = FALSE]
      BY ZenonT(60), <2>1, <2>3 DEF TunnelStates
    <2> QED
      BY <1>2, <2>2, <2>3
  <1>4. LocalTypes'
    BY <1>0, <1>1, <1>2, Over DEF TunnelInv, TunnelTypeOK, LocalTypes, Step, locals, WireGuardSteps
  <1>5. TunnelTypeOK' /\ Others(u) /\ conf'[u] = conf[u] /\ tunnel'[u] = s /\ iface'[u] = iface[u]
    BY <1>0, <1>1, <1>2, <1>3, <1>4 DEF TunnelInv, TunnelTypeOK, FileTypes, LocalTypes, Others
  <1>6. Sound(u)'
    BY <1>0, <1>1, <1>3, <1>5, WireGuardAssumption DEF TunnelInv, Progress, Sound
  <1>7. Settled'
    BY <1>0, <1>5, <1>6, OneTunnel
  <1>8. CASE Done
    BY <1>5, <1>7, <1>8, Over DEF TunnelInv
  <1>9. CASE Step("unlink")
    BY <1>0, <1>1, <1>3, <1>5, <1>7, <1>9 DEF TunnelInv, Remembered, Progress, Restored, Step, locals, Exposed
  <1> QED
    BY <1>2, <1>8, <1>9

\* Removing: the configuration.
LEMMA UnlinkInv ==
    ASSUME TunnelInv, Unlink
    PROVE  TunnelInv'
  <1>0. PICK u \in Tunnels : u = cur
    BY Current
  <1>1. wpc = "unlink" /\ UNCHANGED <<tunnel, iface, uncertain, restored>>
    BY DEF Unlink
  <1>2. PICK c \in {conf[u], NoSpec} :
            conf' = [conf EXCEPT ![u] = c] /\ ((c = NoSpec /\ Step("disown")) \/ Done)
    BY <1>0, Current DEF Unlink
  <1>3. TunnelTypeOK' /\ Others(u) /\ conf'[u] = c /\ tunnel'[u] = tunnel[u] /\ iface'[u] = iface[u]
    <2>1. LocalTypes'
      BY <1>0, <1>1, <1>2, Over DEF TunnelInv, TunnelTypeOK, LocalTypes, Step, locals, WireGuardSteps
    <2> QED
      BY <1>0, <1>1, <1>2, <2>1 DEF TunnelInv, TunnelTypeOK, FileTypes, LocalTypes, Others
  <1>4. Settled'
    <2>1. u \notin uncertain' => Sound(u)'
      BY <1>0, <1>1, <1>2, <1>3, Current, WireGuardAssumption DEF TunnelInv, Progress, Sound, Exposed
    <2> QED
      BY <1>0, <1>3, <2>1, OneTunnel
  <1>5. CASE Done
    BY ZenonT(60), <1>0, <1>1, <1>3, <1>4, <1>5, Over DEF TunnelInv
  <1>6. CASE c = NoSpec /\ Step("disown")
    BY <1>0, <1>1, <1>3, <1>4, <1>6 DEF TunnelInv, Remembered, Progress, Restored, Step, locals, Exposed
  <1> QED
    BY <1>2, <1>5, <1>6

\* Removing: the saved state.
LEMMA DisownInv ==
    ASSUME TunnelInv, Disown
    PROVE  TunnelInv'
  <1>0. PICK u \in Tunnels : u = cur
    BY Current
  <1>1. wpc = "disown" /\ Done /\ UNCHANGED <<conf, iface, restored>>
    BY DEF Disown
  <1>2. PICK s \in {tunnel[u], NoTunnel} :
            tunnel' = [tunnel EXCEPT ![u] = s] /\ uncertain' \in {uncertain, uncertain \ {u}}
    BY <1>0, Current DEF Disown
  <1>3. TunnelTypeOK' /\ Others(u) /\ conf'[u] = conf[u] /\ tunnel'[u] = s /\ iface'[u] = iface[u]
    <2>1. LocalTypes'
      BY <1>0, <1>1, <1>2, Over DEF TunnelInv, TunnelTypeOK, LocalTypes, Step, locals, WireGuardSteps
    <2> QED
      BY <1>0, <1>1, <1>2, <2>1, StateFacts DEF TunnelInv, TunnelTypeOK, FileTypes, LocalTypes, Others
  <1>4. Settled'
    <2>1. u \notin uncertain' => Sound(u)'
      BY <1>0, <1>1, <1>2, <1>3, Current, WireGuardAssumption, StateFacts DEF TunnelInv, Progress, Sound, Exposed
    <2> QED
      BY <1>0, <1>3, <2>1, OneTunnel
  <1>5. CASE Done
    BY <1>0, <1>1, <1>3, <1>4, <1>5, Over DEF TunnelInv
  <1> QED
    BY <1>1, <1>5

-----------------------------------------------------------------------------
(* Commands, restarts and the host. *)

\* Accepting a configuration.
LEMMA ApplyTunnelInv ==
    ASSUME TunnelInv, NEW t \in Tunnels, NEW s \in Specs, ApplyTunnel(t, s)
    PROVE  TunnelInv'
  <1>1. /\ wpc = "idle" /\ wpc' \in {"down", "write"} /\ cur' = t /\ spec' = s /\ oldConf' = conf[t]
        /\ existed' \in BOOLEAN /\ (existed' => iface[t] # NoSpec) /\ (wpc' = "write" => iface[t] = NoSpec)
        /\ UNCHANGED <<clean, conf, tunnel, iface, restored, uncertain>>
    BY ZenonT(60) DEF ApplyTunnel, tunnelFiles
  <1>2. TunnelTypeOK'
    BY <1>1 DEF TunnelInv, TunnelTypeOK, FileTypes, LocalTypes, WireGuardSteps
  <1>3. Settled'
    BY <1>1 DEF TunnelInv, Settled, Sound, Exposed
  <1>4. t \notin uncertain => Sound(t)
    BY <1>1 DEF TunnelInv, Settled, Exposed
  <1>5. iface[t] # NoSpec => iface[t] \in Specs
    BY ZenonT(60) DEF ApplyTunnel, Verified
  <1>6. Remembered'
    BY ZenonT(60), <1>1, <1>4, <1>5 DEF Sound, Remembered
  <1>7. Progress' /\ Restored'
    BY ZenonT(60), <1>1 DEF TunnelInv, Progress, Restored
  <1> QED
    BY <1>2, <1>3, <1>6, <1>7 DEF TunnelInv

\* Removing a tunnel, an interface that could not be taken down, and others
\* that change an interface.
LEMMA RemoveTunnelInv ==
    ASSUME TunnelInv, NEW t \in Tunnels, RemoveTunnel(t) \/ RemoveRefused(t) \/ Outsider(t)
    PROVE  TunnelInv'
  <1>1. PICK i \in {iface[t], NoSpec, Foreign} :
            /\ iface' = [iface EXCEPT ![t] = i]
            /\ \/ UNCHANGED <<wpc, cur>>
               \/ wpc' = "mark" /\ cur' = t /\ i = NoSpec /\ tunnel[t].spec # NoSpec
    BY DEF RemoveTunnel, RemoveRefused, Outsider, TunnelInv, TunnelTypeOK, FileTypes, locals
  <1>2. wpc = "idle" /\ UNCHANGED <<conf, tunnel, spec, oldConf, existed, clean, restored, uncertain>>
    BY DEF RemoveTunnel, RemoveRefused, Outsider, tunnelFiles, locals
  <1>3. TunnelTypeOK' /\ Others(t) /\ conf'[t] = conf[t] /\ tunnel'[t] = tunnel[t] /\ iface'[t] = i
    BY <1>1, <1>2 DEF TunnelInv, TunnelTypeOK, FileTypes, LocalTypes, Others, WireGuardSteps
  <1>4. t \notin uncertain' => Sound(t)'
    BY ZenonT(60), <1>1, <1>2, <1>3, WireGuardAssumption DEF TunnelInv, Settled, Sound, Exposed
  <1>5. Settled'
    BY ZenonT(60), <1>2, <1>3, <1>4, OneTunnel DEF Exposed
  <1>6. Remembered' /\ Progress' /\ Restored'
    BY <1>1, <1>2, <1>3 DEF TunnelInv, Remembered, Progress, Restored, Exposed
  <1> QED
    BY <1>3, <1>5, <1>6 DEF TunnelInv

\* The agent starts.
LEMMA StartTunnelsInv ==
    ASSUME TunnelInv, StartTunnels
    PROVE  TunnelInv'
  <1>1. /\ wpc = "off" /\ wpc' = "restore" /\ cur = 1 /\ restored' = "none"
        /\ UNCHANGED <<conf, tunnel, iface, cur, spec, oldConf, existed, clean, uncertain>>
    BY DEF StartTunnels, Step, tunnelFiles, locals, TunnelInv, Restored
  <1>2. TunnelTypeOK' /\ Settled'
    BY ZenonT(60), <1>1 DEF TunnelInv, TunnelTypeOK, FileTypes, LocalTypes, Settled, Sound, Exposed, WireGuardSteps
  <1>3. Remembered' /\ Progress'
    BY <1>1 DEF TunnelInv, Remembered, Progress, Exposed
  <1>4. Restored'
    <2>1. \A t \in Tunnels : ~(t < 1)
      BY SMTT(30), WireGuardAssumption DEF Tunnels
    <2> QED
      BY <1>1, <2>1 DEF Restored
  <1> QED
    BY <1>2, <1>3, <1>4 DEF TunnelInv

\* A tunnel is restored, or is not.
LEMMA RestoreEffect ==
    ASSUME TunnelInv, RestoreTunnel \/ RestoreFails, NEW u \in Tunnels, u = cur
    PROVE  /\ wpc = "restore" /\ tunnel' = tunnel /\ uncertain' = uncertain
           /\ FileTypes' /\ Others(u)
           /\ u \notin uncertain' => Sound(u)'
           /\ RestoreTunnel /\ tunnel[u].enabled => iface'[u] \in Specs /\ KeyOf[iface'[u]] = KeyOf[tunnel[u].spec]
  <1>1. wpc = "restore" /\ UNCHANGED <<tunnel, uncertain>>
    BY DEF RestoreTunnel, RestoreFails
  <1>2. CASE UNCHANGED <<conf, iface>>
    <2>1. FileTypes' /\ Others(u)
      BY <1>1, <1>2 DEF TunnelInv, TunnelTypeOK, FileTypes, Others
    <2>2. u \notin uncertain' => Sound(u)'
      BY <1>1, <1>2 DEF TunnelInv, Settled, Sound, Exposed
    <2>3. RestoreTunnel /\ tunnel[u].enabled => iface'[u] \in Specs /\ KeyOf[iface'[u]] = KeyOf[tunnel[u].spec]
      <3> SUFFICES ASSUME RestoreTunnel, tunnel[u].enabled
                   PROVE  iface'[u] \in Specs /\ KeyOf[iface'[u]] = KeyOf[tunnel[u].spec]
        OBVIOUS
      <3>1. tunnel[u].spec \in Specs /\ iface \in [Tunnels -> Specs \cup {NoSpec, Foreign}]
        BY DEF TunnelInv, TunnelTypeOK, FileTypes
      <3> QED
        BY <1>2, <3>1, WireGuardAssumption DEF RestoreTunnel, Verified
    <2> QED
      BY <1>1, <2>1, <2>2, <2>3
  <1>3. CASE /\ tunnel[u].enabled /\ iface[u] = NoSpec
             /\ conf' = [conf EXCEPT ![u] = tunnel[u].spec]
             /\ \E i \in {NoSpec, tunnel[u].spec} : iface' = [iface EXCEPT ![u] = i]
             /\ RestoreTunnel => iface' = [iface EXCEPT ![u] = tunnel[u].spec]
    <2>1. tunnel[u].spec \in Specs
      BY <1>3 DEF TunnelInv, TunnelTypeOK, FileTypes
    <2>2. FileTypes' /\ Others(u) /\ conf'[u] = tunnel[u].spec /\ iface'[u] \in {NoSpec, tunnel[u].spec}
      BY <1>1, <1>3, <2>1 DEF TunnelInv, TunnelTypeOK, FileTypes, Others
    <2>3. Sound(u)'
      BY <1>1, <1>3, <2>1, <2>2, WireGuardAssumption DEF Sound
    <2>4. RestoreTunnel => iface'[u] = tunnel[u].spec
      BY ZenonT(60), <1>3 DEF TunnelInv, TunnelTypeOK, FileTypes
    <2> QED
      BY <1>1, <2>1, <2>2, <2>3, <2>4
  <1> QED
    BY ZenonT(60), <1>2, <1>3 DEF RestoreTunnel, RestoreFails

\* A restore that stops at its first error keeps the invariant.
LEMMA RestoreFailsInv ==
    ASSUME TunnelInv, RestoreFails
    PROVE  TunnelInv'
  <1>0. PICK u \in Tunnels : u = cur
    BY Current
  <1>1. Done
    BY DEF RestoreFails
  <1> QED
    BY <1>0, <1>1, RestoreEffect, OneTunnel, Over DEF TunnelInv, TunnelTypeOK, LocalTypes

\* Restoring one tunnel keeps the invariant.
LEMMA RestoreTunnelInv ==
    ASSUME TunnelInv, RestoreTunnel
    PROVE  TunnelInv'
  <1>0. PICK u \in Tunnels : u = cur
    BY Current
  <1>1. NextTunnel
    BY ZenonT(60) DEF RestoreTunnel
  <1>2. TunnelTypeOK' /\ Settled'
    <2>1. LocalTypes'
      BY ZenonT(60), <1>0, <1>1, RestoreEffect, FirstTunnel DEF NextTunnel, TunnelInv, TunnelTypeOK, LocalTypes, WireGuardSteps
    <2> QED
      BY ZenonT(60), <1>0, <2>1, RestoreEffect, OneTunnel DEF TunnelTypeOK
  <1>3. Remembered' /\ Progress'
    BY ZenonT(60), <1>0, <1>1, RestoreEffect DEF NextTunnel, TunnelInv, Remembered, Progress, Exposed
  <1>4. Restored'
    <2>1. CASE cur < NTunnels
      <3>1. wpc' = "restore" /\ cur' = cur + 1 /\ restored' = restored
        BY <1>1, <2>1 DEF NextTunnel
      <3>2. \A t \in Tunnels : t < cur + 1 => t < cur \/ t = cur
        BY <1>0, WireGuardAssumption DEF Tunnels
      <3> QED
        BY ZenonT(60), <1>0, <3>1, <3>2, RestoreEffect DEF TunnelInv, TunnelTypeOK, FileTypes, Restored, Verified, Others
    <2>2. CASE ~(cur < NTunnels)
      BY <1>1, <2>2 DEF NextTunnel, Restored
    <2> QED
      BY ZenonT(60), <2>1, <2>2
  <1> QED
    BY <1>2, <1>3, <1>4 DEF TunnelInv

\* The agent ends, or the host with it.
LEMMA EndInv ==
    ASSUME TunnelInv, AgentEnds \/ HostRestarts
    PROVE  TunnelInv'
  <1>1. /\ wpc' = "off" /\ cur' = 1 /\ spec' = NoSpec /\ oldConf' = NoSpec /\ existed' = FALSE /\ clean' = TRUE
        /\ UNCHANGED <<conf, tunnel, restored>>
        /\ uncertain' = IF wpc \in Exposed THEN uncertain \cup {cur} ELSE uncertain
    BY DEF AgentEnds, HostRestarts, EndAgent, tunnelFiles
  <1>2. iface' \in [Tunnels -> Specs \cup {NoSpec, Foreign}] /\ \A t \in Tunnels : iface'[t] \in {iface[t], NoSpec}
    BY DEF AgentEnds, HostRestarts, TunnelInv, TunnelTypeOK, FileTypes
  <1>3. TunnelTypeOK'
    <2>1. LocalTypes'
      BY ZenonT(60), <1>1, FirstTunnel DEF TunnelInv, TunnelTypeOK, LocalTypes, WireGuardSteps
    <2> QED
      BY <1>1, <1>2, <2>1 DEF TunnelInv, TunnelTypeOK, FileTypes
  <1>4. Settled'
    BY ZenonT(60), <1>1, <1>2, WireGuardAssumption DEF TunnelInv, Settled, Sound
  <1>5. Remembered' /\ Progress' /\ Restored'
    BY <1>1 DEF Remembered, Progress, Restored, Exposed
  <1> QED
    BY <1>3, <1>4, <1>5 DEF TunnelInv

\* Every step keeps the invariant.
LEMMA TunnelNextInv == TunnelInv /\ [WireGuardNext]_wgVars => TunnelInv'
  <1> SUFFICES ASSUME TunnelInv, [WireGuardNext]_wgVars PROVE TunnelInv'
    OBVIOUS
  <1>1. CASE StopPrevious \/ WriteConfig \/ Bring \/ Verify \/ KeepTunnel
    BY <1>1, StopPreviousInv, WriteConfigInv, BringInv, VerifyInv, KeepTunnelInv
  <1>2. CASE UndoDown \/ UndoConfig \/ UndoUp \/ Mark \/ Unlink \/ Disown
    BY <1>2, UndoDownInv, UndoConfigInv, UndoUpInv, MarkInv, UnlinkInv, DisownInv
  <1>3. CASE \E t \in Tunnels, s \in Specs : ApplyTunnel(t, s)
    BY <1>3, ApplyTunnelInv
  <1>4. CASE \E t \in Tunnels : RemoveTunnel(t) \/ RemoveRefused(t) \/ Outsider(t)
    BY <1>4, RemoveTunnelInv
  <1>5. CASE StartTunnels \/ RestoreTunnel \/ RestoreFails \/ AgentEnds \/ HostRestarts
    BY ZenonT(60), <1>5, StartTunnelsInv, RestoreTunnelInv, RestoreFailsInv, EndInv
  <1>6. CASE UNCHANGED wgVars
    <2>1. UNCHANGED <<conf, tunnel, iface, wpc, cur, spec, oldConf, existed, clean, restored, uncertain>>
      BY <1>6 DEF wgVars, tunnelFiles, locals
    <2>2. TunnelTypeOK'
      BY ZenonT(60), <2>1 DEF TunnelInv, TunnelTypeOK, FileTypes, LocalTypes
    <2>3. Settled' /\ Remembered'
      BY ZenonT(60), <2>1 DEF TunnelInv, Settled, Sound, Remembered
    <2>4. Progress'
      BY ZenonT(60), <2>1 DEF TunnelInv, Progress
    <2>5. Restored'
      BY ZenonT(60), <2>1 DEF TunnelInv, Restored, Verified
    <2> QED
      BY <2>2, <2>3, <2>4, <2>5 DEF TunnelInv
  <1> QED
    BY <1>1, <1>2, <1>3, <1>4, <1>5, <1>6 DEF WireGuardNext

-----------------------------------------------------------------------------
(* The theorems. *)

\* The inductive invariant holds in every reachable state.
THEOREM TunnelInvariant == WireGuardSpecification => []TunnelInv
  BY TunnelInitInv, TunnelNextInv, PTL DEF WireGuardSpecification

\* Between commands an interface runs the saved configuration, unless the last
\* change of its tunnel was cut off or reported as not undone.
THEOREM TunnelSaved == WireGuardSpecification => []TunnelIsSaved
  <1>1. TunnelInv => TunnelIsSaved
    <2> SUFFICES ASSUME TunnelInv, wpc = "idle", NEW t \in Tunnels, t \notin uncertain
                 PROVE  /\ iface[t] \in Specs => tunnel[t] = [spec |-> iface[t], enabled |-> TRUE]
                        /\ tunnel[t] = NoTunnel => conf[t] = NoSpec
      BY DEF TunnelIsSaved
    <2>1. Sound(t) /\ tunnel[t] \in TunnelStates
      BY DEF TunnelInv, Settled, Exposed, TunnelTypeOK, FileTypes
    <2>2. tunnel[t].enabled => tunnel[t] = [spec |-> tunnel[t].spec, enabled |-> TRUE]
      <3>1. tunnel[t] = [spec |-> tunnel[t].spec, enabled |-> tunnel[t].enabled] /\ tunnel[t].enabled \in BOOLEAN
        BY <2>1 DEF TunnelStates
      <3> QED
        BY <3>1
    <2> QED
      BY ZenonT(60), <2>1, <2>2, StateFacts DEF Sound
  <1> QED
    BY <1>1, TunnelInvariant, PTL

\* A rollback that is reported as clean has brought the previous interface
\* and its configuration back.
THEOREM RollbackIsTrue == WireGuardSpecification => RollbackTrue
  <1> DEFINE Undone == existed /\ wpc \in {"undo_conf", "undo_up"} /\ wpc' = "idle" =>
                         \/ cur \in uncertain'
                         \/ /\ iface'[cur] \in Specs /\ KeyOf[iface'[cur]] = KeyOf[tunnel'[cur].spec]
                            /\ conf'[cur] = oldConf
  <1>1. TunnelInv /\ [WireGuardNext]_wgVars => [Undone]_wgVars
    <2> SUFFICES ASSUME TunnelInv, WireGuardNext, existed, wpc \in {"undo_conf", "undo_up"}, wpc' = "idle",
                        cur \notin uncertain'
                 PROVE  /\ iface'[cur] \in Specs /\ KeyOf[iface'[cur]] = KeyOf[tunnel'[cur].spec]
                        /\ conf'[cur] = oldConf
      OBVIOUS
    <2>1. UndoConfig \/ UndoUp
      BY ZenonT(60) DEF WireGuardNext, ApplyTunnel, StopPrevious, WriteConfig, Bring, Verify, KeepTunnel, UndoDown,
         RemoveTunnel, RemoveRefused, Outsider, Mark, Unlink, Disown, StartTunnels, RestoreTunnel, RestoreFails,
         AgentEnds, HostRestarts, EndAgent
    <2>2. ~UndoConfig
      BY DEF UndoConfig, EndRollback, Step
    <2>3. /\ conf[cur] # NoSpec /\ iface' = [iface EXCEPT ![cur] = conf[cur]]
          /\ KeyOf[conf[cur]] = KeyOf[tunnel[cur].spec]
      BY <2>1, <2>2 DEF UndoUp, Up, EndRollback
    <2>4. wpc = "undo_up" /\ UNCHANGED <<conf, tunnel>> /\ conf[cur] = oldConf
      BY ZenonT(60), <2>1, <2>2 DEF UndoUp, tunnelFiles, TunnelInv, Progress
    <2> QED
      BY <2>3, <2>4 DEF TunnelInv, TunnelTypeOK, FileTypes, LocalTypes
  <1> QED
    BY <1>1, TunnelInvariant, PTL DEF WireGuardSpecification, RollbackTrue

\* A start of the agent that reports no error has brought up every enabled
\* tunnel, whatever was left of it.
THEOREM RestoreIsComplete == WireGuardSpecification => RestoreComplete
  <1> DEFINE Brought == restored' = "complete" /\ restored # "complete" =>
                          \A t \in Tunnels : tunnel[t].enabled =>
                              iface'[t] \in Specs /\ KeyOf[iface'[t]] = KeyOf[tunnel[t].spec]
  <1>1. TunnelInv /\ [WireGuardNext]_wgVars => [Brought]_wgVars
    <2> SUFFICES ASSUME TunnelInv, WireGuardNext, restored' = "complete", restored # "complete",
                        NEW t \in Tunnels, tunnel[t].enabled
                 PROVE  iface'[t] \in Specs /\ KeyOf[iface'[t]] = KeyOf[tunnel[t].spec]
      OBVIOUS
    <2>1. RestoreTunnel
      BY ZenonT(60) DEF WireGuardNext, ApplyTunnel, StopPrevious, WriteConfig, Bring, Verify, KeepTunnel, UndoDown,
         UndoConfig, UndoUp, RemoveTunnel, RemoveRefused, Outsider, Mark, Unlink, Disown, StartTunnels,
         RestoreFails, AgentEnds, HostRestarts, EndAgent
    <2>2. ~(cur < NTunnels) /\ wpc = "restore"
      BY <2>1 DEF RestoreTunnel, NextTunnel
    <2>3. PICK u \in Tunnels : u = cur
      BY Current
    <2>4. t < u \/ t = u
      BY <2>2, <2>3, WireGuardAssumption DEF Tunnels
    <2>5. t < u => Verified(t, tunnel[t].spec) /\ iface'[t] = iface[t]
      <3>1. Others(u)
        BY <2>1, <2>3, RestoreEffect, Zenon
      <3>2. t < u => Verified(t, tunnel[t].spec)
        BY <2>2, <2>3, Zenon DEF TunnelInv, Restored
      <3>3. t < u => t \in Tunnels \ {u}
        BY <2>3, WireGuardAssumption DEF Tunnels
      <3>4. QED
        BY <3>1, <3>2, <3>3, Zenon DEF Others
    <2> QED
      BY ZenonT(60), <2>1, <2>3, <2>4, <2>5, RestoreEffect DEF Verified
  <1> QED
    BY <1>1, TunnelInvariant, PTL DEF WireGuardSpecification, RestoreComplete

=============================================================================
