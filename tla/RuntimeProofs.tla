--------------------------- MODULE RuntimeProofs ----------------------------
(***************************************************************************)
(* Proofs about Core and Managed, for any configurations, lists, users and *)
(* bound on generations.  Managed, the composition of Core with the        *)
(* auxiliary service, behaves as Core does, so that what is proved of Core *)
(* holds of it, and keeps the properties of the service and of the two     *)
(* together.  Last comes Telemetry, which reports what the runtime         *)
(* observes, for any observations, whatever their fields, size and depth.  *)
(***************************************************************************)
EXTENDS Managed, Telemetry, NaturalsInduction, WellFoundedInduction, SequenceTheorems, TLAPS

-----------------------------------------------------------------------------
(* Core. *)

Replacing == pc \in {"close", "advance", "boot", "restore"}

\* What a command in progress knows of the file, the history and the core.
ConfigInv ==
    /\ pc # "off" => file # NoFile
    /\ pc = "off" => running = NoFile
    /\ pc \in {"idle", "backup", "save"} /\ running # NoFile => running = file
    /\ pc \in {"advance", "boot", "restore", "start", "start_boot"} => running = NoFile
    /\ pc \in {"auxiliary", "sync_save"} => running = new
    /\ pc = "sync" => running = Partial
    /\ pc \in {"backup", "save"} => old = file
    /\ pc = "save" \/ Replacing => old \in history
    /\ Replacing \/ pc \in {"auxiliary", "start_boot"} => file = new
    /\ pc \in {"backup", "save", "sync", "sync_save", "auxiliary"} \/ Replacing => new \in Configs
    /\ pc \in {"backup", "save", "auxiliary"} \/ Replacing => old \in Configs
    /\ AppliedKept
    /\ Replacing /\ last # NoFile => last \in history

\* The saved counter is never behind a generation that was used, and is ahead
\* of all of them when a core is about to start.
GenerationInv ==
    /\ \A g \in used : g <= saved
    /\ pc \in {"boot", "start_boot"} => generation \notin used
    /\ running # NoFile => since = generation

IInv == TypeOK /\ ConfigInv /\ GenerationInv

\* The arithmetic of the bounded counter.
LEMMA GenerationRange == 0 \in 0..MaxGen /\ \A g \in 0..MaxGen : g <= g /\ (g < MaxGen => g + 1 \in 0..MaxGen)
  BY CoreAssumption

\* The invariant holds initially.
LEMMA InitInv == Init => IInv
  <1> USE CoreAssumption DEF Init
  <1>1. Init => TypeOK
    BY ZenonT(60), GenerationRange DEF TypeOK, Steps
  <1>2. Init => ConfigInv /\ GenerationInv
    BY DEF ConfigInv, GenerationInv, Replacing, AppliedKept
  <1> QED
    BY <1>1, <1>2 DEF IInv

\* Accepting a configuration.
LEMMA ApplyConfigInv ==
    ASSUME IInv, NEW c \in Configs, NEW aux \in BOOLEAN, ApplyConfig(c, aux)
    PROVE  IInv'
  <1> USE CoreAssumption DEF IInv, ApplyConfig, files, instance, command, past
  <1>1. TypeOK'
    BY GenerationRange DEF TypeOK, Steps, ConfigInv, Replacing
  <1>2. ConfigInv'
    BY DEF TypeOK, ConfigInv, Replacing, AppliedKept
  <1>3. GenerationInv'
    BY GenerationRange DEF TypeOK, ConfigInv, Replacing, GenerationInv
  <1> QED
    BY <1>1, <1>2, <1>3

\* Starting to synchronise users.
LEMMA SyncUsersInv ==
    ASSUME IInv, NEW c \in Configs, SyncUsers(c)
    PROVE  IInv'
  <1> USE CoreAssumption DEF IInv, SyncUsers, files, instance, command, past
  <1>1. TypeOK'
    BY GenerationRange DEF TypeOK, Steps, ConfigInv, Replacing
  <1>2. ConfigInv'
    BY DEF TypeOK, ConfigInv, Replacing, AppliedKept
  <1>3. GenerationInv'
    BY GenerationRange DEF TypeOK, ConfigInv, Replacing, GenerationInv
  <1> QED
    BY <1>1, <1>2, <1>3

\* A new process reads the files.
LEMMA NewInv ==
    ASSUME IInv, New
    PROVE  IInv'
  <1> USE CoreAssumption DEF IInv, New, files, instance, command, past
  <1>1. TypeOK'
    BY GenerationRange DEF TypeOK, Steps, ConfigInv, Replacing
  <1>2. ConfigInv'
    BY DEF TypeOK, ConfigInv, Replacing, AppliedKept
  <1>3. GenerationInv'
    BY GenerationRange DEF TypeOK, ConfigInv, Replacing, GenerationInv
  <1> QED
    BY <1>1, <1>2, <1>3

\* Keeping the previous configuration.
LEMMA BackupInv ==
    ASSUME IInv, Backup
    PROVE  IInv'
  <1> USE CoreAssumption DEF IInv, Backup, Return, Goto, files, instance, command, past
  <1>1. TypeOK'
    BY ZenonT(60), GenerationRange DEF TypeOK, Steps, ConfigInv, Replacing
  <1>2. ConfigInv'
    BY DEF TypeOK, ConfigInv, Replacing, AppliedKept
  <1>3. GenerationInv'
    BY GenerationRange DEF TypeOK, ConfigInv, Replacing, GenerationInv
  <1> QED
    BY <1>1, <1>2, <1>3

\* Saving the new one.
LEMMA SaveInv ==
    ASSUME IInv, Save
    PROVE  IInv'
  <1> USE CoreAssumption DEF IInv, Save, Return, Goto, files, instance, command, past
  <1>1. TypeOK'
    BY ZenonT(60), GenerationRange DEF TypeOK, Steps, ConfigInv, Replacing
  <1>2. ConfigInv'
    BY DEF TypeOK, ConfigInv, Replacing, AppliedKept
  <1>3. GenerationInv'
    BY GenerationRange DEF TypeOK, ConfigInv, Replacing, GenerationInv
  <1> QED
    BY <1>1, <1>2, <1>3

\* Closing the previous core.
LEMMA CloseInv ==
    ASSUME IInv, Close
    PROVE  IInv'
  <1> USE CoreAssumption DEF IInv, Close, Return, Goto, files, instance, command, past
  <1>1. TypeOK'
    BY ZenonT(60), GenerationRange DEF TypeOK, Steps, ConfigInv, Replacing
  <1>2. ConfigInv'
    BY DEF TypeOK, ConfigInv, Replacing, AppliedKept
  <1>3. GenerationInv'
    BY GenerationRange DEF TypeOK, ConfigInv, Replacing, GenerationInv
  <1> QED
    BY <1>1, <1>2, <1>3

\* Taking a new generation.
LEMMA AdvanceInv ==
    ASSUME IInv, Advance
    PROVE  IInv'
  <1> USE CoreAssumption DEF IInv, Advance, AdvanceGeneration, Goto, files, instance, command, past
  <1>1. TypeOK'
    BY GenerationRange DEF TypeOK, Steps, ConfigInv, Replacing
  <1>2. ConfigInv'
    BY DEF TypeOK, ConfigInv, Replacing, AppliedKept
  <1>3. GenerationInv'
    BY GenerationRange DEF TypeOK, ConfigInv, Replacing, GenerationInv
  <1> QED
    BY <1>1, <1>2, <1>3

\* Starting the new core.
LEMMA BootInv ==
    ASSUME IInv, Boot
    PROVE  IInv'
  <1> USE CoreAssumption DEF IInv, Boot, Run, Return, Goto, files, instance, command, past
  <1>1. TypeOK'
    BY ZenonT(60), GenerationRange DEF TypeOK, Steps, ConfigInv, Replacing
  <1>2. ConfigInv'
    BY DEF TypeOK, ConfigInv, Replacing, AppliedKept
  <1>3. GenerationInv'
    BY ZenonT(60), GenerationRange DEF TypeOK, ConfigInv, Replacing, GenerationInv
  <1> QED
    BY <1>1, <1>2, <1>3

\* Putting the previous configuration back.
LEMMA RestoreInv ==
    ASSUME IInv, Restore
    PROVE  IInv'
  <1> USE CoreAssumption DEF IInv, Restore, Return, files, instance, command, past
  <1>1. TypeOK'
    BY ZenonT(60), GenerationRange DEF TypeOK, Steps, ConfigInv, Replacing
  <1>2. ConfigInv'
    BY DEF TypeOK, ConfigInv, Replacing, AppliedKept
  <1>3. GenerationInv'
    BY GenerationRange DEF TypeOK, ConfigInv, Replacing, GenerationInv
  <1> QED
    BY <1>1, <1>2, <1>3

\* The auxiliary listeners after the core.
LEMMA AuxiliaryInv ==
    ASSUME IInv, Auxiliary
    PROVE  IInv'
  <1> USE CoreAssumption DEF IInv, Auxiliary, AuxiliaryApplied, AuxiliaryFailed, Return, files, instance, command, past
  <1>1. TypeOK'
    BY ZenonT(60), GenerationRange DEF TypeOK, Steps, ConfigInv, Replacing
  <1>2. ConfigInv'
    BY DEF TypeOK, ConfigInv, Replacing, AppliedKept
  <1>3. GenerationInv'
    BY ZenonT(60), GenerationRange DEF TypeOK, ConfigInv, Replacing, GenerationInv
  <1> QED
    BY <1>1, <1>2, <1>3

\* Asking for a start.
LEMMA StartCommandInv ==
    ASSUME IInv, StartCommand
    PROVE  IInv'
  <1> USE CoreAssumption DEF IInv, StartCommand, Goto, files, instance, command, past
  <1>1. TypeOK'
    BY GenerationRange DEF TypeOK, Steps, ConfigInv, Replacing
  <1>2. ConfigInv'
    BY DEF TypeOK, ConfigInv, Replacing, AppliedKept
  <1>3. GenerationInv'
    BY GenerationRange DEF TypeOK, ConfigInv, Replacing, GenerationInv
  <1> QED
    BY <1>1, <1>2, <1>3

\* Taking a generation to start with.
LEMMA StartInv ==
    ASSUME IInv, Start
    PROVE  IInv'
  <1> USE CoreAssumption DEF IInv, Start, AdvanceGeneration, Return, files, instance, command, past
  <1>1. TypeOK'
    BY ZenonT(60), GenerationRange DEF TypeOK, Steps, ConfigInv, Replacing
  <1>2. ConfigInv'
    BY DEF TypeOK, ConfigInv, Replacing, AppliedKept
  <1>3. GenerationInv'
    BY GenerationRange DEF TypeOK, ConfigInv, Replacing, GenerationInv
  <1> QED
    BY <1>1, <1>2, <1>3

\* Starting from the saved configuration.
LEMMA StartBootInv ==
    ASSUME IInv, StartBoot
    PROVE  IInv'
  <1> USE CoreAssumption DEF IInv, StartBoot, Run, Return, files, instance, command, past
  <1>1. TypeOK'
    BY ZenonT(60), GenerationRange DEF TypeOK, Steps, ConfigInv, Replacing
  <1>2. ConfigInv'
    BY DEF TypeOK, ConfigInv, Replacing, AppliedKept
  <1>3. GenerationInv'
    BY ZenonT(60), GenerationRange DEF TypeOK, ConfigInv, Replacing, GenerationInv
  <1> QED
    BY <1>1, <1>2, <1>3

\* Stopping, or restarting.
LEMMA StopInv ==
    ASSUME IInv, Stop
    PROVE  IInv'
  <1> USE CoreAssumption DEF IInv, Stop, Return, Goto, files, instance, command, past
  <1>1. TypeOK'
    BY ZenonT(60), GenerationRange DEF TypeOK, Steps, ConfigInv, Replacing
  <1>2. ConfigInv'
    BY DEF TypeOK, ConfigInv, Replacing, AppliedKept
  <1>3. GenerationInv'
    BY GenerationRange DEF TypeOK, ConfigInv, Replacing, GenerationInv
  <1> QED
    BY <1>1, <1>2, <1>3

\* Changing the live users.
LEMMA SyncLiveInv ==
    ASSUME IInv, SyncLive
    PROVE  IInv'
  <1> USE CoreAssumption DEF IInv, SyncLive, Goto, files, instance, command, past
  <1>1. TypeOK'
    BY GenerationRange DEF TypeOK, Steps, ConfigInv, Replacing
  <1>2. ConfigInv'
    BY DEF TypeOK, ConfigInv, Replacing, AppliedKept
  <1>3. GenerationInv'
    BY GenerationRange DEF TypeOK, ConfigInv, Replacing, GenerationInv
  <1> QED
    BY <1>1, <1>2, <1>3

\* Saving them.
LEMMA SyncSaveInv ==
    ASSUME IInv, SyncSave
    PROVE  IInv'
  <1> USE CoreAssumption DEF IInv, SyncSave, Return, files, instance, command, past
  <1>1. TypeOK'
    BY ZenonT(60), GenerationRange DEF TypeOK, Steps, ConfigInv, Replacing
  <1>2. ConfigInv'
    BY DEF TypeOK, ConfigInv, Replacing, AppliedKept
  <1>3. GenerationInv'
    BY GenerationRange DEF TypeOK, ConfigInv, Replacing, GenerationInv
  <1> QED
    BY <1>1, <1>2, <1>3

\* The end of the process.
LEMMA CrashInv ==
    ASSUME IInv, Crash
    PROVE  IInv'
  <1> USE CoreAssumption DEF IInv, Crash, files, instance, command, past
  <1>1. TypeOK'
    BY ZenonT(60), GenerationRange DEF TypeOK, Steps, ConfigInv, Replacing
  <1>2. ConfigInv'
    BY DEF TypeOK, ConfigInv, Replacing, AppliedKept
  <1>3. GenerationInv'
    BY GenerationRange DEF TypeOK, ConfigInv, Replacing, GenerationInv
  <1> QED
    BY <1>1, <1>2, <1>3

\* A step that changes nothing.
LEMMA StutterInv ==
    ASSUME IInv, UNCHANGED vars
    PROVE  IInv'
  <1> USE CoreAssumption DEF IInv, vars, files, instance, command, past
  <1>1. TypeOK'
    BY GenerationRange DEF TypeOK, Steps, ConfigInv, Replacing
  <1>2. ConfigInv'
    BY DEF TypeOK, ConfigInv, Replacing, AppliedKept
  <1>3. GenerationInv'
    BY GenerationRange DEF TypeOK, ConfigInv, Replacing, GenerationInv
  <1> QED
    BY <1>1, <1>2, <1>3

\* Every step keeps the invariant.
LEMMA NextInv == IInv /\ [Next]_vars => IInv'
  <1> SUFFICES ASSUME IInv, [Next]_vars PROVE IInv'
    OBVIOUS
  <1>1. CASE \E c \in Configs, aux \in BOOLEAN : ApplyConfig(c, aux)
    BY <1>1, ApplyConfigInv
  <1>2. CASE \E c \in Configs : SyncUsers(c)
    BY <1>2, SyncUsersInv
  <1>3. CASE New \/ Backup \/ Save \/ Close \/ Advance
    BY <1>3, NewInv, BackupInv, SaveInv, CloseInv, AdvanceInv
  <1>4. CASE Boot \/ Restore \/ Auxiliary \/ StartCommand \/ Start
    BY <1>4, BootInv, RestoreInv, AuxiliaryInv, StartCommandInv, StartInv
  <1>5. CASE StartBoot \/ Stop \/ SyncLive \/ SyncSave \/ Crash
    BY <1>5, StartBootInv, StopInv, SyncLiveInv, SyncSaveInv, CrashInv
  <1>6. CASE UNCHANGED vars
    BY <1>6, StutterInv
  <1> QED
    BY <1>1, <1>2, <1>3, <1>4, <1>5, <1>6 DEF Next

-----------------------------------------------------------------------------
(* The theorems. *)

\* The inductive invariant holds in every reachable state.
THEOREM InvariantHolds == Spec => []IInv
  BY InitInv, NextInv, PTL DEF Spec

\* Every variable keeps its type, and the generation in memory is the saved one.
THEOREM TypeCorrect == Spec => []TypeOK
  BY InvariantHolds, PTL DEF IInv

\* A core that runs between commands runs the saved configuration, whichever
\* step of applyConfig, start or syncUsers failed before.
THEOREM RunningSaved == Spec => []RunningIsSaved
  <1>1. IInv => RunningIsSaved
    BY DEF IInv, ConfigInv, GenerationInv, RunningIsSaved
  <1> QED
    BY <1>1, InvariantHolds, PTL

\* The configuration last reported as applied is never lost.
THEOREM AppliedIsKept == Spec => []AppliedKept
  <1>1. IInv => AppliedKept
    BY DEF IInv, ConfigInv
  <1> QED
    BY <1>1, InvariantHolds, PTL

\* No two cores share a generation, across restarts of the process
\* (advanceGeneration saves the counter before a core starts).
THEOREM GenerationsFresh == Spec => GenerationFresh
  <1> DEFINE Unused == running = NoFile /\ running' # NoFile => since' \notin used
  <1>1. IInv /\ [Next]_vars => [Unused]_vars
    <2> SUFFICES ASSUME IInv, Next PROVE Unused
      OBVIOUS
    <2>1. CASE Boot \/ StartBoot
      BY <2>1 DEF IInv, GenerationInv, Boot, StartBoot, Run, instance
    <2>2. CASE \/ New \/ Backup \/ Save \/ Advance \/ Restore \/ Auxiliary \/ StartCommand \/ Start
               \/ \E c \in Configs, aux \in BOOLEAN : ApplyConfig(c, aux)
      BY <2>2 DEF New, Backup, Save, Advance, Restore, Auxiliary, AuxiliaryApplied, AuxiliaryFailed, StartCommand, Start, ApplyConfig, instance
    <2>3. CASE Close \/ Stop \/ Crash \/ \E c \in Configs : SyncUsers(c)
      BY <2>3 DEF Close, Stop, Crash, SyncUsers
    <2>4. CASE SyncLive \/ SyncSave
      BY <2>4, CoreAssumption DEF IInv, ConfigInv, SyncLive, SyncSave
    <2> QED
      BY <2>1, <2>2, <2>3, <2>4 DEF Next
  <1> QED
    BY <1>1, InvariantHolds, PTL DEF Spec, GenerationFresh

-----------------------------------------------------------------------------
(* Managed. *)

USE DEF SaveState, Validated

-----------------------------------------------------------------------------
(* The composition implements Core. *)

\* Every step is a step of Core or leaves the core alone.
LEMMA StepRefines == [ManagedNext]_managedVars => [Next]_vars
  <1> SUFFICES ASSUME [ManagedNext]_managedVars PROVE [Next]_vars
    OBVIOUS
  <1>1. CASE NewAgent \/ CrashAgent
    BY <1>1 DEF NewAgent, CrashAgent, Next
  <1>2. CASE CoreCommand
    BY ZenonT(60), <1>2 DEF CoreCommand, Next
  <1>3. CASE \E c \in Configs : ManagedCommand(c)
    BY ZenonT(60), <1>3 DEF ManagedCommand, Next
  <1>4. CASE AuxiliaryDone
    BY <1>4 DEF AuxiliaryDone, Auxiliary, Next
  <1>5. CASE CoreStep
    BY <1>5 DEF CoreStep, Next
  <1>6. CASE BootService \/ ServiceCommand \/ ServiceStep \/ ServiceExit
    BY <1>6 DEF BootService, ServiceCommand, ServiceStep, ServiceExit
  <1>7. CASE \E l \in Lists \cup {NoList} : AuxiliaryApply(l)
    BY <1>7 DEF AuxiliaryApply
  <1>8. CASE UNCHANGED managedVars
    BY <1>8 DEF managedVars
  <1> QED
    BY <1>1, <1>2, <1>3, <1>4, <1>5, <1>6, <1>7, <1>8 DEF ManagedNext

\* Runtime with its auxiliary service drives the core as Core says: every
\* theorem about Core is one about the composition.
THEOREM ImplementsCore == ManagedSpec => Spec
  <1>1. ManagedInit => Init
    BY DEF ManagedInit
  <1> QED
    BY <1>1, StepRefines, PTL DEF ManagedSpec, Spec

\* In particular the core's inductive invariant.
THEOREM CoreInvariant == ManagedSpec => []IInv
  BY ImplementsCore, InvariantHolds, PTL

-----------------------------------------------------------------------------
(* The auxiliary service. *)

\* The types of the service, and what its operation in progress knows.
ServiceTypes ==
    /\ state \in States /\ desired = state /\ proc \in Lists \cup {NoList}
    /\ mpc \in MihomoSteps /\ list \in Lists \cup {NoList}
    /\ wasRunning \in BOOLEAN /\ outcome \in Outcomes /\ limited \in SUBSET Emails
    /\ desired.enabled => desired.listeners \in Lists
    /\ mpc \in {"preflight", "replace", "keep", "recover"} => list \in Lists
    /\ mpc = "disable" => list = NoList

\* The child serves what is enabled, or the list an operation is about to
\* save or to take back.
Serving ==
    /\ mpc \notin {"keep", "recover"} /\ proc # NoList => desired = Enabled(proc)
    /\ mpc \in {"keep", "recover"} => proc \in {list, NoList}
    /\ mpc \in {"keep", "recover"} /\ wasRunning => desired.enabled
    /\ mpc = "relaunch" => desired.enabled /\ proc = NoList

\* The lists that may be served by the end of the operation were checked
\* against the limits there are.
Checked ==
    /\ BridgedUnlimited
    /\ mpc = "replace" => Bridged[list] \cap limited = {}
    /\ mpc \in {"keep", "recover"} /\ wasRunning => Bridged[desired.listeners] \cap limited = {}
    /\ mpc = "relaunch" => Bridged[desired.listeners] \cap limited = {}

\* The service waits while Start is busy with the core.
Waiting == booting => mpc = "idle" /\ pc \in {"start", "start_boot", "idle"}

ServiceInv == ServiceTypes /\ Serving /\ Checked

\* The two saved states an operation may leave.
LEMMA StateTypes ==
    /\ Disabled \in States /\ Disabled.enabled = FALSE /\ Disabled.listeners = NoList
    /\ \A l \in Lists : Enabled(l) \in States /\ Enabled(l).enabled /\ Enabled(l).listeners = l
    /\ \A s \in States : /\ s.listeners \in Lists \cup {NoList} /\ s.enabled \in BOOLEAN
                         /\ s.enabled => s = Enabled(s.listeners)
                         /\ [s EXCEPT !.enabled = FALSE] \in States
                         /\ [s EXCEPT !.enabled = FALSE].enabled = FALSE
  <1>1. \A s \in States : s.enabled => s = Enabled(s.listeners)
    <2> SUFFICES ASSUME NEW s \in States, s.enabled PROVE s = Enabled(s.listeners)
      OBVIOUS
    <2>1. s = [enabled |-> s.enabled, listeners |-> s.listeners]
      BY DEF States
    <2>2. s.enabled = TRUE
      BY ZenonT(60) DEF States
    <2> QED
      BY <2>1, <2>2 DEF Enabled
  <1> QED
    BY ZenonT(60), <1>1 DEF States, Disabled, Enabled

\* A step of an operation keeps the invariant.
LEMMA MihomoStepInv ==
    ASSUME ServiceInv, MihomoStep
    PROVE  ServiceInv'
  <1> USE StateTypes, MihomoAssumption
      DEF ServiceInv, ServiceTypes, Serving, Checked, BridgedUnlimited, MihomoSteps, Outcomes,
          Finish, Continue, service, operation
  <1>1. CASE Disable
    BY ZenonT(60), <1>1 DEF Disable
  <1>2. CASE Preflight
    BY ZenonT(60), <1>2 DEF Preflight
  <1>3. CASE Replace
    BY ZenonT(60), <1>3 DEF Replace, Enabled
  <1>4. CASE Keep
    <2>1. list \in Lists /\ proc \in {list, NoList}
      BY <1>4 DEF Keep
    <2>2. CASE state' = Enabled(list) /\ desired' = Enabled(list) /\ Finish("applied")
      BY ZenonT(60), <1>4, <2>1, <2>2 DEF Keep
    <2>3. CASE Continue("recover") /\ UNCHANGED <<state, desired>>
      BY <1>4, <2>1, <2>3 DEF Keep
    <2> QED
      BY ZenonT(60), <1>4, <2>2, <2>3 DEF Keep
  <1>5. CASE Recover
    <2>1. mpc' = "idle" /\ list' = NoList /\ wasRunning' = FALSE /\ outcome' = "failed"
          /\ UNCHANGED <<state, desired, limited>>
      BY <1>5 DEF Recover
    <2>2. CASE proc' = NoList
      BY ZenonT(60), <2>1, <2>2
    <2>3. CASE wasRunning /\ proc' = desired.listeners
      <3>1. desired.enabled /\ desired = Enabled(proc') /\ proc' \in Lists /\ Bridged[proc'] \cap limited = {}
        BY ZenonT(60), <1>5, <2>3 DEF Recover
      <3> QED
        BY ZenonT(60), <2>1, <3>1
    <2> QED
      BY <1>5, <2>2, <2>3 DEF Recover
  <1>6. CASE StartService
    BY ZenonT(60), <1>6 DEF StartService
  <1>7. CASE Relaunch
    <2>1. mpc' = "idle" /\ list' = NoList /\ wasRunning' = FALSE /\ outcome' \in Outcomes
          /\ UNCHANGED <<state, desired, limited>>
      BY <1>7 DEF Relaunch
    <2>2. proc = NoList /\ desired = Enabled(desired.listeners) /\ desired.listeners \in Lists
          /\ Bridged[desired.listeners] \cap limited = {}
      BY ZenonT(60), <1>7 DEF Relaunch
    <2>3. proc' \in {NoList, desired.listeners}
      BY <1>7, <2>2 DEF Relaunch
    <2> QED
      BY ZenonT(60), <2>1, <2>2, <2>3
  <1> QED
    BY ZenonT(60), <1>1, <1>2, <1>3, <1>4, <1>5, <1>6, <1>7 DEF MihomoStep

\* So does the beginning of one, and a command that is a single step.
LEMMA ServiceCommandInv ==
    ASSUME ServiceInv,
           \/ \E l \in Lists \cup {NoList} : Apply(l) \/ Sync(l)
           \/ Activate \/ StopService
           \/ \E users \in SUBSET Emails : ApplyPolicies(users)
    PROVE  ServiceInv'
  <1> USE StateTypes, MihomoAssumption
      DEF ServiceInv, ServiceTypes, Serving, Checked, BridgedUnlimited, MihomoSteps, Outcomes,
          Finish, service, operation
  <1>1. ASSUME NEW l \in Lists \cup {NoList}, Apply(l) PROVE ServiceInv'
    BY <1>1 DEF Apply
  <1>2. CASE StopService
    BY ZenonT(60), <1>2 DEF StopService
  <1>3. ASSUME NEW users \in SUBSET Emails, ApplyPolicies(users) PROVE ServiceInv'
    BY <1>3 DEF ApplyPolicies, BridgeEmails, Enabled
  <1> QED
    BY ZenonT(60), <1>1, <1>2, <1>3 DEF Sync, Activate

\* The order of a start of the agent is kept by every step.
LEMMA WaitingInv == Waiting /\ [ManagedNext]_managedVars => Waiting'
  <1> SUFFICES ASSUME Waiting, [ManagedNext]_managedVars PROVE Waiting'
    OBVIOUS
  <1>1. CASE NewAgent \/ CrashAgent \/ BootService
    BY <1>1 DEF NewAgent, New, MihomoNew, Finish, CrashAgent, BootService, Waiting
  <1>2. CASE CoreCommand \/ ServiceCommand \/ \E c \in Configs : ManagedCommand(c)
    BY ZenonT(60), <1>2 DEF CoreCommand, ServiceCommand, ManagedCommand, Free, Waiting
  <1>3. CASE AuxiliaryDone \/ \E l \in Lists \cup {NoList} : AuxiliaryApply(l)
    BY ZenonT(60), <1>3 DEF AuxiliaryDone, AuxiliaryApply, Waiting
  <1>4. CASE ServiceStep \/ ServiceExit
    BY ZenonT(60), <1>4 DEF ServiceStep, MihomoStep, Disable, Preflight, Replace, Keep, Recover, StartService, Relaunch,
       ServiceExit, ChildExit, operation, vars, command, Waiting
  <1>5. CASE CoreStep
    BY <1>5 DEF CoreStep, Backup, Save, Close, Advance, Boot, Restore, Start, StartBoot, SyncLive, SyncSave,
       Return, mihomoVars, operation, Waiting
  <1>6. CASE UNCHANGED managedVars
    BY <1>6 DEF managedVars, vars, command, mihomoVars, operation, Waiting
  <1> QED
    BY <1>1, <1>2, <1>3, <1>4, <1>5, <1>6 DEF ManagedNext

\* The service invariant holds initially and is kept by every step.
LEMMA ServiceInitInv == ManagedInit => Waiting /\ ServiceInv
  BY ZenonT(60), StateTypes DEF ManagedInit, MihomoInit, Waiting, ServiceInv, ServiceTypes, Serving, Checked,
     BridgedUnlimited, MihomoSteps, Outcomes

\* Every step of the agent keeps what is known of the auxiliary service.
LEMMA ServiceNextInv == Waiting /\ ServiceInv /\ [ManagedNext]_managedVars => ServiceInv'
  <1> SUFFICES ASSUME Waiting, ServiceInv, [ManagedNext]_managedVars PROVE ServiceInv'
    OBVIOUS
  <1>1. CASE ServiceStep
    BY <1>1, MihomoStepInv DEF ServiceStep
  <1>2. CASE ServiceCommand
    BY <1>2, ServiceCommandInv DEF ServiceCommand
  <1>3. CASE \E l \in Lists \cup {NoList} : AuxiliaryApply(l)
    BY <1>3, ServiceCommandInv DEF AuxiliaryApply
  <1>4. CASE NewAgent \/ CrashAgent
    <2>1. desired' = state /\ proc' = NoList /\ Finish("none") /\ UNCHANGED <<state, limited>>
      BY <1>4 DEF NewAgent, MihomoNew, CrashAgent, ServiceInv, ServiceTypes
    <2> QED
      BY ZenonT(60), <2>1 DEF Finish, ServiceInv, ServiceTypes, Serving, Checked, BridgedUnlimited, MihomoSteps, Outcomes
  <1>5. CASE ServiceExit
    BY <1>5 DEF ServiceExit, ChildExit, operation, ServiceInv, ServiceTypes, Serving, Checked, BridgedUnlimited
  <1>6. CASE BootService
    BY <1>6 DEF Waiting, BootService, Continue, service, operation,
       ServiceInv, ServiceTypes, Serving, Checked, BridgedUnlimited, MihomoSteps
  <1>7. CASE \E c \in Configs : ManagedCommand(c)
    <2>1. outcome' = "none" /\ UNCHANGED <<service, mpc, list, wasRunning, limited>>
      BY <1>7 DEF ManagedCommand
    <2> QED
      BY <2>1 DEF service, ServiceInv, ServiceTypes, Serving, Checked, BridgedUnlimited, Outcomes
  <1>8. CASE CoreCommand \/ AuxiliaryDone \/ CoreStep \/ UNCHANGED managedVars
    <2>1. UNCHANGED mihomoVars
      BY ZenonT(60), <1>8 DEF CoreCommand, AuxiliaryDone, CoreStep, managedVars
    <2> QED
      BY <2>1 DEF mihomoVars, service, operation,
         ServiceInv, ServiceTypes, Serving, Checked, BridgedUnlimited
  <1> QED
    BY <1>1, <1>2, <1>3, <1>4, <1>5, <1>6, <1>7, <1>8 DEF ManagedNext

\* The service invariant holds in every reachable state.
THEOREM ServiceInvariant == ManagedSpec => [](Waiting /\ ServiceInv)
  BY ServiceInitInv, WaitingInv, ServiceNextInv, PTL DEF ManagedSpec

\* A child that runs between operations serves the saved, enabled listeners.
THEOREM ServiceSaved == ManagedSpec => []ServiceIsSaved
  <1>1. ServiceInv => ServiceIsSaved
    BY DEF ServiceInv, ServiceTypes, Serving, ServiceIsSaved
  <1> QED
    BY <1>1, ServiceInvariant, PTL

\* No user with an IP limit is ever served by the child.
THEOREM BridgedNeverLimited == ManagedSpec => []BridgedUnlimited
  <1>1. ServiceInv => BridgedUnlimited
    BY DEF ServiceInv, Checked
  <1> QED
    BY <1>1, ServiceInvariant, PTL

-----------------------------------------------------------------------------
(* The two together. *)

Applying == {"backup", "save", "close", "advance", "boot", "restore"}

\* One component works at a time.
Turns == mpc # "idle" => pc \in {"idle", "auxiliary"} /\ reported = "none"

\* A managed command holds what was there before; the service is as it was
\* until its turn, and an operation of the service changes the saved state
\* only when it succeeds.
During ==
    /\ managed => pc \in Applying \cup {"auxiliary"} /\ reported = "none" /\ old = before.file
    /\ managed /\ pc # "auxiliary" => outcome = "none" /\ state = before.state
    /\ pc = "auxiliary" =>
         /\ managed
         /\ outcome # "applied" => state = before.state
         /\ outcome = "applied" => state = IF goal = NoList THEN Disabled ELSE Enabled(goal)
         /\ mpc # "idle" => outcome = "none" /\ list = goal /\ mpc \notin {"boot", "relaunch"}

\* Its recovery applies what was there before.
Recovery ==
    /\ reported = "recovering" =>
         pc \in Applying /\ ~managed /\ new = before.file /\ state = before.state
    /\ reported \in {"applied", "rolled_back"} => pc = "idle"
    /\ reported # "none" => ~booting /\ pc # "off"

TogetherInv == Turns /\ During /\ Recovery /\ ManagedTogether

\* A step of the core.
LEMMA CoreStepTogether ==
    ASSUME IInv, Waiting, TogetherInv, CoreStep
    PROVE  TogetherInv'
  <1> USE DEF TogetherInv, Turns, During, Recovery, ManagedTogether, Applying, CoreStep, Return, Goto,
              mihomoVars, service, operation
  <1>0. mpc = "idle" /\ reported \notin {"applied", "rolled_back"}
    BY DEF Backup, Save, Close, Advance, Boot, Restore, Start, StartBoot, SyncLive, SyncSave
  <1>1. CASE Backup
    BY <1>0, <1>1 DEF Backup
  <1>2. CASE Save
    BY <1>0, <1>2 DEF Save
  <1>3. CASE Close
    BY <1>0, <1>3 DEF Close
  <1>4. CASE Advance
    BY <1>0, <1>4 DEF Advance
  <1>5. CASE Boot
    <2>1. file = new /\ file' = file
      BY <1>5 DEF Boot, IInv, ConfigInv, Replacing, files
    <2> QED
      BY <1>0, <1>5, <2>1 DEF Boot, Run, files
  <1>6. CASE Restore
    BY ZenonT(60), <1>0, <1>6 DEF Restore
  <1>7. CASE Start
    BY SMTT(30), <1>0, <1>7 DEF Start
  <1>8. CASE StartBoot
    BY SMTT(30), <1>0, <1>8 DEF StartBoot
  <1>9. CASE SyncLive
    BY SMTT(30), <1>0, <1>9 DEF SyncLive
  <1>10. CASE SyncSave
    BY SMTT(30), <1>0, <1>10 DEF SyncSave
  <1> QED
    BY ZenonT(60), <1>1, <1>2, <1>3, <1>4, <1>5, <1>6, <1>7, <1>8, <1>9, <1>10

\* A step of the service.
LEMMA ServiceStepTogether ==
    ASSUME ServiceInv, TogetherInv, ServiceStep
    PROVE  TogetherInv'
  <1> USE DEF TogetherInv, Turns, During, Recovery, ManagedTogether, Applying, ServiceStep, Finish, Continue,
              service, operation, vars, files, instance, command, past, record
  <1>1. CASE Disable
    BY <1>1 DEF Disable, ServiceInv, ServiceTypes
  <1>2. CASE Preflight
    BY <1>2 DEF Preflight
  <1>3. CASE Replace
    BY <1>3 DEF Replace
  <1>4. CASE Keep
    BY <1>4, MihomoAssumption DEF Keep, ServiceInv, ServiceTypes
  <1>5. CASE Recover
    BY <1>5 DEF Recover
  <1>6. CASE StartService
    BY <1>6 DEF StartService
  <1>7. CASE Relaunch
    BY ZenonT(60), <1>7 DEF Relaunch
  <1> QED
    BY ZenonT(60), <1>1, <1>2, <1>3, <1>4, <1>5, <1>6, <1>7 DEF MihomoStep

\* The outcome of the auxiliary listeners.
LEMMA AuxiliaryTogether ==
    ASSUME IInv, Waiting, ServiceInv, TogetherInv, AuxiliaryDone
    PROVE  TogetherInv'
  <1> USE DEF TogetherInv, Turns, During, Recovery, ManagedTogether, Applying, AuxiliaryDone, Return,
              mihomoVars, service, operation, files, instance, past
  <1>1. running = new /\ file = new /\ ~booting
    BY DEF IInv, ConfigInv, Waiting
  <1>2. CASE outcome = "applied" /\ AuxiliaryApplied /\ reported' = "applied"
    BY <1>1, <1>2 DEF AuxiliaryApplied
  <1>3. CASE outcome = "failed" /\ AuxiliaryFailed /\ reported' = IF pc' = "backup" THEN "recovering" ELSE "failed"
    BY ZenonT(60), <1>1, <1>3 DEF AuxiliaryFailed
  <1> QED
    BY <1>2, <1>3

\* Every step keeps the invariant.
LEMMA TogetherNextInv ==
    IInv /\ Waiting /\ ServiceInv /\ TogetherInv /\ [ManagedNext]_managedVars => TogetherInv'
  <1> SUFFICES ASSUME IInv, Waiting, ServiceInv, TogetherInv, [ManagedNext]_managedVars PROVE TogetherInv'
    OBVIOUS
  <1>1. CASE CoreStep
    BY <1>1, CoreStepTogether
  <1>2. CASE ServiceStep
    BY <1>2, ServiceStepTogether
  <1>3. CASE AuxiliaryDone
    BY <1>3, AuxiliaryTogether
  <1> USE DEF TogetherInv, Turns, During, Recovery, ManagedTogether, Applying
  <1>4. CASE NewAgent
    BY <1>4 DEF NewAgent, New, MihomoNew, Finish, record
  <1>5. CASE CrashAgent
    BY <1>5 DEF CrashAgent, Crash, Finish, Forget
  <1>6. CASE BootService
    BY <1>6 DEF Waiting, BootService, Continue, service, operation, vars, files, instance, command, past, record
  <1>7. CASE CoreCommand
    BY <1>7 DEF CoreCommand, Free, Forget, ApplyConfig, SyncUsers, StartCommand, Stop, Return, Goto,
       mihomoVars, operation
  <1>8. CASE ServiceCommand
    BY <1>8 DEF ServiceCommand, Free, Forget, vars, command
  <1>9. CASE \E c \in Configs : ManagedCommand(c)
    BY <1>9 DEF ManagedCommand, ApplyConfig, Free, service
  <1>10. CASE \E l \in Lists \cup {NoList} : AuxiliaryApply(l)
    BY <1>10, StateTypes DEF AuxiliaryApply, Apply, service, vars, files, instance, command, past
  <1>11. CASE ServiceExit
    BY <1>11 DEF ServiceExit, ChildExit, operation, vars, files, instance, command, past, record
  <1>12. CASE UNCHANGED managedVars
    BY <1>12 DEF managedVars, mihomoVars, service, operation, vars, files, instance, command, past, record
  <1> QED
    BY ZenonT(60), <1>1, <1>2, <1>3, <1>4, <1>5, <1>6, <1>7, <1>8, <1>9, <1>10, <1>11, <1>12 DEF ManagedNext

\* A managed command leaves the core and the service as it asks for, or reports
\* so, or has taken both back.
THEOREM AppliedTogether == ManagedSpec => []ManagedTogether
  <1>1. ManagedInit => TogetherInv
    BY DEF ManagedInit, Init, MihomoInit, TogetherInv, Turns, During, Recovery, ManagedTogether
  <1>2. TogetherInv => ManagedTogether
    BY DEF TogetherInv
  <1> QED
    BY <1>1, <1>2, CoreInvariant, ServiceInvariant, TogetherNextInv, PTL DEF ManagedSpec

\* The history of the managed command has its type.
RecordTypes ==
    /\ booting \in BOOLEAN /\ goal \in Lists \cup {NoList}
    /\ before \in [file : Configs \cup {NoFile}, state : States]
    /\ reported \in Outcomes \cup {"recovering", "rolled_back"}

\* Every step keeps the types of what the managed configuration remembers.
LEMMA RecordNext == IInv /\ ServiceInv /\ RecordTypes /\ [ManagedNext]_managedVars => RecordTypes'
  <1> SUFFICES ASSUME IInv, ServiceInv, RecordTypes, [ManagedNext]_managedVars PROVE RecordTypes'
    OBVIOUS
  <1> USE DEF RecordTypes, Outcomes
  <1>1. CASE CoreCommand \/ ServiceCommand \/ CrashAgent
    <2>1. Forget /\ booting' \in BOOLEAN
      BY ZenonT(60), <1>1 DEF CoreCommand, ServiceCommand, CrashAgent
    <2> QED
      BY <2>1, StateTypes DEF Forget
  <1>2. CASE \E c \in Configs : ManagedCommand(c)
    <2>1. /\ goal' = NoList /\ reported' = "none" /\ booting' = booting
          /\ before' = [file |-> file, state |-> state]
      BY ZenonT(60), <1>2 DEF ManagedCommand
    <2>2. file \in Configs \cup {NoFile} /\ state \in States
      BY ZenonT(60) DEF IInv, TypeOK, ServiceInv, ServiceTypes
    <2> QED
      BY <2>1, <2>2
  <1>3. CASE \E l \in Lists \cup {NoList} : AuxiliaryApply(l)
    BY <1>3 DEF AuxiliaryApply
  <1>4. CASE AuxiliaryDone \/ CoreStep
    BY <1>4 DEF AuxiliaryDone, CoreStep
  <1>5. CASE NewAgent \/ BootService \/ ServiceStep \/ ServiceExit \/ UNCHANGED managedVars
    BY ZenonT(60), <1>5 DEF NewAgent, BootService, ServiceStep, ServiceExit, managedVars, record
  <1> QED
    BY <1>1, <1>2, <1>3, <1>4, <1>5 DEF ManagedNext

\* Every variable of the composition keeps its type.
THEOREM ManagedTypeCorrect == ManagedSpec => []ManagedTypeOK
  <1>1. ManagedInit => RecordTypes
    <2>1. ManagedInit => booting \in BOOLEAN
      BY ZenonT(60) DEF ManagedInit
    <2>2. ManagedInit => /\ goal = NoList /\ reported = "none"
                         /\ before = [file |-> NoFile, state |-> Disabled]
      BY DEF ManagedInit
    <2> QED
      BY <2>1, <2>2, StateTypes DEF RecordTypes, Outcomes
  <1>2. IInv /\ ServiceInv /\ RecordTypes => ManagedTypeOK
    BY DEF IInv, ServiceInv, ServiceTypes, RecordTypes, ManagedTypeOK
  <1> QED
    BY <1>1, <1>2, RecordNext, CoreInvariant, ServiceInvariant, PTL DEF ManagedSpec

-----------------------------------------------------------------------------
(* Numbers. *)

\* A set of numbers that is not empty has a smallest member.
LEMMA LeastNumber ==
    ASSUME NEW S \in SUBSET Nat, S # {}
    PROVE  \E n \in S : \A m \in Nat : m < n => m \notin S
  <1>1. PICK n \in S : \A m \in S : ~ (<<m, n>> \in OpToRel(<, Nat))
    BY NatLessThanWellFounded, WFMin
  <1>2. \A m \in S : ~(m < n)
    BY <1>1 DEF OpToRel
  <1>3. QED
    BY <1>2

-----------------------------------------------------------------------------
(* Telemetry. *)

Paths == Seq(STRING) \ {<<>>}

\* The beginnings of a beginning are beginnings.
LEMMA PathFacts ==
    ASSUME NEW p \in Paths
    PROVE  /\ p \in Prefixes(p) /\ Prefixes(p) = Above(p) \cup {p}
           /\ \A q \in Above(p) : q \in Paths /\ Prefixes(q) \subseteq Above(p)
  <1>1. Len(p) \in Nat \ {0} /\ SubSeq(p, 1, Len(p)) = p
    BY DEF Paths
  <1>2. p \in Prefixes(p) /\ Prefixes(p) = Above(p) \cup {p}
    <2>1. ASSUME NEW k \in Nat \ {0}
          PROVE  /\ k \in 1..k /\ \A n \in 1..k : n = k \/ n \in 1..k - 1
                 /\ \A n \in 1..k - 1 : n \in 1..k
      OBVIOUS
    <2>2. /\ Len(p) \in 1..Len(p) /\ \A n \in 1..Len(p) : n = Len(p) \/ n \in 1..Len(p) - 1
          /\ \A n \in 1..Len(p) - 1 : n \in 1..Len(p)
      BY <1>1, <2>1, Zenon
    <2>3. QED
      BY <1>1, <2>2, Zenon DEF Prefixes, Above
  <1>3. ASSUME NEW n \in 1..Len(p) - 1
        PROVE  SubSeq(p, 1, n) \in Paths /\ Prefixes(SubSeq(p, 1, n)) \subseteq Above(p)
    <2> DEFINE q == SubSeq(p, 1, n)
    <2>1. q \in Seq(STRING) /\ Len(q) = n /\ n \in Nat \ {0} /\ n <= Len(p)
      BY <1>1 DEF Paths
    <2>2. ASSUME NEW m \in 1..n PROVE SubSeq(q, 1, m) = SubSeq(p, 1, m)
      <3>1. SubSeq(q, 1, m) \in Seq(STRING) /\ SubSeq(p, 1, m) \in Seq(STRING)
        BY <1>1, <2>1 DEF Paths
      <3>2. Len(SubSeq(q, 1, m)) = m /\ Len(SubSeq(p, 1, m)) = m
        BY <1>1, <2>1 DEF Paths
      <3>3. \A i \in 1..m : SubSeq(q, 1, m)[i] = SubSeq(p, 1, m)[i]
        BY <1>1, <2>1 DEF Paths
      <3>4. QED
        BY <3>1, <3>2, <3>3, SeqEqual
    <2>3. Prefixes(q) \subseteq Above(p)
      <3> HIDE DEF q
      <3>1. Prefixes(q) = {SubSeq(q, 1, m) : m \in 1..n}
        BY <2>1 DEF Prefixes
      <3>2. \A m \in 1..n : m \in 1..Len(p) - 1
        BY <1>1
      <3>3. QED
        BY <2>2, <3>1, <3>2, Zenon DEF Above
    <2>4. QED
      BY <2>1, <2>3 DEF Paths
  <1>4. QED
    BY <1>2, <1>3, Zenon DEF Above

\* What lies on the way to a path of an observation is an object of it.
LEMMA OnTheWay ==
    ASSUME NEW o, IsObservation(o), NEW p \in DOMAIN o
    PROVE  /\ p \in Paths /\ p \in Prefixes(p)
           /\ Prefixes(p) \subseteq DOMAIN o
           /\ \A q \in Above(p) : q \in DOMAIN o /\ o[q] = Object /\ q \in Prefixes(p)
           /\ \A q \in Prefixes(p) : q = p \/ q \in Above(p)
  <1>1. p \in Paths /\ \A q \in Above(p) : q \in DOMAIN o /\ o[q] = Object
    BY DEF IsObservation, Paths
  <1>2. QED
    BY <1>1, PathFacts

\* observationDiff's result is a part of next, and all in which next differs.
LEMMA ChangesFacts ==
    ASSUME NEW prior, NEW next, IsObservation(next)
    PROVE  /\ DOMAIN Changes(prior, next) \subseteq DOMAIN next
           /\ \A p \in DOMAIN Changes(prior, next) : Changes(prior, next)[p] = next[p]
           /\ \A p \in DOMAIN next :
                p \notin DOMAIN Changes(prior, next) => p \in DOMAIN prior /\ prior[p] = next[p]
  <1> DEFINE added == {p \in DOMAIN next : p \notin DOMAIN prior \/ prior[p] # next[p]}
             D == UNION {Prefixes(p) : p \in added}
  <1>1. Changes(prior, next) = Restricted(next, D)
    BY Zenon DEF Changes
  <1>2. \A p \in added : Prefixes(p) \subseteq DOMAIN next /\ p \in Prefixes(p)
    BY OnTheWay, Zenon
  <1>3. D \subseteq DOMAIN next /\ added \subseteq D
    BY <1>2, Zenon
  <1>4. DOMAIN Changes(prior, next) = D /\ \A p \in D : Changes(prior, next)[p] = next[p]
    BY <1>1, Zenon DEF Restricted
  <1>5. QED
    BY <1>3, <1>4, Zenon

\* What observationDiff reports, taken away and merged in, makes next of prior.
LEMMA PatchExact ==
    ASSUME NEW prior, NEW next, IsObservation(prior), IsObservation(next)
    PROVE  MergeObservation(Without(prior, Removals(prior, next)), Changes(prior, next)) = next
  <1> DEFINE S == Changes(prior, next)
             R == Removals(prior, next)
             W == Without(prior, R)
             kept == {p \in DOMAIN W : \A q \in Prefixes(p) \cap DOMAIN S : S[q] = Object}
  <1>1. /\ DOMAIN S \subseteq DOMAIN next
        /\ \A p \in DOMAIN S : S[p] = next[p]
        /\ \A p \in DOMAIN next : p \notin DOMAIN S => p \in DOMAIN prior /\ prior[p] = next[p]
    BY ChangesFacts, Zenon
  <1>2. /\ DOMAIN W = {p \in DOMAIN prior : Prefixes(p) \cap R = {}}
        /\ \A p \in DOMAIN W : W[p] = prior[p]
    BY Zenon DEF Without, Restricted
  <1>3. MergeObservation(W, S) = [p \in DOMAIN S \cup kept |-> IF p \in DOMAIN S THEN S[p] ELSE W[p]]
    BY Zenon DEF MergeObservation
  <1>4. \A p \in R : p \in DOMAIN prior /\ p \notin DOMAIN next
    BY Zenon DEF Removals
  <1>5. \A p \in DOMAIN prior : p \notin DOMAIN next /\ p \notin R
          => \E q \in Above(p) : ~ (q \in DOMAIN next /\ next[q] = Object)
    BY Zenon DEF Removals
  <1> HIDE DEF S, R, W
  <1>6. ASSUME NEW p \in DOMAIN next, p \notin DOMAIN S
        PROVE  p \in kept
    <2>1. p \in DOMAIN prior /\ \A q \in Prefixes(p) : q \notin R
      BY <1>1, <1>4, <1>6, OnTheWay, Zenon
    <2>2. p \in DOMAIN W
      BY <1>2, <2>1, Zenon
    <2>3. \A q \in Prefixes(p) \cap DOMAIN S : S[q] = Object
      BY <1>1, <1>6, OnTheWay, Zenon
    <2>4. QED
      BY <2>2, <2>3, Zenon
  <1>7. ASSUME NEW p \in kept, p \notin DOMAIN next
        PROVE  FALSE
    <2>1. /\ p \in DOMAIN prior /\ \A q \in Prefixes(p) : q \notin R
          /\ \A q \in Prefixes(p) : q \in DOMAIN S => S[q] = Object
      BY <1>2, Zenon
    <2> DEFINE Missing == {n \in Nat : n \in 1..Len(p) /\ SubSeq(p, 1, n) \notin DOMAIN next}
    <2>2. p \in Seq(STRING) /\ Len(p) \in Nat \ {0} /\ SubSeq(p, 1, Len(p)) = p
      <3>1. p \in Paths
        BY <2>1, OnTheWay, Zenon
      <3>2. QED
        BY <3>1 DEF Paths
    <2>3. Missing \in SUBSET Nat /\ Len(p) \in Missing
      <3>1. Len(p) \in Nat /\ Len(p) \in 1..Len(p)
        BY <2>2
      <3>2. QED
        BY <1>7, <2>2, <3>1, Zenon
    <2>4. PICK n \in Missing : \A m \in Nat : m < n => m \notin Missing
      <3> HIDE DEF Missing
      <3>1. QED
        BY <2>3, LeastNumber
    <2> DEFINE q == SubSeq(p, 1, n)
    <2>5. n \in 1..Len(p) /\ q \in Prefixes(p) /\ q \notin DOMAIN next
      BY <2>4 DEF Prefixes
    <2>6. q \in DOMAIN prior /\ q \notin R
      BY <2>1, <2>5, OnTheWay, Zenon
    <2>7. \A a \in Above(q) : a \in DOMAIN next
      <3>1. Len(q) = n
        BY <2>2, <2>5
      <3>2. ASSUME NEW m \in 1..n - 1 PROVE SubSeq(q, 1, m) \in DOMAIN next
        <4>1. m \in Nat /\ m < n /\ m \in 1..Len(p)
          BY <2>2, <2>5
        <4>2. SubSeq(p, 1, m) \in DOMAIN next
          BY <2>4, <4>1
        <4>3. SubSeq(q, 1, m) = SubSeq(p, 1, m)
          <5>1. SubSeq(q, 1, m) \in Seq(STRING) /\ SubSeq(p, 1, m) \in Seq(STRING)
            BY <2>2, <2>5, <4>1
          <5>2. Len(SubSeq(q, 1, m)) = m /\ Len(SubSeq(p, 1, m)) = m
            BY <2>2, <2>5, <4>1
          <5>3. \A i \in 1..m : SubSeq(q, 1, m)[i] = SubSeq(p, 1, m)[i]
            BY <2>2, <2>5, <4>1
          <5>4. QED
            BY <5>1, <5>2, <5>3, SeqEqual
        <4>4. QED
          BY <4>2, <4>3
      <3> HIDE DEF q
      <3>3. QED
        BY <3>1, <3>2 DEF Above
    <2> HIDE DEF q
    <2>8. PICK a \in Above(q) : next[a] # Object
      BY <1>5, <2>5, <2>6, <2>7, Zenon
    <2>9. a \in DOMAIN next /\ prior[a] = Object
      BY <2>6, <2>7, OnTheWay, Zenon
    <2>10. a \in Prefixes(p)
      <3>1. p \in Paths
        BY <2>1, OnTheWay, Zenon
      <3>2. q = p \/ q \in Above(p)
        <4>1. Prefixes(p) = Above(p) \cup {p}
          BY <3>1, PathFacts, Zenon
        <4>2. QED
          BY <2>5, <4>1, Zenon
      <3>3. a \in Prefixes(q)
        BY <2>6, OnTheWay, Zenon
      <3>4. QED
        BY <3>1, <3>2, <3>3, PathFacts, Zenon
    <2>11. a \in DOMAIN S
      BY <1>1, <2>8, <2>9
    <2>12. QED
      BY <1>1, <2>1, <2>8, <2>10, <2>11
  <1>8. DOMAIN S \cup kept = DOMAIN next
    BY <1>1, <1>6, <1>7, Zenon
  <1>9. \A p \in DOMAIN next : (IF p \in DOMAIN S THEN S[p] ELSE W[p]) = next[p]
    <2>1. \A p \in DOMAIN next : p \notin DOMAIN S => W[p] = next[p]
      BY <1>1, <1>2, <1>6, Zenon
    <2>2. QED
      BY <1>1, <2>1
  <1>10. next = [p \in DOMAIN next |-> next[p]]
    BY Zenon DEF IsObservation, Restricted
  <1>11. MergeObservation(W, S) = [p \in DOMAIN next |-> next[p]]
    BY <1>3, <1>8, <1>9
  <1>12. QED
    BY <1>10, <1>11, Zenon DEF S, R, W

\* Every removal observationDiff reports finds its field, in whatever order.
LEMMA RemovalsRemovable ==
    ASSUME MaxDepth \in Nat, NEW prior, NEW next, IsObservation(prior), BoundedObservation(prior)
    PROVE  Removable(prior, Removals(prior, next))
  <1> SUFFICES ASSUME NEW p \in Removals(prior, next)
               PROVE  p \in DOMAIN prior /\ Len(p) <= MaxDepth /\ Above(p) \cap Removals(prior, next) = {}
    BY Zenon DEF Removable
  <1>1. p \in DOMAIN prior /\ \A q \in Above(p) : q \in DOMAIN next
    BY Zenon DEF Removals
  <1>2. Above(p) \cap Removals(prior, next) = {}
    BY <1>1, Zenon DEF Removals
  <1>3. Len(p) \in Nat /\ prior[p].height \in Nat /\ Len(p) + prior[p].height <= MaxDepth
    BY <1>1 DEF IsObservation, BoundedObservation
  <1>4. QED
    BY <1>1, <1>2, <1>3

\* A patch is no deeper than the snapshot it leads to.
LEMMA ChangesBounded ==
    ASSUME NEW prior, NEW next, IsObservation(next), BoundedObservation(next)
    PROVE  BoundedObservation(Changes(prior, next))
  <1> SUFFICES ASSUME NEW p \in DOMAIN Changes(prior, next)
               PROVE  Len(p) + Changes(prior, next)[p].height <= MaxDepth
    BY Zenon DEF BoundedObservation
  <1>1. p \in DOMAIN next /\ Changes(prior, next)[p] = next[p]
    BY ChangesFacts
  <1>2. QED
    BY <1>1, Zenon DEF BoundedObservation

\* Whatever MakeObservationDelta makes of two snapshots, the whole one or a
\* patch, ApplyObservationDelta turns the old one into the new one with it: it
\* refuses none, at no depth, and what it yields is next to the last field.
THEOREM DeltaExact ==
    ASSUME MaxDepth \in Nat, NEW base, NEW prior, NEW next,
           IsObservation(next), BoundedObservation(next),
           prior # Nil => IsObservation(prior) /\ BoundedObservation(prior)
    PROVE  \A delta \in MakeObservationDelta(base, prior, next) :
             ApplyObservationDelta(base, prior, delta) = next
  <1>1. ApplyObservationDelta(base, prior, FullDelta(base, next)) = next
    <2>1. DOMAIN next # {}
      BY Zenon DEF IsObservation
    <2>2. QED
      BY <2>1 DEF ApplyObservationDelta, FullDelta
  <1>2. ASSUME prior # Nil
        PROVE  ApplyObservationDelta(base, prior, PatchDelta(base, prior, next)) = next
    <2> DEFINE S == Changes(prior, next)
               R == Removals(prior, next)
               d == PatchDelta(base, prior, next)
    <2>1. d.base = base /\ d.full = FALSE /\ d.set = S /\ d.removed = R
      BY DEF PatchDelta
    <2>2. BoundedObservation(S)
      BY ChangesBounded, Zenon
    <2>3. Removable(prior, R)
      BY <1>2, RemovalsRemovable, Zenon
    <2>4. MergeObservation(Without(prior, R), S) = next
      BY <1>2, PatchExact, Zenon
    <2> HIDE DEF S, R, d
    <2>5. ApplyObservationDelta(base, prior, d) = next
      BY <1>2, <2>1, <2>2, <2>3, <2>4 DEF ApplyObservationDelta
    <2>6. QED
      BY <2>5 DEF d
  <1>3. QED
    BY <1>1, <1>2, Zenon DEF MakeObservationDelta

-----------------------------------------------------------------------------
\* A snapshot of this connection: none, or one that was not too deep.
Snapshot(o) == o # Nil => o \in Observations /\ BoundedObservation(o)

\* What the connection keeps between its steps.  While no acknowledgement is
\* under way the controller has the agent's baseline, and a delta in transit
\* leads from it to the pending snapshot; while one is, the controller is at
\* the pending snapshot and there is no delta.
TelemetryInv ==
    /\ ~ rejected /\ telemetryRevision \in Nat
    /\ Snapshot(telemetryBase) /\ Snapshot(telemetryPending)
    /\ up => \/ /\ seq = telemetryRevision /\ view = telemetryBase /\ ack = 0
                /\ sent # Nil =>
                     /\ telemetryPending # Nil
                     /\ sent \in MakeObservationDelta(telemetryRevision, telemetryBase, telemetryPending)
             \/ /\ seq = telemetryRevision + 1 /\ view = telemetryPending
                /\ telemetryPending # Nil /\ ack = telemetryRevision + 1 /\ sent = Nil

\* The invariant holds initially.
LEMMA TelemetryInitInv == TelemetryInit => TelemetryInv
  BY DEF TelemetryInit, TelemetryInv, Snapshot

\* The delta that is sent makes the sample of the controller's snapshot.
LEMMA SampleInv == ASSUME TelemetryInv, NEW o \in Observations, Sample(o) PROVE TelemetryInv'
  <1>1. o # Nil
    BY TelemetryAssumption
  <1>2. ~ rejected' /\ telemetryRevision' \in Nat /\ Snapshot(telemetryBase)' /\ Snapshot(telemetryPending)'
    BY <1>1 DEF TelemetryInv, Sample, Snapshot
  <1>3. seq = telemetryRevision /\ view = telemetryBase /\ ack = 0
    BY DEF TelemetryInv, Sample
  <1>4. /\ seq' = telemetryRevision' /\ view' = telemetryBase' /\ ack' = 0
        /\ telemetryPending' # Nil
    BY <1>1, <1>3 DEF Sample
  <1>5. sent' \in MakeObservationDelta(telemetryRevision', telemetryBase', telemetryPending')
    BY DEF Sample
  <1>6. QED
    BY <1>2, <1>4, <1>5, Zenon DEF TelemetryInv

\* The controller applies it, and has the pending snapshot.
LEMMA ReceiveInv == ASSUME TelemetryInv, Receive PROVE TelemetryInv'
  <1>1. /\ seq = telemetryRevision /\ view = telemetryBase /\ telemetryPending # Nil
        /\ sent \in MakeObservationDelta(telemetryRevision, telemetryBase, telemetryPending)
    BY DEF TelemetryInv, Receive
  <1>2. telemetryPending \in Observations /\ IsObservation(telemetryPending) /\ BoundedObservation(telemetryPending)
    BY <1>1, TelemetryAssumption, Zenon DEF TelemetryInv, Snapshot
  <1>3. telemetryBase # Nil => IsObservation(telemetryBase) /\ BoundedObservation(telemetryBase)
    BY TelemetryAssumption, Zenon DEF TelemetryInv, Snapshot
  <1>4. MaxDepth \in Nat
    BY TelemetryAssumption, Zenon
  <1>5. ApplyObservationDelta(seq, view, sent) = telemetryPending
    BY <1>1, <1>2, <1>3, <1>4, DeltaExact, Zenon
  <1>6. /\ view' = telemetryPending /\ seq' = seq + 1 /\ ack' = seq + 1 /\ up' = up /\ rejected' = rejected
        /\ sent' = Nil
        /\ UNCHANGED <<telemetryBase, telemetryPending, telemetryRevision>>
    BY <1>1, <1>5 DEF Receive
  <1>7. QED
    BY <1>1, <1>6 DEF TelemetryInv, Snapshot

\* The acknowledged snapshot is the one the controller has.
LEMMA AcknowledgeInv == ASSUME TelemetryInv, Acknowledge PROVE TelemetryInv'
  <1>1. /\ seq = telemetryRevision + 1 /\ view = telemetryPending
        /\ telemetryPending # Nil /\ ack = telemetryRevision + 1 /\ sent = Nil
    BY DEF TelemetryInv, Acknowledge
  <1>2. /\ telemetryBase' = telemetryPending /\ telemetryPending' = Nil
        /\ telemetryRevision' = ack /\ ack' = 0 /\ UNCHANGED <<up, sent, seq, view, rejected>>
    BY <1>1 DEF Acknowledge
  <1>3. QED
    BY <1>1, <1>2 DEF TelemetryInv, Snapshot

\* Every step keeps the invariant.
LEMMA TelemetryStep == TelemetryInv /\ [TelemetryNext]_telemetryVars => TelemetryInv'
  <1> SUFFICES ASSUME TelemetryInv, [TelemetryNext]_telemetryVars PROVE TelemetryInv'
    OBVIOUS
  <1>1. ASSUME NEW o \in Observations, Sample(o) PROVE TelemetryInv'
    BY <1>1, SampleInv
  <1>2. ASSUME NEW o \in Observations, SampleFails(o) PROVE TelemetryInv'
    BY <1>2 DEF TelemetryInv, SampleFails, Snapshot
  <1>3. CASE Receive
    BY <1>3, ReceiveInv
  <1>4. CASE Acknowledge
    BY <1>4, AcknowledgeInv
  <1>5. CASE Reconnect
    BY <1>5 DEF TelemetryInv, Reconnect, Fresh, Snapshot
  <1>6. CASE UNCHANGED telemetryVars
    BY <1>6 DEF TelemetryInv, telemetryVars, Snapshot
  <1>7. QED
    BY <1>1, <1>2, <1>3, <1>4, <1>5, <1>6 DEF TelemetryNext

\* The controller's observation is the snapshot the agent believes it to be, and
\* no delta is ever refused.
THEOREM TelemetrySafe == TelemetrySpec => []ViewIsSnapshot
  <1>1. TelemetryInv => ViewIsSnapshot
    BY Zenon DEF TelemetryInv, ViewIsSnapshot
  <1>2. QED
    BY <1>1, TelemetryInitInv, TelemetryStep, PTL DEF TelemetrySpec

=============================================================================
