-------------------------------- MODULE Core --------------------------------
(***************************************************************************)
(* The embedded proxy core: internal/runtime/core.go, users.go,            *)
(* managed_config.go, bootstrap.go and the generation counter of           *)
(* runtime.go.  Commands run one at a time under Runtime.mu; they are cut  *)
(* into their file operations and core operations, each of which may fail, *)
(* and the process may stop between any two.  A configuration is opaque;   *)
(* whether a core starts with it is not decided by its text (ports may be  *)
(* taken).  Firewall recovery and the checks that refuse a configuration   *)
(* before anything changes are in module Firewall.                         *)
(***************************************************************************)
EXTENDS Naturals

CONSTANTS
    Configs,    \* configurations, user lists included
    Initial,    \* the configuration bootstrap.go installs
    NoFile,     \* the configuration file does not exist
    Partial,    \* users half synchronised
    MaxGen      \* the last generation (2^53 - 2 in the code)

ASSUME CoreAssumption ==
    /\ Initial \in Configs
    /\ NoFile \notin Configs /\ Partial \notin Configs /\ NoFile # Partial
    /\ MaxGen \in Nat

VARIABLES
    file,       \* xray/config.json
    history,    \* xray history directory
    saved,      \* core-generation
    generation, \* Runtime.generation
    running,    \* the configuration Runtime.instance runs, or NoFile
    since,      \* the generation that instance was started with
    pc,         \* step of the command in progress
    new, old,   \* its configuration, and the one it found
    managed,    \* it also applies the auxiliary listeners
    last,       \* history: the configuration last reported as applied
    used        \* history: generations instances were started with

files == <<file, history, saved>>
instance == <<running, since>>
command == <<pc, new, old, managed>>
past == <<last, used>>
vars == <<files, generation, instance, command, past>>

Steps == {"off", "idle", "backup", "save", "close", "advance", "boot", "restore",
          "auxiliary", "start", "start_boot", "sync", "sync_save"}

Init ==
    /\ file = NoFile /\ history = {} /\ saved = 0
    /\ generation = 0 /\ running = NoFile /\ since = 0
    /\ pc = "off" /\ new = NoFile /\ old = NoFile /\ managed = FALSE
    /\ last = NoFile /\ used = {}

Return == pc' = "idle" /\ new' = NoFile /\ old' = NoFile /\ managed' = FALSE
Goto(step) == pc' = step /\ UNCHANGED <<new, old, managed>>

\* New: read the generation, install the initial configuration when there is
\* none, and go on to Start.
New ==
    /\ pc = "off"
    /\ generation' = saved
    /\ file' = IF file = NoFile THEN Initial ELSE file
    /\ pc' = "start"
    /\ UNCHANGED <<history, saved, instance, new, old, managed, past>>

-----------------------------------------------------------------------------
(* core.config.apply: applyConfig. *)

ApplyConfig(c, aux) ==
    /\ pc = "idle"
    /\ pc' = "backup" /\ new' = c /\ old' = file /\ managed' = aux
    /\ UNCHANGED <<files, generation, instance, past>>

\* Mutant: goes on although the previous configuration could not be kept.
BackupIgnored ==
    /\ pc = "backup"
    /\ history' = history \cup {old} \/ UNCHANGED history
    /\ Goto("save")
    /\ UNCHANGED <<file, saved, generation, instance, past>>

Backup ==
    /\ pc = "backup"
    /\ \/ history' = history \cup {old} /\ Goto("save")
       \/ UNCHANGED history /\ Return
    /\ UNCHANGED <<file, saved, generation, instance, past>>

Save ==
    /\ pc = "save"
    /\ \/ file' = new /\ Goto("close")
       \/ UNCHANGED file /\ Return
    /\ UNCHANGED <<history, saved, generation, instance, past>>

\* Close the previous core; when that fails the new file stays and no core
\* runs (lines 62-68).
Close ==
    /\ pc = "close"
    /\ running' = NoFile
    /\ Goto("advance") \/ (running # NoFile /\ Return)
    /\ UNCHANGED <<files, generation, since, past>>

\* Mutant: the counter is not persisted.
AdvanceGenerationInMemory ==
    /\ generation < MaxGen
    /\ generation' = generation + 1 /\ UNCHANGED saved

\* advanceGeneration: the file first, then the counter.
AdvanceGeneration ==
    /\ generation < MaxGen
    /\ saved' = generation + 1 /\ generation' = generation + 1

Advance ==
    /\ pc = "advance"
    /\ \/ AdvanceGeneration /\ Goto("boot")
       \/ UNCHANGED <<saved, generation>> /\ Goto("restore")
    /\ UNCHANGED <<file, history, instance, past>>

\* The core runs the configuration c from here on.
Run(c) ==
    /\ running' = c /\ since' = generation /\ used' = used \cup {generation}

Boot ==
    /\ pc = "boot"
    /\ \/ /\ Run(new)
          /\ IF managed
             THEN Goto("auxiliary") /\ UNCHANGED last
             ELSE Return /\ last' = new
       \/ Goto("restore") /\ UNCHANGED <<instance, past>>
    /\ UNCHANGED <<files, generation>>

\* Put the previous configuration back and start it again (lines 90-101).
Restore ==
    /\ pc = "restore"
    /\ \/ file' = old /\ pc' = "start" /\ new' = NoFile /\ old' = NoFile /\ managed' = FALSE
       \/ UNCHANGED file /\ Return
    /\ UNCHANGED <<history, saved, generation, instance, past>>

\* applyManagedConfig after the auxiliary listeners were applied ...
AuxiliaryApplied ==
    /\ pc = "auxiliary"
    /\ Return /\ last' = new
    /\ UNCHANGED <<files, generation, instance, used>>

\* ... and when they could not be: the previous core configuration is applied
\* again, unless a check refuses it.
AuxiliaryFailed ==
    /\ pc = "auxiliary"
    /\ \/ pc' = "backup" /\ new' = old /\ old' = file /\ managed' = FALSE
       \/ Return
    /\ UNCHANGED <<files, generation, instance, past>>

Auxiliary == AuxiliaryApplied \/ AuxiliaryFailed

-----------------------------------------------------------------------------
(* start, stop, and the synchronisation of users. *)

StartCommand ==
    /\ pc = "idle" /\ running = NoFile
    /\ Goto("start")
    /\ UNCHANGED <<files, generation, instance, past>>

Start ==
    /\ pc = "start"
    /\ \/ AdvanceGeneration /\ pc' = "start_boot" /\ new' = file /\ UNCHANGED <<old, managed>>
       \/ UNCHANGED <<saved, generation>> /\ Return
    /\ UNCHANGED <<file, history, instance, past>>

StartBoot ==
    /\ pc = "start_boot"
    /\ Run(new) \/ UNCHANGED <<instance, used>>
    /\ Return
    /\ UNCHANGED <<files, generation, last>>

\* core.stop, and core.restart, which starts again unless closing failed.
Stop ==
    /\ pc = "idle" /\ running # NoFile
    /\ running' = NoFile
    /\ Return \/ Goto("start")
    /\ UNCHANGED <<files, generation, since, past>>

\* syncUsers on the live core, one operation at a time; any error ends with a
\* restart from the file.
SyncUsers(c) ==
    /\ pc = "idle" /\ running # NoFile
    /\ running' = Partial
    /\ pc' = "sync" /\ new' = c /\ UNCHANGED <<old, managed>>
    /\ UNCHANGED <<files, generation, since, past>>

SyncLive ==
    /\ pc = "sync"
    /\ \/ running' = new /\ Goto("sync_save")
       \/ running' = NoFile /\ pc' = "start" /\ new' = NoFile /\ UNCHANGED <<old, managed>>
    /\ UNCHANGED <<files, generation, since, past>>

\* Mutant: the live users are kept although they could not be saved.
SyncSaveKeeps ==
    /\ pc = "sync_save"
    /\ \/ file' = new /\ last' = new
       \/ UNCHANGED <<file, last>>
    /\ Return
    /\ UNCHANGED <<history, saved, generation, instance, used>>

SyncSave ==
    /\ pc = "sync_save"
    /\ \/ /\ file' = new /\ last' = new
          /\ Return /\ UNCHANGED running
       \/ /\ running' = NoFile /\ pc' = "start" /\ new' = NoFile
          /\ UNCHANGED <<file, last, old, managed>>
    /\ UNCHANGED <<history, saved, generation, since, used>>

\* The process ends at any point; the next one starts with New.
Crash ==
    /\ pc # "off"
    /\ pc' = "off" /\ new' = NoFile /\ old' = NoFile /\ managed' = FALSE
    /\ running' = NoFile /\ generation' = 0
    /\ UNCHANGED <<files, since, past>>

Next ==
    \/ New \/ Backup \/ Save \/ Close \/ Advance \/ Boot \/ Restore \/ Auxiliary
    \/ \E c \in Configs, aux \in BOOLEAN : ApplyConfig(c, aux)
    \/ \E c \in Configs : SyncUsers(c)
    \/ StartCommand \/ Start \/ StartBoot \/ Stop \/ SyncLive \/ SyncSave \/ Crash

Spec == Init /\ [][Next]_vars

-----------------------------------------------------------------------------
(* Properties. *)

\* Every variable has its type, and the counter in memory is the saved one
\* while the agent runs.
TypeOK ==
    /\ file \in Configs \cup {NoFile} /\ history \in SUBSET Configs
    /\ saved \in 0..MaxGen /\ generation \in 0..MaxGen /\ since \in 0..MaxGen
    /\ running \in Configs \cup {NoFile, Partial}
    /\ pc \in Steps /\ managed \in BOOLEAN
    /\ new \in Configs \cup {NoFile} /\ old \in Configs \cup {NoFile}
    /\ last \in Configs \cup {NoFile} /\ used \in SUBSET (0..MaxGen)
    /\ pc # "off" => generation = saved

\* Between commands a running core runs exactly the saved configuration: a
\* restart changes nothing (applyConfig and syncUsers with every recovery), and
\* reports its counters under the current generation.
RunningIsSaved ==
    pc = "idle" /\ running # NoFile => running = file /\ since = generation

\* Traffic counters start from zero in every core: a core that starts reports
\* under a generation that no core before it, of this process or an earlier
\* one, was started with (advanceGeneration).
GenerationFresh ==
    [][running = NoFile /\ running' # NoFile => since' \notin used]_vars

\* The configuration last reported as applied can always be found again: it is
\* the saved one or is in the history, whatever fails or is interrupted later.
AppliedKept ==
    last # NoFile => last \in {file} \cup history

=============================================================================
