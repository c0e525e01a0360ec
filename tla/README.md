# Specifications of the ASWired Agent

TLA+ specifications of the agent in this repository, TLC configurations that
check them on small instances, and TLAPS proofs of the properties that matter
most. Every definition is translated from the Go source; `PROJECT.json` names
the lines each one stands for, the hazards the properties are aimed at, and a
mutation of the model that every checked property detects.

## The system

The agent is one worker process under a supervisor.

| Part | Source | Modules |
| --- | --- | --- |
| Online updates: the supervisor replaces the worker | `internal/updater`, `internal/artifact` | `Updater`, `DurableProofs` |
| Control channel: reports, commands, results, streams, polls, direct requests, connection modes | `internal/control` | `Control`, `ControlProofs`, `Delivery`, `DeliveryProofs` |
| Telemetry deltas | `internal/wire/delta.go`, `internal/control/stream.go` | `Delta`, `NestedDelta`, `Telemetry`, `RuntimeProofs` |
| Encrypted channel: sequence numbers of both packet formats | `internal/wire/wire.go`, `stream.go` | `Channel`, `PeerProofs` |
| Identity rotation and the configuration file | `internal/control/identity.go`, `connection.go`, `internal/config/enrollment.go` | `Identity`, `AccessProofs` |
| Embedded core: configuration, users, generations, recovery | `internal/runtime/core.go`, `users.go`, `runtime.go`, `bootstrap.go` | `Core`, `RuntimeProofs` |
| Auxiliary protocol service | `internal/auxiliary/mihomo.go` | `Mihomo`, `RuntimeProofs` |
| Managed configuration: core and auxiliary service under one command | `internal/runtime/managed_config.go`, `runtime.go` | `Managed`, `RuntimeProofs` |
| WireGuard and WARP tunnels | `internal/runtime/wireguard.go` | `WireGuard`, `DurableProofs` |
| Listener firewall | `internal/runtime/firewall.go`, `firewall_persistence.go` | `Firewall`, `AccessProofs` |
| User policies and admission | `internal/runtime/policy.go`, hooks in `third_party/xray-core/common/aswired` | `Policies`, `PeerProofs` |
| Port forwarding | `internal/runtime/forward.go` | `Forward`, `ForwardProofs` |
| Scoped federation | `internal/runtime/federation.go`, `internal/wire/federation.go` | `Federation`, `PeerProofs` |
| Managed logs | `internal/logfiles`, `internal/runtime/logs.go` | `Logs`, `CommandProofs` |
| Speed test | `internal/speedtest/speedtest.go` | `Download`, `CommandProofs` |
| Network quality, REALITY scan, sites, certificates, geo data | `internal/runtime`, `internal/realityscan` | not modelled |

How the parts interact. The supervisor starts the worker and swaps its
executable. The worker connects to the controller (WebSocket, polling or direct
HTTP), receives commands and executes them one at a time: `Runtime.Handle`
holds `Runtime.mu` for a whole command, so firewall, core, auxiliary service,
tunnels, forwarding and federation commands do not interleave with one another.
What does run beside them is: the goroutines of forwarders and of the proxy core
(admission and release of sessions), the network loop, the worker and the direct
handlers of the control client, the workers of a speed test, the supervisor, the
auxiliary child process, the kernel's packet filter and interfaces, other
programs, and the end of the process between any two file operations. The
modules take their interleavings from exactly these. A policy list closes
sessions after it has released its lock. An update is promoted only after the
controller acknowledged the result of the staging task; the acknowledgement
comes from the control channel. A managed configuration changes the core and
then the auxiliary service, whose users the policies may not limit by address.

## Modules

Each component module has its state as variables, one action per handler step,
`Next`, `Spec` (and `LiveSpec` where liveness is checked), the properties at
the end, and next to the definitions they vary the mutants. `MC...` modules
instantiate them; `MCControl` and `MCCore` have several components that share no
state, each explored while the others keep their initial state. Data is abstract
(a configuration, a binary, a command is a model value); control is complete
(guards, early returns, error paths, order).

**Updater.** `current`, `previous`, `next` and `disk` are the files of
`agent-update`; `sup`, `mem`, `armed` the position and memory of `Supervise`;
`work` and `seen` the position of `Stage` or `Acknowledge` in the worker and
what it read. One action is one file operation (`RemovePrevious`,
`MarkRestarting`, `MoveCurrent`, `SwapNext`, ...), so `Crash` can fall between
any two. An error return of the supervisor has the effect of a crash. Renames
are taken to reach the disk in order.

**Firewall.** The committed policy file, its journal, what of both has reached
the disk, the kernel's table with the revision it enforces and its owner mark,
and whether the core runs. `Apply` is cut at journal, kernel batch, commit and
removal of the journal, each of which may fail (`KernelFailure`, `FailClosed`);
`Ensure` is the recovery that start, configuration changes and commands run
first. `Tamper` is another program, `PowerLoss` forgets what was not synced.
The observation and the batch that follows it are one step.

**Delivery** and **Control.** `Delivery` is what the control client promises,
whatever connection a command comes by: a command is run unless its result is
still remembered; the result is kept until the controller has it, or lent to one
direct response, which may be lost. `Control` is the client: the result list
with `sentCount`, the bounded memory of executed commands, the stream's queue,
worker, `active`, `ready` and `resultsInFlight`, the two directions of a
connection, polling, and the direct listener with a handler that may outlive the
listener and its connection. Mode `auto` tries a WebSocket and gives polling and
direct requests a window when that has failed. `ImplementsDelivery` maps it to
`Delivery` (`INSTANCE ... WITH`). The controller is outside the repository and
modelled by what the agent relies on: it stores every result, acknowledges it,
and sends a command again on a new connection while it has no result for it.
The exchange with controllers that do not negotiate streams is a poll's.

**Delta**, **NestedDelta** and **Telemetry.** The code walks nested objects by
recursion. `NestedDelta` has these walks as they are written. `Delta` says what
each arrives at without recursion, so that it can be reasoned about: an
observation is a function from paths to labels, an object or a leaf, and diff,
removal, merge and depth check are defined path by path. `MCControl` assumes
(`DeltaAgrees`, which TLC evaluates) that the two agree on every pair of its
observations. A maker may always send the whole snapshot, as the code does when
a patch is no shorter. `Telemetry`, on top of `Delta`, is the baseline protocol
on one stream: at most one delta outstanding, a baseline only after its
acknowledgement, everything forgotten with the connection. An observation is
never empty (`Runtime.Snapshot` always sets `core`) and never `Nil`.

**Channel.** The counters of both ends of a connection. `Seal`/`SealBinary` take
the next number and fail at the last one; `OpenJSON`/`OpenBinary` accept only
the number after the last. The network may lose, repeat, delay and reorder any
packet. The cipher is abstracted to its promise: a packet opens only as it was
sealed.

**Identity.** The configuration file and the client's copy of it. A rotation and
a change of the connection settings write the file (`Persist`) and then change
memory, and the agent may end between the two. The controller offers one identity
at a time, repeats the offer until it has a success for it, and believes the
expiry that the success announces.

**Policies.** Counters per user, owners of identities, active sessions, sessions
spliced without limits, and the callbacks `apply` still has to call after its
unlock (`doomed`, `Terminate`). `Finish` is the release when a session's context
ends.

**Core.** The configuration file, its history, the saved generation and the one
in memory, the running instance, and the step of the command in progress.
`ApplyConfig`, `Backup`, `Save`, `Close`, `Advance`, `Boot` and `Restore` are
`applyConfig`; `AuxiliaryApplied` and `AuxiliaryFailed` what the core does when
the rest of a managed configuration has ended; `SyncUsers`, `SyncLive`,
`SyncSave` the live user synchronisation. Whether a core starts is
nondeterministic, since ports may be taken. A refusal before anything changes
is no step. `atomicWrite` does not sync the directory, so what is shown about
crashes is about the end of the process, not the loss of power. The recovery
for an empty old configuration cannot happen once the agent has installed its
initial one.

**Mihomo** and **Managed.** `Mihomo` is the manager of the auxiliary child: the
saved and the desired listeners, what the child serves, and the step of the
operation in progress (`Preflight`, `Replace`, `Keep`, `Recover`, ...). The
child may exit at any time, which nothing notices until the next operation.
`Managed` composes it with `Core` as `Runtime` does: one command at a time,
`applyManagedConfig` changing the core, then the service, then recovering the
core when the service failed, and a start that boots the core before the
service. It is shown to implement `Core`.

**WireGuard.** Per tunnel the `wg-quick` configuration, the saved state and the
kernel's interface, which outlives the agent. Apply, its rollback, remove and
restore are cut at every write and every `wg-quick` call; a call that fails may
have done its work or not. Other programs may take an interface down or create
one of the same name, the host may restart.

**Forward.** The saved rules, the manager's table, the step of `apply` with the
table it builds, and per listener object its rule and whether it is bound,
serving or stopped. A TCP connection goes through accepted, dialing, dialed,
piping, ending, closing; a UDP socket has a reader that ends and then removes
its entry. One action is one critical section of the listener's mutex or one
blocking call. A listener object can be reused in the model once nothing
refers to it.

**Federation.** The pinned owner key, the grants directory, the inbounds of the
configuration with their users, the kept replies, and the request between its
change and its reply. Names are sequences of labels, so "starts with the
namespace and a dot" is a proper prefix. `AccountProtocols` are the protocols
whose users are in `settings.accounts` (socks, http). The owner's inputs include
configurations read back from the agent.

**Logs.** The active file, the archives and the handle. `Write` rotates when the
file would grow beyond its size, and the rename, the reopening and the pruning
may each fail. `Read` is the bounded reader, over lines with their lengths: its
loop over the files is a recursive function, the loop over the lines of a file
is what it arrives at (`LinesFrom`, `Last`).

**Download.** The workers of one measurement with their shares of the budget,
the shared counters, the deadline and the verdict.

## Runs

| Run | What it shows |
| --- | --- |
| `updater` | Two tasks, three binaries, crashes between any two file operations: a promotion is always recoverable and a truncated executable only ever comes from a first installation that was cut short, the recorded outcome is the one that runs, only acknowledged tasks are promoted, no write of `state.json` is lost; when crashes stop, a promotion is decided |
| `updater_completed` | *violation*, see Findings |
| `firewall` | Two ports, three revisions, every operation failing, restarts, power loss, outside changes: a running core is restricted by the committed policy, an acknowledged policy survives, ownership stays provable, protected listeners stay where they were protected, foreign tables are untouched |
| `firewall_management` | *violation*, see Findings |
| `control` | Two commands, batches of one result, a memory of one, two faults, every mode: `Control` implements `Delivery`, the in-flight mark always has a message behind it, a report or stream changes the mode only when nothing is owed. Telemetry: the controller's view is the agent's snapshot and no delta is rejected, for all pairs of small observations up to and beyond the depth limit; on these the operators of `Delta` are the recursive ones of the code. Channel: what is accepted is a prefix of what was sealed and no number is used twice. Identity: no rotation locks the agent out, and the previous token lives exactly as long as announced. Logs: what is read is, without a gap, the newest that was written. Speed test: workers keep the budget and a clean measurement is reported as one |
| `delivery` | Two commands, every mode, one fault: when faults stop, every result arrives and the wanted mode is adopted |
| `policies` | Two sessions, two addresses, limits of each kind, identities moving between users: counters are exact, both limits are kept, limited splices and disabled users' sessions are being closed |
| `core` | Three configurations, three generations, two lists of auxiliary listeners, two tunnels with three configurations, every operation failing, crashes: the running core and the running service are the saved ones, generations are never reused, an applied configuration is never lost, a managed configuration is applied or undone as a whole when it says so, no user of the service has an address limit; an interface is the saved one, a rollback reported as clean is one, a completed restore has every enabled tunnel |
| `forward` | Two rule ids, two addresses, two targets, two listener objects, two connections at a limit of one, two peers and two sockets at a limit of one session, failing binds and saves, listeners closed at every step: a failed change disturbs nothing, no port stays held, a closed listener carries nothing, no session escapes its listener, limits hold |
| `federation` | Two shares, three namespaces (one inside another), two owners, two revisions, two ciphertexts per request id: namespaces are disjoint, owner and consumers never change each other's users, a kept reply is final |
| `federation_protocol`, `federation_accounts` | *violation*, see Findings |

**Bounds.** Two of each actor are enough for the races, which are pairwise: two
updates (one replacing the other), two results, two sessions, two grants, two
workers, an old and a new session of one peer, a tunnel before and one after
another in a restore. Third values are there where a rule speaks about them: a
third binary so that a stale `previous` differs from both others, a third
revision so that a journal can be overwritten, a third tunnel configuration so
that two share a key. Two commands and a memory of one are enough for eviction,
by a command or by an `agent.report`. `forward` has two listener objects to stay
short; with a third one (6.46 million states, a quarter of an hour) its
properties hold as well. Limits of the code (4096, 1024, 2048, 64, 2^53, 2^64)
are replaced by one to four, so that they are reached. The budgets of a speed
test are multiples of the number of workers, as all the ones the code allows
are. Symmetry is used for sets whose members are only compared, and never in a
run that checks liveness. Deadlock is checked in every run.

**Fairness.** Two runs check liveness, under `LiveSpec`.

* `updater`: weak fairness of the supervisor (its loop and ticker keep running,
  the service manager restarts it) and of the end of crashes (`Stabilise`).
  Nothing is assumed about the worker: it may never confirm.
* `delivery`: weak fairness of the network loop, the worker, the poll loop, the
  listener, the reconnection and the controller's answers; a bounded number of
  faults stands for a network that works in the end. Strong fairness of `Take`,
  `Execute` and the direct handlers: a batch sent while the worker waits in its
  select is handed to it, and Go's mutexes hand over to a waiter that has waited
  long enough, so nobody is passed over for ever. Strong fairness of an answer
  that carries commands and of the controller's direct requests: the controller,
  which is outside the repository, keeps sending what it has no result for.

## Proofs

TLAPS proves the following for every value of the constants allowed by the
named assumptions of the component modules: distinct model values, positive
bounds, finite sets of sessions, addresses and commands, names and observations
that are not empty, records that fit into a log file, and budgets the workers of
a speed test share evenly. Each invariant was
first checked by TLC; none of the properties is inductive alone. A proof module
has one or several components, which share no state.

* `ControlProofs`, about `Control`. `ControlInv` says what a message in transit
  stands for: what is sent to the controller is kept or has arrived, what it
  acknowledges has arrived (`MessageInv`); while a report is answered the first
  `sentCount` results are still the ones it carried (`ReportInv`); `active`
  counts the commands queued, in the batch and in the worker's hands, and the
  worker has one exactly when it is busy (`WorkerInv`); a mark that results are
  in flight has a message behind it (`InFlightInv`). With it every step is shown
  to be a step of `Delivery` or a stutter, which is `DeliveryImplemented`:
  dropping results after a reply is `Release` because the reply's
  acknowledgements have arrived, and the direct handler's command is lent while
  the response is on its way. `InFlightNeverStuck` follows from the last
  conjunct; `ModeChangesQuiescent` from the others, the worker's last result
  included, because `active` is zero only when its hands are empty. What
  `acknowledgeResults` keeps is a recursion over the results; `KeptResults`
  proves what it computes by a least counterexample, which needs no induction
  rule.
* `DeliveryProofs`: of the abstract delivery, for any commands, a result is
  retained until the controller has it (`ResultsRetained`) and a command runs
  again only after it was forgotten (`RunAtMostOnce`). By the refinement both
  hold of the client (`ClientKeepsPromise` in `ControlProofs`).
* `PeerProofs`, about `Channel`: a packet's number is its place among what was
  sealed (`SealedInv`) and what was taken are the first ones (`TakenInv`). From
  them `ExactStream`, up to the last number and for any change of formats.
  About `Federation`: installed grants are apart (`GrantsApart`, whose proof is
  about prefixes of names), from which `DisjointNamespaces`; kept replies ran
  (`RepliesRan`), from which `RequestsAnsweredOnce`; and, step by step,
  `ConsumersConfined` and `ConsumersPreserved`. The last two assume that there
  are no account protocols, which is what the run `federation_accounts` shows to
  be needed. About `Policies`: types, `CountsExact` and `ForbiddenClosed`
  (limited splices and disabled users' sessions are being closed) are
  invariants; together they are inductive. From them `CountersExact` and
  `ForbiddenAreClosed`, and for every step `AdmissionLimited`: admission is
  judged by counters, and `CountsExact` is what makes counters and sessions the
  same thing. Replacing a list recounts from the active sessions, and that is
  the case that needs cardinality facts about the sessions of a user and of an
  address.
* `ForwardProofs`: the invariant relates the manager's table, the table `apply`
  builds and the listener objects at each step of a change, and gives every
  connection and socket the listener it belongs to and what its step still may
  do. From it `ForwardsServed`, `ClosedCarriesNothing`, `SessionsFound`,
  `WithinLimits`. The limits are cardinalities, so admission needs the facts
  about finite sets; closing many listeners at once is treated one object at a
  time (`StopEach`).
* `CommandProofs`, about `Download`: the bytes read and the ones the workers have
  left make up the budget (`BudgetInv`, a sum over the workers stated as the
  cardinality of a set of pairs). From it `TrueDownload`. About `Logs`:
  `LogsInv` says that the archives and the active file are a chain, in which
  numbers rise within a file and from file to file, that all of it was accepted,
  and that unless a removal failed no accepted record is missing that is newer
  than one of them. `ReadGood` says what the loop of `Read` has after n files:
  falling lines, nothing newer left out, everything unless truncated. Both
  recursive functions, `Size` and the loop, are followed by a least
  counterexample (`LeastNumber`). From the two `LogsSafe`, for any lengths,
  sizes, budget and limit of lines.
* `AccessProofs`, about `Identity`: between the write and the change in memory
  the file is ahead by exactly the change in progress. From it `NeverLockedOut`,
  `GraceIsTrue`. About `Firewall`: the invariant `IInv` adds to the checked
  properties what a handler in progress has already established: `HandlerInv`
  (which policy each step works on), `KernelInv` (what the kernel's table can
  be, given both files), `EnforceInv`, `BoundInv` and `DurableInv` (what of the
  files has reached the disk). `RunningEnforced` speaks about the time between
  commands and needs the states inside them, `AckedSurvives` needs to know which
  renames were synced. One lemma per action, then `RunningIsEnforced`,
  `AcknowledgedSurvives`, `OwnershipIsKept`, `ProtectedStaysBound`,
  `ForeignIsUntouched`.
* `RuntimeProofs`, about `Core`: `ConfigInv` says what file and history hold at
  each step of a change (the replaced configuration is in the history before the
  file changes), `GenerationInv` that every generation ever used is at most the
  saved one. From them `RunningSaved`, `AppliedIsKept`, `GenerationsFresh`.
  About `Managed`: `ImplementsCore`, that is `ManagedSpec => Spec`: every step
  of the composition is a step of `Core` or leaves its variables alone, so the
  theorems about `Core` hold of it. `ServiceInv` says what is checked, saved
  and running at each step of the manager's operation; with it `ServiceSaved`
  and `BridgedNeverLimited`, and with the core's invariant `AppliedTogether`.
  About `Telemetry`: `DeltaExact`, that applying a delta to the observation it
  was made from gives the new observation, whatever both contain within the
  depth limit: no removal lies in another or is missing (`RemovalsRemovable`),
  and what is left after the removals, merged with the changes, is the new
  observation at every path (`PatchExact`). `TelemetryInv` says that a delta in
  transit leads from the controller's observation to the pending snapshot, or
  that the acknowledgement is under way and the controller has it already; with
  `DeltaExact` it is inductive, and `TelemetrySafe` follows.
* `DurableProofs`, about `Updater`: `Writers` (the worker may only write while
  the supervisor will not), `Phases` (what supervisor and state agree on),
  `Executables` (which file holds which worker at each step) and `Outcome`. From
  them `NoUpdateLost`, `AlwaysRecoverable`, `OutcomeIsTrue`,
  `PromotedAcknowledged`.
  About `WireGuard`: `TunnelInv` relates file, state and interface at each step
  of apply, rollback, remove and restore, for the tunnel in progress and for all
  others, which no step touches. From it `TunnelSaved`, `RollbackIsTrue`,
  `RestoreIsComplete`.

Model-checked only: liveness (`UpdateDecided`, `AllDelivered`), which the prover
does not cover; and that the recursive walks of `NestedDelta` arrive at what
`Delta` says (`DeltaAgrees`), which would need induction over nested objects and
is evaluated for the observations of `MCControl`.

## Findings

* `updater_completed` (divergence from `README.md:65`): a confirmation that
  arrives while the deadline's rollback is under way, followed by a crash inside
  the rollback, is reported as `completed` although the previous worker runs.
* `firewall_management`: a failed update leaves rules in the kernel; a second
  failed update overwrites the journal that named their port; the management
  listener can then be moved to it.
* `federation_protocol`: the refusal to change an inbound's protocol under
  consumer users compares list lengths, and misses them when the owner's
  configuration contains them already.
* `federation_accounts`: on socks and http inbounds a consumer's
  synchronisation replaces all accounts, the owner's included. The run
  `federation` therefore has no account protocols.

Behaviour that the properties exclude by name, since no text of the repository
promises otherwise:

* A worker that ends after staging an update and before the acknowledgement
  forgets the result; the state stays staged and refuses later updates.
* The end of the process between the core's and the service's part of a managed
  configuration leaves the files of two different ones (`ManagedTogether` is
  about commands that report).
* `mihomo.users.sync` and `mihomo.start` enable a service that was stopped.
* A tunnel whose interface was brought up and not yet saved when the agent ended
  has a key the saved state does not have; apply and remove refuse it until the
  interface is gone (`uncertain` in `TunnelIsSaved`). An interface is recognised
  by its key alone: one that kept the key and lost other settings passes.
* A direct `agent.report` changes the mode without waiting for results, which
  are then delivered by the next transport, and takes a place in the memory of
  executed commands. A lost direct response is lost with its result (`dropped`).
* An archive of the logs that cannot be removed can leave a gap (`stuck` in
  `ReadTrue`).
* A speed test's response that has sent no byte when the time is over counts as
  a failed request, which an interrupted request does not, and makes the whole
  measurement unclean; `DownloadTrue` is therefore about measurements that had
  the time they needed.

## What is not modelled

Rates and waiting times of policies; bytes and counters of forwarders; the text
of nftables rules, of configurations and of tunnel files; a change by another
program between the firewall's observation and its batch; cryptography (assumed
sound) and the one-use handshakes of the direct listener; export and restoration
of a channel's counters, which the agent does not use; expiry times of grants
(a refusal); power loss for files written without a directory sync; pairing of a
home endpoint, which is one request and one file written before the client runs;
a listener that cannot bind in mode `auto`, which is one nobody sends requests
to; the size limit of an observation (what a patch makes is a snapshot that has
passed it); a log file whose `Close` fails, short writes and a clock that goes back;
starting the private proxy of a speed test, its latency samples and
`source.fetch`; network quality, the REALITY scan (its workers write one result
each, at an index of their own), sites, certificates and geo data, which have no
state of their own.
