---------------------------- MODULE AccessProofs ----------------------------
(***************************************************************************)
(* Proofs about who and what is let in: Identity, for any number of        *)
(* identities, any clock, any life of a previous token and any connection  *)
(* modes, and Firewall, for any ports, listeners and revisions.  Each      *)
(* safety property of Firewall is about the moments between commands; to   *)
(* be inductive it is strengthened with what a command in progress has     *)
(* established at each of its steps.                                       *)
(***************************************************************************)
EXTENDS Firewall, Identity, TLAPS

-----------------------------------------------------------------------------
(* Identity. *)

IdentityTypes ==
    /\ saved \in Settings /\ held \in Settings /\ change \in Settings
    /\ ipc \in {"off", "idle", "adopt"}
    /\ now \in 0..MaxTime /\ offered \in 0..MaxIdentity /\ known \in 0..MaxIdentity /\ until \in Nat

\* The file has an identity the controller knows, with the one before it as
\* the previous, and the expiry the controller was told.
FileTrue ==
    /\ offered = known \/ offered = known + 1
    /\ saved.id \in {known, offered}
    /\ saved.id > 0 => saved.prev = saved.id - 1
    /\ known = offered /\ known > 0 => saved.expires = until

\* Memory is the file, or behind it by one change: of the connection, or the
\* rotation to the identity that is offered.
MemoryTrue ==
    /\ ipc = "idle" => held = saved
    /\ ipc = "adopt" =>
         /\ change = saved
         /\ \/ held.id = saved.id /\ held.prev = saved.prev /\ held.expires = saved.expires
            \/ held.id = known /\ saved.id = offered /\ known # offered

IdentityInv == IdentityTypes /\ FileTrue /\ MemoryTrue

\* The settings a rotation writes.
LEMMA RotatedSettings ==
    ASSUME IdentityInv, NEW expires \in 0..(now + Grace)
    PROVE  LET s == [saved EXCEPT !.id = offered, !.prev = held.id, !.expires = expires]
           IN  s \in Settings /\ s.id = offered /\ s.prev = held.id /\ s.expires = expires
  <1>1. expires \in 0..MaxTime + Grace /\ held.id \in 0..MaxIdentity
    BY IdentityAssumption DEF IdentityInv, IdentityTypes, Settings
  <1> QED
    BY ZenonT(60), <1>1 DEF IdentityInv, IdentityTypes, Settings

\* The settings a change of the connection writes.
LEMMA ConnectedSettings ==
    ASSUME IdentityInv, NEW m \in ConnModes
    PROVE  LET s == [saved EXCEPT !.mode = m]
           IN  s \in Settings /\ s.id = saved.id /\ s.prev = saved.prev /\ s.expires = saved.expires
  BY DEF IdentityInv, IdentityTypes, Settings

\* Numbers of the settings.
LEMMA SettingsNumbers ==
    \A s \in Settings : s.id \in Nat /\ s.prev \in Nat /\ s.expires \in Nat /\ s.id \in 0..MaxIdentity
  BY IdentityAssumption DEF Settings

\* The invariant holds initially.
LEMMA IdentityInitInv == IdentityInit => IdentityInv
  BY IdentityAssumption DEF IdentityInit, IdentityInv, IdentityTypes, FileTrue, MemoryTrue

\* A rotation.
LEMMA RotateInv ==
    ASSUME IdentityInv, NEW expires \in 0..(now + Grace), Rotate(expires)
    PROVE  IdentityInv'
  <1> DEFINE s == [saved EXCEPT !.id = offered, !.prev = held.id, !.expires = expires]
  <1>1. s \in Settings /\ s.id = offered /\ s.prev = held.id /\ s.expires = expires
    BY ZenonT(60), RotatedSettings
  <1>2. ipc = "idle" /\ held = saved /\ offered # held.id /\ UNCHANGED <<held, now, offered, known, until>>
    BY DEF Rotate, IdentityInv, MemoryTrue
  <1>3. held.id = known /\ offered = known + 1
    BY <1>2 DEF IdentityInv, FileTrue
  <1>4. CASE saved' = s /\ change' = s /\ ipc' = "adopt"
    <2> HIDE DEF s
    <2> QED
      BY <1>1, <1>2, <1>3, <1>4, SettingsNumbers DEF IdentityInv, IdentityTypes, FileTrue, MemoryTrue
  <1>5. CASE UNCHANGED <<saved, change, ipc>>
    BY <1>2, <1>5 DEF IdentityInv, IdentityTypes, FileTrue, MemoryTrue
  <1> QED
    BY <1>4, <1>5 DEF Rotate, Persist

\* A change of the connection.
LEMMA SetConnectionInv ==
    ASSUME IdentityInv, NEW m \in ConnModes, SetConnection(m)
    PROVE  IdentityInv'
  <1> DEFINE s == [saved EXCEPT !.mode = m]
  <1>1. s \in Settings /\ s.id = saved.id /\ s.prev = saved.prev /\ s.expires = saved.expires
    BY ConnectedSettings
  <1>2. ipc = "idle" /\ held = saved /\ UNCHANGED <<held, now, offered, known, until>>
    BY DEF SetConnection, IdentityInv, MemoryTrue
  <1>3. CASE saved' = s /\ change' = s /\ ipc' = "adopt"
    <2> HIDE DEF s
    <2> QED
      BY <1>1, <1>2, <1>3 DEF IdentityInv, IdentityTypes, FileTrue, MemoryTrue
  <1>4. CASE UNCHANGED <<saved, change, ipc>>
    BY <1>2, <1>4 DEF IdentityInv, IdentityTypes, FileTrue, MemoryTrue
  <1> QED
    BY <1>3, <1>4 DEF SetConnection, Persist

\* Every step keeps the invariant.
LEMMA IdentityNextInv == IdentityInv /\ [IdentityNext]_identityVars => IdentityInv'
  <1> SUFFICES ASSUME IdentityInv, [IdentityNext]_identityVars PROVE IdentityInv'
    OBVIOUS
  <1>1. CASE \E expires \in 0..(now + Grace) : Rotate(expires)
    BY <1>1, RotateInv
  <1>2. CASE \E m \in ConnModes : SetConnection(m)
    BY <1>2, SetConnectionInv
  <1> USE SettingsNumbers DEF IdentityInv, IdentityTypes, FileTrue, MemoryTrue
  <1>3. CASE RotateRepeated
    BY <1>3 DEF RotateRepeated, Succeed
  <1>4. CASE AdoptChange
    BY <1>4 DEF AdoptChange, Succeed
  <1>5. CASE LoadIdentity \/ AgentStops
    BY <1>5 DEF LoadIdentity, AgentStops
  <1>6. CASE Tick
    BY <1>6, IdentityAssumption DEF Tick
  <1>7. CASE Offer
    BY <1>7, IdentityAssumption DEF Offer
  <1>8. CASE UNCHANGED identityVars
    BY <1>8 DEF identityVars
  <1> QED
    BY <1>1, <1>2, <1>3, <1>4, <1>5, <1>6, <1>7, <1>8, Zenon DEF IdentityNext

-----------------------------------------------------------------------------
(* The theorems. *)

\* The inductive invariant holds in every reachable state.
THEOREM IdentityInvariant == IdentitySpec => []IdentityInv
  BY IdentityInitInv, IdentityNextInv, PTL DEF IdentitySpec

\* The controller knows the tokens of the agent, wherever rotations are cut
\* off and whichever results are lost.
THEOREM NeverLockedOut == IdentitySpec => []NoLockout
  <1>1. IdentityInv => NoLockout
    BY DEF IdentityInv, IdentityTypes, FileTrue, MemoryTrue, NoLockout
  <1> QED
    BY <1>1, IdentityInvariant, PTL

\* The previous token is accepted exactly as long as was announced.
THEOREM GraceIsTrue == IdentitySpec => []GraceTrue
  <1>1. IdentityInv => GraceTrue
    <2> SUFFICES ASSUME IdentityInv, ipc \in {"idle", "adopt"}, known = offered, known > 0
                 PROVE  ValidAgentToken(known - 1) <=> now <= until
      BY DEF GraceTrue
    <2>1. held.id = known /\ held.prev = known - 1 /\ held.expires = until
      BY DEF IdentityInv, FileTrue, MemoryTrue
    <2>2. known \in Nat /\ known - 1 # known
      BY DEF IdentityInv, IdentityTypes
    <2> QED
      BY <2>1, <2>2 DEF ValidAgentToken
  <1> QED
    BY <1>1, IdentityInvariant, PTL

-----------------------------------------------------------------------------
(* Firewall. *)

\* Nothing is unfinished and the table is the committed policy's.
Settled == pending = None /\ (~tampered => kernel = Protected(committed))

\* A policy that does not lose the last acknowledged one.
Good(s) ==
    acked # None => s # None /\ s.rev >= acked.rev /\ (s.rev = acked.rev => s = acked)

Publishing == pc \in {"commit_sync", "unjournal", "unjournal_sync"}

\* What each kind of command has done by each of its steps.
HandlerInv ==
    /\ op = "rollback" => pc \notin {"journal", "journal_sync"} /\ goal = old
    /\ op = "ensure" => pc \notin {"journal", "journal_sync"}
    /\ op = "resave" => pc = "commit" \/ Publishing
    /\ op \in {"apply", "ensure", "resave"} => goal = next
    /\ op \in {"apply", "rollback"} /\ pc \in {"journal_sync", "batch", "verify", "commit", "commit_sync"}
         => pending = next
    /\ op \in {"ensure", "resave"} /\ pc \in {"batch", "verify", "commit"} => goal = State
    /\ op \in {"apply", "rollback"} /\ old = None /\ ~ Publishing => committed = None
    /\ pc \in {"commit", "commit_sync"} => goal # None
    /\ Publishing => committed = goal
    /\ pc = "unjournal_sync" => pending = None

\* The table is foreign only between commands, is the agent's only while a
\* policy is saved, and is the goal's from its verification on.
KernelInv ==
    /\ kernel = Foreign => tampered /\ op = "none"
    /\ OwnershipKept
    /\ pc = "commit" \/ Publishing =>
         /\ kernel \in {{}, Protected(goal)}
         /\ ~tampered => kernel = Protected(goal)

\* Listeners run, and may be started, only while nothing is unfinished.
EnforceInv ==
    /\ pc = "idle" /\ (running \/ ready) => Settled
    /\ pc = "listeners" => Settled
    /\ op = "ensure" => ~ready
    /\ op = "ensure" /\ pc \in {"batch", "verify"} /\ running => Settled

\* The listeners of a running core are bound as every policy involved says.
BoundInv ==
    running => /\ ValidConfig(State, config)
               /\ op # "none" => ValidConfig(next, config) /\ ValidConfig(old, config)

\* Nothing a power loss can leave, and no policy a command may still publish,
\* loses the acknowledged one.
DurableInv ==
    /\ \A c \in mayC, p \in mayP : Good(Effective(c, p))
    /\ op # "none" => Good(next) /\ Good(old)
    /\ pc \in {"unjournal", "unjournal_sync"} /\ goal # None => mayC = {committed}
    /\ pc = "unjournal" /\ goal # None => mayP = {pending}

IInv == TypeOK /\ HandlerInv /\ KernelInv /\ EnforceInv /\ BoundInv /\ DurableInv

\* A policy restricts ports of the program, so its table is never foreign.
LEMMA ProtectedType ==
    ASSUME NEW q
    PROVE  Protected(q) \in SUBSET Ports /\ Protected(q) # Foreign
  BY FirewallAssumption DEF Protected

\* The invariant holds initially.
LEMMA InitInv == Init => IInv
  <1> USE FirewallAssumption, NoneAssumption DEF Init
  <1>1. Init => TypeOK
    BY ZenonT(60) DEF TypeOK, PolicyOrNone, Steps, Ops
  <1>2. Init => HandlerInv /\ KernelInv /\ EnforceInv
    BY ProtectedType DEF HandlerInv, KernelInv, EnforceInv, Publishing, OwnershipKept, Settled
  <1>3. Init => BoundInv /\ DurableInv
    BY DEF BoundInv, DurableInv, Good
  <1> QED
    BY <1>1, <1>2, <1>3 DEF IInv

-----------------------------------------------------------------------------
(* One lemma per action, one step per part of the invariant. *)

\* Writing the journal.
LEMMA JournalInv ==
    ASSUME IInv, Journal
    PROVE  IInv'
  <1> USE FirewallAssumption, NoneAssumption DEF IInv, Journal, FailClosed, Return, core, files, management, history, handler
  <1>1. TypeOK'
    BY ZenonT(60) DEF TypeOK, PolicyOrNone, Steps, Ops
  <1>2. HandlerInv'
    BY DEF TypeOK, HandlerInv, Publishing, State, Effective
  <1>3. KernelInv'
    BY ProtectedType DEF TypeOK, HandlerInv, KernelInv, OwnershipKept, Publishing, State,
                         Effective, Protected
  <1>4. EnforceInv'
    BY DEF TypeOK, HandlerInv, KernelInv, OwnershipKept, EnforceInv, Settled, Publishing, State,
           Effective, Protected
  <1>5. BoundInv'
    BY ZenonT(60) DEF TypeOK, HandlerInv, BoundInv, ValidConfig, Targets, Publishing, State, Effective
  <1>6. DurableInv'
    BY DEF TypeOK, HandlerInv, DurableInv, Good, Publishing, State, Effective
  <1> QED
    BY <1>1, <1>2, <1>3, <1>4, <1>5, <1>6

\* Making it durable.
LEMMA JournalSyncInv ==
    ASSUME IInv, JournalSync
    PROVE  IInv'
  <1> USE FirewallAssumption, NoneAssumption DEF IInv, JournalSync, FailClosed, Return, Synced, core, files, management, history, handler
  <1>1. TypeOK'
    BY ZenonT(60) DEF TypeOK, PolicyOrNone, Steps, Ops
  <1>2. HandlerInv'
    BY DEF TypeOK, HandlerInv, Publishing, State, Effective
  <1>3. KernelInv'
    BY ProtectedType DEF TypeOK, HandlerInv, KernelInv, OwnershipKept, Publishing, State,
                         Effective, Protected
  <1>4. EnforceInv'
    BY DEF TypeOK, HandlerInv, KernelInv, OwnershipKept, EnforceInv, Settled, Publishing, State,
           Effective, Protected
  <1>5. BoundInv'
    BY ZenonT(60) DEF TypeOK, HandlerInv, BoundInv, ValidConfig, Targets, Publishing, State, Effective
  <1>6. DurableInv'
    BY DEF TypeOK, HandlerInv, DurableInv, Good, Publishing, State, Effective
  <1> QED
    BY <1>1, <1>2, <1>3, <1>4, <1>5, <1>6

\* The kernel update, or its failure.
LEMMA BatchInv ==
    ASSUME IInv, Batch
    PROVE  IInv'
  <1> USE FirewallAssumption, NoneAssumption DEF IInv, Batch, KernelFailure, FailClosed, Refuse, Return, core, files, management, history, handler
  <1>1. TypeOK'
    BY ProtectedType, ZenonT(60) DEF TypeOK, PolicyOrNone, Steps, Ops
  <1>2. HandlerInv'
    BY DEF TypeOK, HandlerInv, Publishing, State, Effective
  <1>3. KernelInv'
    <2>1. kernel' \in {kernel, Protected(goal)}
      OBVIOUS
    <2>2. kernel' # Foreign /\ op # "none"
      BY <2>1, ProtectedType DEF TypeOK, KernelInv
    <2>3. Protected(goal) # {} => State' # None
      BY DEF TypeOK, Ops, HandlerInv, Publishing, State, Effective, Protected
    <2>4. State' = State
      BY DEF State, Effective
    <2>5. OwnershipKept'
      BY <2>1, <2>3, <2>4 DEF KernelInv, OwnershipKept
    <2>6. pc' \notin {"commit", "commit_sync", "unjournal", "unjournal_sync"}
      BY DEF TypeOK
    <2> QED
      BY <2>2, <2>5, <2>6 DEF KernelInv, Publishing
  <1>4. EnforceInv'
    BY DEF TypeOK, HandlerInv, KernelInv, OwnershipKept, EnforceInv, Settled, Publishing, State,
           Effective, Protected
  <1>5. BoundInv'
    BY ZenonT(60) DEF TypeOK, HandlerInv, BoundInv, ValidConfig, Targets, Publishing, State, Effective
  <1>6. DurableInv'
    BY DEF TypeOK, HandlerInv, DurableInv, Good, Publishing, State, Effective
  <1> QED
    BY <1>1, <1>2, <1>3, <1>4, <1>5, <1>6

\* The comparison after it.
LEMMA VerifyInv ==
    ASSUME IInv, Verify
    PROVE  IInv'
  <1> USE FirewallAssumption, NoneAssumption DEF IInv, Verify, KernelFailure, FailClosed, Refuse, Return, Matches, core, files, management, history, handler
  <1>1. TypeOK'
    BY ZenonT(60) DEF TypeOK, PolicyOrNone, Steps, Ops
  <1>2. HandlerInv'
    <2>1. CASE pc' = "unjournal"
      BY <2>1 DEF TypeOK, HandlerInv, Publishing
    <2>2. CASE pc' = "commit"
      BY <2>2 DEF TypeOK, Ops, HandlerInv, Publishing, State, Effective
    <2>3. CASE pc' \in {"batch", "idle"}
      BY <2>3 DEF TypeOK, HandlerInv, Publishing, State, Effective
    <2> QED
      BY <2>1, <2>2, <2>3
  <1>3. KernelInv'
    BY ProtectedType DEF TypeOK, HandlerInv, KernelInv, OwnershipKept, Publishing, State,
                         Effective, Protected
  <1>4. EnforceInv'
    BY DEF TypeOK, HandlerInv, KernelInv, OwnershipKept, EnforceInv, Settled, Publishing, State,
           Effective, Protected
  <1>5. BoundInv'
    BY ZenonT(60) DEF TypeOK, HandlerInv, BoundInv, ValidConfig, Targets, Publishing, State, Effective
  <1>6. DurableInv'
    BY DEF TypeOK, HandlerInv, DurableInv, Good, Publishing, State, Effective
  <1> QED
    BY <1>1, <1>2, <1>3, <1>4, <1>5, <1>6

\* Publishing firewall.json.
LEMMA CommitInv ==
    ASSUME IInv, Commit
    PROVE  IInv'
  <1> USE FirewallAssumption, NoneAssumption DEF IInv, Commit, KernelFailure, FailClosed, Refuse, Return, core, files, management, history, handler
  <1>1. TypeOK'
    BY ZenonT(60) DEF TypeOK, PolicyOrNone, Steps, Ops
  <1>2. HandlerInv'
    BY DEF TypeOK, HandlerInv, Publishing, State, Effective
  <1>3. KernelInv'
    BY ProtectedType DEF TypeOK, HandlerInv, KernelInv, OwnershipKept, Publishing, State,
                         Effective, Protected
  <1>4. EnforceInv'
    BY DEF TypeOK, HandlerInv, KernelInv, OwnershipKept, EnforceInv, Settled, Publishing, State,
           Effective, Protected
  <1>5. BoundInv'
    <2>1. ASSUME running' PROVE running /\ config' = config
      BY ZenonT(60), <2>1 DEF TypeOK
    <2>2. State' \in {State, next, old}
      BY DEF TypeOK, Ops, HandlerInv, State, Effective
    <2>3. op # "none" /\ next' \in {next, None} /\ old' \in {old, None}
      BY DEF TypeOK
    <2>4. \A q : ValidConfig(q, config)' <=> ValidConfig(q, config')
      BY DEF ValidConfig, Targets
    <2> QED
      BY <2>1, <2>2, <2>3, <2>4 DEF BoundInv
  <1>6. DurableInv'
    <2>1. Good(goal) /\ \A q : Good(q)' <=> Good(q)
      BY DEF TypeOK, Ops, HandlerInv, DurableInv, Good
    <2>2. mayC' \subseteq mayC \cup {goal} /\ mayP' = mayP /\ op # "none"
      BY DEF TypeOK
    <2>3. \A c \in mayC', p \in mayP' : Good(Effective(c, p))
      BY <2>1, <2>2 DEF TypeOK, DurableInv, Effective
    <2>4. op' # "none" => Good(next') /\ Good(old')
      BY <2>2 DEF DurableInv
    <2>5. pc' \notin {"unjournal", "unjournal_sync"}
      OBVIOUS
    <2> QED
      BY <2>1, <2>3, <2>4, <2>5 DEF DurableInv, Effective
  <1> QED
    BY <1>1, <1>2, <1>3, <1>4, <1>5, <1>6

\* Making it durable.
LEMMA CommitSyncInv ==
    ASSUME IInv, CommitSync
    PROVE  IInv'
  <1> USE FirewallAssumption, NoneAssumption DEF IInv, CommitSync, FailClosed, Return, Synced, core, files, management, history, handler
  <1>1. TypeOK'
    BY ZenonT(60) DEF TypeOK, PolicyOrNone, Steps, Ops
  <1>2. HandlerInv'
    BY DEF TypeOK, HandlerInv, Publishing, State, Effective
  <1>3. KernelInv'
    BY ProtectedType DEF TypeOK, HandlerInv, KernelInv, OwnershipKept, Publishing, State,
                         Effective, Protected
  <1>4. EnforceInv'
    BY DEF TypeOK, HandlerInv, KernelInv, OwnershipKept, EnforceInv, Settled, Publishing, State,
           Effective, Protected
  <1>5. BoundInv'
    BY ZenonT(60) DEF TypeOK, HandlerInv, BoundInv, ValidConfig, Targets, Publishing, State, Effective
  <1>6. DurableInv'
    BY DEF TypeOK, HandlerInv, DurableInv, Good, Publishing, State, Effective
  <1> QED
    BY <1>1, <1>2, <1>3, <1>4, <1>5, <1>6

\* Removing the journal.
LEMMA UnjournalInv ==
    ASSUME IInv, Unjournal
    PROVE  IInv'
  <1> USE FirewallAssumption, NoneAssumption DEF IInv, Unjournal, FailClosed, Return, Finish, core, files, management, history, handler
  <1>1. TypeOK'
    BY ZenonT(60) DEF TypeOK, PolicyOrNone, Steps, Ops
  <1>2. HandlerInv'
    BY ZenonT(60) DEF TypeOK, HandlerInv, Publishing, State, Effective
  <1>3. KernelInv'
    BY ZenonT(60), ProtectedType DEF TypeOK, HandlerInv, KernelInv, OwnershipKept, Publishing, State,
                         Effective, Protected
  <1>4. EnforceInv'
    <2>1. CASE pending = None
      <3>1. Settled
        BY <2>1 DEF HandlerInv, KernelInv, Publishing, Settled
      <3>2. Settled'
        BY <2>1, <3>1 DEF Settled
      <3>3. op' = "none"
        BY <2>1
      <3> QED
        BY <3>2, <3>3 DEF EnforceInv
    <2>2. CASE pending # None /\ FailClosed
      BY <2>2 DEF EnforceInv
    <2>3. CASE pending # None /\ pc' = "unjournal_sync"
      BY <2>3 DEF EnforceInv
    <2> QED
      BY ZenonT(60), <2>1, <2>2, <2>3
  <1>5. BoundInv'
    <2>1. ASSUME running' PROVE running /\ config' = config
      BY ZenonT(60), <2>1 DEF TypeOK
    <2>2. State' \in {State, next, old}
      BY ZenonT(60) DEF TypeOK, Ops, HandlerInv, Publishing, State, Effective
    <2>3. op # "none" /\ (op' # "none" => next' = next /\ old' = old)
      BY ZenonT(60) DEF TypeOK
    <2>4. \A q : ValidConfig(q, config)' <=> ValidConfig(q, config')
      BY DEF ValidConfig, Targets
    <2> QED
      BY <2>1, <2>2, <2>3, <2>4 DEF BoundInv
  <1>6. DurableInv'
    <2>1. CASE pending = None
      <3>1. acked' = acked \/ (acked' = next /\ mayC = {next} /\ mayP = {None} /\ next # None)
        BY <2>1 DEF TypeOK, HandlerInv, DurableInv, Publishing
      <3>2. \A c \in mayC, p \in mayP : Good(Effective(c, p))'
        BY <2>1, <3>1 DEF TypeOK, PolicyOrNone, Policies, DurableInv, Good, Effective
      <3> QED
        BY <2>1, <3>2 DEF DurableInv
    <2>2. CASE pending # None /\ op' = "none"
      BY ZenonT(60), <2>2 DEF TypeOK, DurableInv, Good, Effective
    <2>3. CASE pending # None /\ op' # "none"
      <3>1. Good(goal) /\ \A q : Good(q)' <=> Good(q)
        BY ZenonT(60), <2>3 DEF TypeOK, Ops, HandlerInv, DurableInv, Good
      <3>2. acked # None => mayC = {goal}
        BY <3>1 DEF HandlerInv, Publishing, DurableInv, Good
      <3>3. \A c \in mayC', p \in mayP' : Good(Effective(c, p))
        BY ZenonT(60), <2>3, <3>1, <3>2 DEF DurableInv, Effective, Good
      <3> QED
        BY ZenonT(60), <2>3, <3>1, <3>3 DEF TypeOK, DurableInv, Effective
    <2> QED
      BY <2>1, <2>2, <2>3
  <1> QED
    BY <1>1, <1>2, <1>3, <1>4, <1>5, <1>6

\* Making the removal durable.
LEMMA UnjournalSyncInv ==
    ASSUME IInv, UnjournalSync
    PROVE  IInv'
  <1> USE FirewallAssumption, NoneAssumption DEF IInv, UnjournalSync, FailClosed, Return, Finish, Synced, core, files, management, history, handler
  <1>1. TypeOK'
    BY ZenonT(60) DEF TypeOK, PolicyOrNone, Steps, Ops
  <1>2. HandlerInv'
    BY ZenonT(60) DEF TypeOK, HandlerInv, Publishing, State, Effective
  <1>3. KernelInv'
    BY ZenonT(60), ProtectedType DEF TypeOK, HandlerInv, KernelInv, OwnershipKept, Publishing, State,
                         Effective, Protected
  <1>4. EnforceInv'
    <2>1. CASE Synced /\ Finish /\ UNCHANGED pending
      <3>1. Settled
        BY DEF HandlerInv, KernelInv, Publishing, Settled
      <3>2. Settled' /\ op' = "none"
        BY <2>1, <3>1 DEF Settled
      <3> QED
        BY <3>2 DEF EnforceInv
    <2>2. CASE FailClosed
      BY <2>2 DEF EnforceInv
    <2> QED
      BY ZenonT(60), <2>1, <2>2
  <1>5. BoundInv'
    BY ZenonT(60) DEF TypeOK, HandlerInv, BoundInv, ValidConfig, Targets, Publishing, State, Effective
  <1>6. DurableInv'
    <2>1. CASE Synced /\ Finish /\ UNCHANGED pending
      <3>1. mayC' = {committed} /\ mayP' = {None} /\ op' = "none" /\ committed = goal
        BY <2>1 DEF HandlerInv, Publishing
      <3>2. Good(committed)'
        BY <2>1, <3>1 DEF TypeOK, Ops, PolicyOrNone, Policies, HandlerInv, DurableInv, Good
      <3> QED
        BY <2>1, <3>1, <3>2 DEF DurableInv, Effective
    <2>2. CASE FailClosed /\ UNCHANGED acked
      <3>1. Good(next) /\ acked' = acked /\ op' = "none"
        BY <2>2 DEF TypeOK, DurableInv
      <3>2. mayC' \subseteq mayC /\ mayP' \subseteq mayP \cup {next} /\ next # None
        BY ZenonT(60) DEF TypeOK, HandlerInv
      <3>3. \A c \in mayC', p \in mayP' : Good(Effective(c, p))
        BY <3>1, <3>2 DEF DurableInv, Effective
      <3>4. \A q : Good(q)' <=> Good(q)
        BY <3>1 DEF Good
      <3> QED
        BY <2>2, <3>1, <3>3, <3>4 DEF DurableInv, Effective
    <2> QED
      BY ZenonT(60), <2>1, <2>2
  <1> QED
    BY <1>1, <1>2, <1>3, <1>4, <1>5, <1>6

\* ensureFirewall, up to the kernel update.
LEMMA EnsureInv ==
    ASSUME IInv, Ensure
    PROVE  IInv'
  <1> USE FirewallAssumption, NoneAssumption DEF IInv, Ensure, Matches, Owned, core, files, management, history, handler
  <1>1. TypeOK'
    BY ZenonT(60) DEF TypeOK, PolicyOrNone, Steps, Ops, State, Effective
  <1>2. HandlerInv'
    BY DEF TypeOK, HandlerInv, Publishing, State, Effective
  <1>3. KernelInv'
    BY ProtectedType DEF TypeOK, HandlerInv, KernelInv, OwnershipKept, Publishing, State,
                         Effective, Protected
  <1>4. EnforceInv'
    <2>1. /\ pc = "idle" /\ running' = running /\ (Settled' <=> Settled)
          /\ \/ (ready \/ State = None) /\ ready' = TRUE /\ pc' = "listeners" /\ op' = op
             \/ ~ready /\ op' = "ensure" /\ ready' = ready /\ pc' \in {"verify", "batch"}
      BY Zenon DEF Settled
    <2>2. State = None => Settled
      BY DEF KernelInv, OwnershipKept, State, Effective, Settled, Protected
    <2>3. op # "ensure"
      BY <2>1, Zenon DEF TypeOK
    <2>4. ready \/ running => Settled
      BY <2>1, Zenon DEF EnforceInv
    <2> HIDE DEF IInv, Ensure
    <2> QED
      BY <2>1, <2>2, <2>3, <2>4 DEF EnforceInv
  <1>5. BoundInv'
    BY ZenonT(60) DEF TypeOK, HandlerInv, BoundInv, ValidConfig, Targets, Publishing, State, Effective
  <1>6. DurableInv'
    BY DEF TypeOK, HandlerInv, DurableInv, Good, Publishing, State, Effective
  <1> QED
    BY <1>1, <1>2, <1>3, <1>4, <1>5, <1>6

\* Starting listeners or replacing their configuration.
LEMMA ListenersInv ==
    ASSUME IInv, Listeners
    PROVE  IInv'
  <1> USE FirewallAssumption, NoneAssumption DEF IInv, Listeners, Return, core, files, management, history, handler
  <1>1. TypeOK'
    BY ZenonT(60) DEF TypeOK, PolicyOrNone, Steps, Ops
  <1>2. HandlerInv'
    BY DEF TypeOK, HandlerInv, Publishing, State, Effective
  <1>3. KernelInv'
    BY ProtectedType DEF TypeOK, HandlerInv, KernelInv, OwnershipKept, Publishing, State,
                         Effective, Protected
  <1>4. EnforceInv'
    BY DEF TypeOK, HandlerInv, KernelInv, OwnershipKept, EnforceInv, Settled, Publishing, State,
           Effective, Protected
  <1>5. BoundInv'
    BY ZenonT(60) DEF TypeOK, HandlerInv, BoundInv, ValidConfig, Targets, Publishing, State, Effective
  <1>6. DurableInv'
    BY DEF TypeOK, HandlerInv, DurableInv, Good, Publishing, State, Effective
  <1> QED
    BY <1>1, <1>2, <1>3, <1>4, <1>5, <1>6

\* Stopping the core.
LEMMA StopCoreInv ==
    ASSUME IInv, StopCore
    PROVE  IInv'
  <1> USE FirewallAssumption, NoneAssumption DEF IInv, StopCore, core, files, management, history, handler
  <1>1. TypeOK'
    BY ZenonT(60) DEF TypeOK, PolicyOrNone, Steps, Ops
  <1>2. HandlerInv'
    BY DEF TypeOK, HandlerInv, Publishing, State, Effective
  <1>3. KernelInv'
    BY ProtectedType DEF TypeOK, HandlerInv, KernelInv, OwnershipKept, Publishing, State,
                         Effective, Protected
  <1>4. EnforceInv'
    BY DEF TypeOK, HandlerInv, KernelInv, OwnershipKept, EnforceInv, Settled, Publishing, State,
           Effective, Protected
  <1>5. BoundInv'
    BY ZenonT(60) DEF TypeOK, HandlerInv, BoundInv, ValidConfig, Targets, Publishing, State, Effective
  <1>6. DurableInv'
    BY DEF TypeOK, HandlerInv, DurableInv, Good, Publishing, State, Effective
  <1> QED
    BY <1>1, <1>2, <1>3, <1>4, <1>5, <1>6

\* The status command.
LEMMA FirewallStatusInv ==
    ASSUME IInv, FirewallStatus
    PROVE  IInv'
  <1> USE FirewallAssumption, NoneAssumption DEF IInv, FirewallStatus, core, files, management, history, handler
  <1>1. TypeOK'
    BY ZenonT(60) DEF TypeOK, PolicyOrNone, Steps, Ops
  <1>2. HandlerInv'
    BY DEF TypeOK, HandlerInv, Publishing, State, Effective
  <1>3. KernelInv'
    BY ProtectedType DEF TypeOK, HandlerInv, KernelInv, OwnershipKept, Publishing, State,
                         Effective, Protected
  <1>4. EnforceInv'
    BY DEF TypeOK, HandlerInv, KernelInv, OwnershipKept, EnforceInv, Settled, Publishing, State,
           Effective, Protected
  <1>5. BoundInv'
    BY ZenonT(60) DEF TypeOK, HandlerInv, BoundInv, ValidConfig, Targets, Publishing, State, Effective
  <1>6. DurableInv'
    BY DEF TypeOK, HandlerInv, DurableInv, Good, Publishing, State, Effective
  <1> QED
    BY <1>1, <1>2, <1>3, <1>4, <1>5, <1>6

\* Another program.
LEMMA TamperInv ==
    ASSUME IInv, Tamper
    PROVE  IInv'
  <1> USE FirewallAssumption, NoneAssumption DEF IInv, Tamper, core, files, management, history, handler
  <1>1. TypeOK'
    BY DEF TypeOK, PolicyOrNone, Steps, Ops
  <1>2. HandlerInv'
    BY DEF TypeOK, HandlerInv, Publishing, State, Effective
  <1>3. KernelInv'
    BY ProtectedType DEF TypeOK, HandlerInv, KernelInv, OwnershipKept, Publishing, State,
                         Effective, Protected
  <1>4. EnforceInv'
    BY DEF TypeOK, HandlerInv, KernelInv, OwnershipKept, EnforceInv, Settled, Publishing, State,
           Effective, Protected
  <1>5. BoundInv'
    BY ZenonT(60) DEF TypeOK, HandlerInv, BoundInv, ValidConfig, Targets, Publishing, State, Effective
  <1>6. DurableInv'
    BY DEF TypeOK, HandlerInv, DurableInv, Good, Publishing, State, Effective
  <1> QED
    BY <1>1, <1>2, <1>3, <1>4, <1>5, <1>6

\* A new process.
LEMMA RestartInv ==
    ASSUME IInv, Restart
    PROVE  IInv'
  <1> USE FirewallAssumption, NoneAssumption DEF IInv, Restart, Return, core, files, management, history, handler
  <1>1. TypeOK'
    BY ZenonT(60) DEF TypeOK, PolicyOrNone, Steps, Ops
  <1>2. HandlerInv'
    BY DEF TypeOK, HandlerInv, Publishing, State, Effective
  <1>3. KernelInv'
    BY ProtectedType DEF TypeOK, HandlerInv, KernelInv, OwnershipKept, Publishing, State,
                         Effective, Protected
  <1>4. EnforceInv'
    BY DEF TypeOK, HandlerInv, KernelInv, OwnershipKept, EnforceInv, Settled, Publishing, State,
           Effective, Protected
  <1>5. BoundInv'
    BY ZenonT(60) DEF TypeOK, HandlerInv, BoundInv, ValidConfig, Targets, Publishing, State, Effective
  <1>6. DurableInv'
    BY DEF TypeOK, HandlerInv, DurableInv, Good, Publishing, State, Effective
  <1> QED
    BY <1>1, <1>2, <1>3, <1>4, <1>5, <1>6

\* A power loss: what it leaves was accounted for.
LEMMA PowerLossInv ==
    ASSUME IInv, PowerLoss
    PROVE  IInv'
  <1> USE FirewallAssumption, NoneAssumption DEF IInv, PowerLoss, Return, core, files, management, history, handler
  <1>1. TypeOK'
    BY ZenonT(60) DEF TypeOK, PolicyOrNone, Steps, Ops
  <1>2. HandlerInv'
    BY DEF TypeOK, HandlerInv, Publishing, State, Effective
  <1>3. KernelInv'
    BY ProtectedType DEF TypeOK, HandlerInv, KernelInv, OwnershipKept, Publishing, State,
                         Effective, Protected
  <1>4. EnforceInv'
    BY DEF TypeOK, HandlerInv, KernelInv, OwnershipKept, EnforceInv, Settled, Publishing, State,
           Effective, Protected
  <1>5. BoundInv'
    BY ZenonT(60) DEF TypeOK, HandlerInv, BoundInv, ValidConfig, Targets, Publishing, State, Effective
  <1>6. DurableInv'
    BY DEF TypeOK, HandlerInv, DurableInv, Good, Publishing, State, Effective
  <1> QED
    BY <1>1, <1>2, <1>3, <1>4, <1>5, <1>6

\* A management port is taken only outside every saved policy.
LEMMA UpdateConnectionInv ==
    ASSUME IInv, NEW p \in Ports, UpdateConnection(p)
    PROVE  IInv'
  <1> USE DEF IInv, UpdateConnection, core, files, management, history, handler
  <1>1. TypeOK'
    BY DEF TypeOK
  <1>2. HandlerInv' /\ KernelInv' /\ EnforceInv'
    BY DEF HandlerInv, KernelInv, OwnershipKept, EnforceInv, Settled, Publishing, State, Effective
  <1>3. BoundInv'
    <2>1. State' = State /\ config' = config /\ running' = running /\ op' = "none"
      BY DEF TypeOK, State, Effective
    <2>2. p \notin Protected(State)
      BY DEF State, Effective
    <2>3. \A q \in Ports : q \in Targets(config) /\ q # p => q \in Targets(config)'
      BY DEF Targets
    <2>4. Protected(State) \subseteq Ports
      BY DEF Protected
    <2>5. ValidConfig(State, config) => ValidConfig(State, config)'
      BY <2>1, <2>2, <2>3, <2>4 DEF ValidConfig
    <2> QED
      BY <2>1, <2>5 DEF BoundInv
  <1>4. DurableInv'
    BY DEF DurableInv, Good, Effective
  <1> QED
    BY <1>1, <1>2, <1>3, <1>4

\* What applyFirewall saves: a policy of the ports asked for that a running
\* core already serves and that is no other policy of an acknowledged revision.
LEMMA RequestedPolicy ==
    ASSUME IInv, NEW rev \in 1..MaxRev, NEW S \in SUBSET Ports, Acceptable(rev, S)
    PROVE  LET q == Requested(rev, S) IN
           /\ q \in Policies /\ q # None
           /\ ValidConfig(q, config)
           /\ Good(State) => Good(q)
  <1> DEFINE q == Requested(rev, S)
  <1>1. q \in Policies /\ q # None
    BY NoneAssumption DEF Requested, Policies, Configs, IInv, TypeOK
  <1>2. \A p \in Ports : q.bind[p] = IF p \in S THEN config[p] ELSE NoBind
    BY DEF Requested
  <1>3. S \subseteq Targets(config) /\ Protected(q) = S
    BY <1>1, <1>2 DEF Acceptable, Protected, Targets
  <1>4. ValidConfig(q, config)
    BY ZenonT(60), <1>2, <1>3 DEF ValidConfig
  <1>5. ASSUME State # None, rev = State.rev PROVE q = State
    <2>1. State \in Policies
      BY <1>5 DEF IInv, TypeOK, PolicyOrNone, State, Effective
    <2>2. S = Protected(State)
      BY <1>5 DEF Acceptable
    <2>3. \A p \in Ports : State.bind[p] = q.bind[p]
      BY ZenonT(60), <1>2, <1>5, <2>2 DEF Acceptable, Protected
    <2>4. State.bind = q.bind
      BY <1>1, <2>1, <2>3 DEF Policies, Configs
    <2>5. q.rev = State.rev
      BY <1>5 DEF Requested
    <2> QED
      BY <1>1, <2>1, <2>4, <2>5 DEF Policies
  <1>6. ASSUME Good(State) PROVE Good(q)
    <2> SUFFICES ASSUME acked # None PROVE Good(q)
      BY DEF Good
    <2>1. State # None /\ State.rev >= acked.rev /\ (State.rev = acked.rev => State = acked)
      BY <1>6 DEF Good
    <2>2. rev >= State.rev /\ q.rev = rev
      BY <2>1 DEF Acceptable, Requested
    <2>3. rev \in Nat /\ State.rev \in Nat /\ acked.rev \in Nat
      BY <2>1 DEF IInv, TypeOK, PolicyOrNone, Policies, State, Effective
    <2> QED
      BY <1>1, <1>5, <2>1, <2>2, <2>3 DEF Good
  <1> QED
    BY <1>1, <1>4, <1>6

\* applyFirewall, up to the first write.
LEMMA ApplyInv ==
    ASSUME IInv, NEW rev \in 1..MaxRev, NEW S \in SUBSET Ports, Apply(rev, S)
    PROVE  IInv'
  <1> DEFINE q == Requested(rev, S)
  <1> USE DEF IInv, core, files, management, history, handler
  <1>1. Good(State)
    BY DEF TypeOK, DurableInv, State
  <1>2. q \in Policies /\ q # None /\ ValidConfig(q, config) /\ Good(q)
    BY <1>1, RequestedPolicy DEF Apply
  <1>3. State \in PolicyOrNone /\ op = "none" /\ pc = "idle"
    BY DEF TypeOK, Apply, State, Effective
  <1>4. /\ UNCHANGED <<committed, pending, mayC, mayP, kernel, ready, running, config, mgmt, reserved>>
        /\ UNCHANGED <<acked, tampered>> /\ State' = State /\ old' = State
        /\ Owned(State)
    BY DEF Apply, State, Effective
  <1>5. CASE op' = "resave"
    <2>1. /\ State # None /\ Matches(State) /\ pc' = "commit"
          /\ next' = State /\ goal' = State
      BY <1>5 DEF Apply
    <2>2. TypeOK'
      BY <1>3, <1>4, <1>5, <2>1 DEF TypeOK, Steps, Ops
    <2>3. HandlerInv' /\ EnforceInv'
      BY <1>4, <1>5, <2>1 DEF HandlerInv, Publishing, EnforceInv
    <2>4. KernelInv'
      BY <1>3, <1>4, <2>1 DEF KernelInv, OwnershipKept, Owned, Matches
    <2>5. BoundInv' /\ DurableInv'
      BY ZenonT(60), <1>1, <1>4, <2>1 DEF BoundInv, ValidConfig, Targets, DurableInv, Good, Effective
    <2> QED
      BY <2>2, <2>3, <2>4, <2>5
  <1>6. CASE op' = "apply"
    <2>1. pc' = "journal" /\ next' = q /\ goal' = q
      BY <1>6 DEF Apply
    <2>2. TypeOK'
      BY <1>2, <1>3, <1>4, <1>6, <2>1 DEF TypeOK, PolicyOrNone, Steps, Ops
    <2>3. State = None => committed = None
      BY DEF State, Effective
    <2>4. HandlerInv' /\ EnforceInv'
      BY <1>4, <1>6, <2>1, <2>3 DEF HandlerInv, Publishing, EnforceInv
    <2>5. KernelInv'
      BY <1>4, <2>1 DEF KernelInv, OwnershipKept, Owned, Publishing
    <2>6. \A r : ValidConfig(r, config)' <=> ValidConfig(r, config)
      BY <1>4 DEF ValidConfig, Targets
    <2>7. BoundInv'
      BY <1>2, <1>4, <2>1, <2>6 DEF BoundInv
    <2>8. \A r : Good(r)' <=> Good(r)
      BY <1>4 DEF Good
    <2>9. DurableInv'
      BY <1>1, <1>2, <1>4, <2>1, <2>8 DEF DurableInv, Effective
    <2> QED
      BY <2>2, <2>4, <2>5, <2>7, <2>9
  <1> QED
    BY <1>5, <1>6 DEF Apply

\* A step that changes nothing.
LEMMA StutterInv ==
    ASSUME IInv, UNCHANGED vars
    PROVE  IInv'
  <1> USE DEF IInv, vars, core, files, management, history, handler
  <1>1. TypeOK'
    BY ZenonT(60) DEF TypeOK
  <1>2. HandlerInv'
    BY ZenonT(60) DEF HandlerInv, Publishing, State, Effective
  <1>3. KernelInv' /\ EnforceInv'
    BY ZenonT(60) DEF KernelInv, OwnershipKept, EnforceInv, Settled, Publishing, State, Effective
  <1>4. BoundInv' /\ DurableInv'
    BY ZenonT(60) DEF BoundInv, ValidConfig, Targets, DurableInv, Good, State, Effective
  <1> QED
    BY ZenonT(60), <1>1, <1>2, <1>3, <1>4

\* Every step keeps the invariant.
LEMMA NextInv == IInv /\ [Next]_vars => IInv'
  <1> SUFFICES ASSUME IInv, [Next]_vars PROVE IInv'
    OBVIOUS
  <1>1. CASE \E rev \in 1..MaxRev, S \in SUBSET Ports : Apply(rev, S)
    BY <1>1, ApplyInv
  <1>2. CASE Journal \/ JournalSync \/ Batch \/ Verify
    BY <1>2, JournalInv, JournalSyncInv, BatchInv, VerifyInv
  <1>3. CASE Commit \/ CommitSync \/ Unjournal \/ UnjournalSync
    BY <1>3, CommitInv, CommitSyncInv, UnjournalInv, UnjournalSyncInv
  <1>4. CASE Ensure \/ Listeners \/ StopCore \/ FirewallStatus
    BY <1>4, EnsureInv, ListenersInv, StopCoreInv, FirewallStatusInv
  <1>5. CASE \E p \in Ports : UpdateConnection(p)
    BY <1>5, UpdateConnectionInv
  <1>6. CASE Tamper \/ Restart \/ PowerLoss
    BY <1>6, TamperInv, RestartInv, PowerLossInv
  <1>7. CASE UNCHANGED vars
    BY <1>7, StutterInv
  <1> QED
    BY <1>1, <1>2, <1>3, <1>4, <1>5, <1>6, <1>7 DEF Next

-----------------------------------------------------------------------------
(* The theorems. *)

\* The inductive invariant holds in every reachable state.
THEOREM InvariantHolds == Spec => []IInv
  BY InitInv, NextInv, PTL DEF Spec

\* Every variable of the firewall model keeps its type.
THEOREM TypeCorrect == Spec => []TypeOK
  BY InvariantHolds, PTL DEF IInv

\* Between commands a running core is restricted by exactly the committed
\* policy, for any number of ports and revisions and any sequence of failures
\* of applyFirewall, its rollback and ensureFirewall.
THEOREM RunningIsEnforced == Spec => []RunningEnforced
  <1>1. IInv => RunningEnforced
    BY DEF IInv, EnforceInv, Settled, RunningEnforced
  <1> QED
    BY <1>1, InvariantHolds, PTL

\* No crash or power loss loses the last policy applyFirewall reported as
\* applied (saveFirewallFile, removeFirewallJournal, readFirewallState).
THEOREM AcknowledgedSurvives == Spec => []AckedSurvives
  <1>1. IInv => AckedSurvives
    BY DEF IInv, DurableInv, Good, AckedSurvives
  <1> QED
    BY <1>1, InvariantHolds, PTL

\* The agent's table always has a saved policy that owns it
\* (checkFirewallOwnership never locks the agent out of its own table).
THEOREM OwnershipIsKept == Spec => []OwnershipKept
  BY InvariantHolds, PTL DEF IInv, KernelInv

\* A running core serves every protected listener as it was protected.
THEOREM ProtectedStaysBound == Spec => []ProtectedBound
  <1>1. IInv => ProtectedBound
    BY DEF IInv, BoundInv, ProtectedBound
  <1> QED
    BY <1>1, InvariantHolds, PTL

\* No step of the agent changes a table that carries another owner's mark.
THEOREM ForeignIsUntouched == Spec => ForeignUntouched
  <1>1. IInv /\ [Next]_vars => [kernel = Foreign => kernel' = Foreign \/ Tamper \/ PowerLoss]_vars
    <2> SUFFICES ASSUME IInv, Next, kernel = Foreign, ~ Tamper, ~ PowerLoss
                 PROVE  kernel' = Foreign
      OBVIOUS
    <2>1. pc \in {"idle", "listeners"}
      BY DEF IInv, KernelInv, TypeOK
    <2> QED
      BY ZenonT(60), <2>1 DEF Next, Apply, Journal, JournalSync, Batch, Verify, Commit, CommitSync, Unjournal,
                  UnjournalSync, Ensure, Listeners, StopCore, FirewallStatus, UpdateConnection,
                  Restart
  <1> QED
    BY <1>1, InvariantHolds, PTL DEF Spec, ForeignUntouched

=============================================================================
