------------------------------ MODULE Policies ------------------------------
(***************************************************************************)
(* Per-user admission control: internal/runtime/policy.go, driven by the   *)
(* hooks of the embedded core (third_party/xray-core/common/aswired).      *)
(* Sessions of several e-mail identities share the counters of one user;   *)
(* replacing the policy list may move an identity to another user while    *)
(* its sessions are open, and closes the sessions the new list forbids.    *)
(* Every operation runs under policies.mu, but the callbacks that close    *)
(* sessions run after the unlock, and a session releases its admission     *)
(* later still, when its context is cancelled.                             *)
(***************************************************************************)
EXTENDS Integers, FiniteSets

CONSTANTS
    Sessions,   \* connections of the core, reused once they are released
    Users,      \* user identifiers
    Identities, \* e-mail identities; without an owner one is its own user
    IPs,        \* client addresses
    NoUser,     \* the identity has no owner
    Limits      \* the policies a list may give a user

NoLimit == [disabled |-> FALSE, rate |-> FALSE, connections |-> 0, ips |-> 0]
Policy == [disabled : BOOLEAN, rate : BOOLEAN, connections : Nat, ips : Nat]

ASSUME PoliciesAssumption ==
    /\ IsFiniteSet(Sessions)
    /\ IsFiniteSet(IPs)
    /\ Identities \subseteq Users
    /\ NoUser \notin Users
    /\ NoLimit \in Limits
    /\ Limits \subseteq Policy

VARIABLES
    byUser,       \* policies.byUser[u].value, NoLimit where there is no entry
    byEmail,      \* policies.byEmail
    connections,  \* policies.byUser[u].connections
    ips,          \* policies.byUser[u].ips
    active,       \* sessions in policies.active
    who,          \* their identity and address
    unbounded,    \* sessions in policies.unbounded
    doomed,       \* terminate callbacks apply still has to call
    closed        \* sessions whose context is cancelled or connection closed

policiesVars == <<byUser, byEmail, connections, ips, active, who, unbounded, doomed, closed>>

Lists == [limit : [Users -> Limits], owner : [Identities -> Users \cup {NoUser}]]

\* state(email): the owner's entry, or the identity's own.
User(e) == IF byEmail[e] = NoUser THEN e ELSE byEmail[e]

\* boundedPolicy.
BoundedPolicy(v) == v.disabled \/ v.rate \/ v.connections > 0 \/ v.ips > 0

\* The sessions p.active holds for a user, and those from one address.
Of(u) == {s \in active : User(who[s].email) = u}
From(u, i) == {s \in Of(u) : who[s].ip = i}

Empty == [limit |-> [u \in Users |-> NoLimit], owner |-> [e \in Identities |-> NoUser]]

PoliciesInit ==
    /\ byUser = Empty.limit /\ byEmail = Empty.owner
    /\ connections = [u \in Users |-> 0]
    /\ ips = [u \in Users |-> [i \in IPs |-> 0]]
    /\ active = {} /\ who \in [Sessions -> [email : Identities, ip : IPs]]
    /\ unbounded = {} /\ doomed = {} /\ closed = {}

-----------------------------------------------------------------------------
\* len(s.ips): addresses whose counter is kept.
Addresses(u) == {i \in IPs : ips[u][i] > 0}

\* Mutant: the address limit is off by one.
AdmissibleAnyAddress(u, i) ==
    LET v == byUser[u] IN
    /\ ~ v.disabled
    /\ v.connections > 0 => connections[u] < v.connections
    /\ v.ips > 0 /\ ips[u][i] = 0 => Cardinality(Addresses(u)) <= v.ips

\* The three refusals of AdmitSession.
Admissible(u, i) ==
    LET v == byUser[u] IN
    /\ ~ v.disabled
    /\ v.connections > 0 => connections[u] < v.connections
    /\ v.ips > 0 /\ ips[u][i] = 0 => Cardinality(Addresses(u)) < v.ips

\* AdmitSession(email, ip) for a session that holds nothing.
AdmitSession(s, e, i) ==
    /\ s \notin active \cup unbounded \cup doomed
    /\ Admissible(User(e), i)
    /\ connections' = [connections EXCEPT ![User(e)] = @ + 1]
    /\ ips' = [ips EXCEPT ![User(e)][i] = @ + 1]
    /\ active' = active \cup {s}
    /\ who' = [who EXCEPT ![s] = [email |-> e, ip |-> i]]
    /\ closed' = closed \ {s}
    /\ UNCHANGED <<byUser, byEmail, unbounded, doomed>>

\* The release closure, run once after the context is cancelled; it looks the
\* user up again.
Release(s) ==
    LET u == User(who[s].email)
        i == who[s].ip IN
    /\ s \in active /\ s \in closed
    /\ active' = active \ {s}
    /\ connections' = [connections EXCEPT ![u] = @ - 1]
    /\ ips' = [ips EXCEPT ![u][i] = IF @ > 0 THEN @ - 1 ELSE 0]
    /\ UNCHANGED <<byUser, byEmail, who, unbounded, doomed, closed>>

\* The session ends by itself.
Finish(s) ==
    /\ s \in active \ closed
    /\ closed' = closed \cup {s}
    /\ UNCHANGED <<byUser, byEmail, connections, ips, active, who, unbounded, doomed>>

\* BeginUnboundedSplice: kernel splicing without limits, while none apply.
BeginUnboundedSplice(s) ==
    /\ s \in active \ closed /\ s \notin unbounded
    /\ ~ BoundedPolicy(byUser[User(who[s].email)])
    /\ unbounded' = unbounded \cup {s}
    /\ UNCHANGED <<byUser, byEmail, connections, ips, active, who, doomed, closed>>

\* The splice stops when its connection is closed, or earlier.
EndSplice(s) ==
    /\ s \in unbounded
    /\ unbounded' = unbounded \ {s}
    /\ UNCHANGED <<byUser, byEmail, connections, ips, active, who, doomed, closed>>

\* Mutant: only unlimited splices are closed.
ForbiddenSplices(limit, owner) ==
    LET user(e) == IF owner[e] = NoUser THEN e ELSE owner[e] IN
    {s \in unbounded : BoundedPolicy(limit[user(who[s].email)])}

\* The sessions a new list closes: those of disabled users, and unlimited
\* splices of users who now have a limit.
Forbidden(limit, owner) ==
    LET user(e) == IF owner[e] = NoUser THEN e ELSE owner[e] IN
    {s \in active : limit[user(who[s].email)].disabled}
      \cup {s \in unbounded : BoundedPolicy(limit[user(who[s].email)])}

\* Mutant: the counters are kept across a change of owners.
ApplyUncounted(list) ==
    /\ byUser' = list.limit /\ byEmail' = list.owner
    /\ doomed' = doomed \cup Forbidden(list.limit, list.owner)
    /\ UNCHANGED <<connections, ips, active, who, unbounded, closed>>

\* applyPolicies: the list is persisted (see Restart), then policies.apply
\* replaces limits and owners, counts the open sessions again under their new
\* users and collects the sessions to close.
Apply(list) ==
    /\ byUser' = list.limit /\ byEmail' = list.owner
    /\ UNCHANGED <<active, who, unbounded, closed>>
    /\ connections' = [u \in Users |-> Cardinality(Of(u)')]
    /\ ips' = [u \in Users |-> [i \in IPs |-> Cardinality(From(u, i)')]]
    /\ doomed' = doomed \cup Forbidden(list.limit, list.owner)

\* After the unlock the callbacks run, in any order.
Terminate(s) ==
    /\ s \in doomed
    /\ doomed' = doomed \ {s} /\ closed' = closed \cup {s}
    /\ UNCHANGED <<byUser, byEmail, connections, ips, active, who, unbounded>>

\* The process restarts without sessions, and loadPolicies applies the saved
\* list: the one in force, or one saved just before that was not applied yet.
Restart(list) ==
    /\ byUser' = list.limit /\ byEmail' = list.owner
    /\ connections' = [u \in Users |-> 0]
    /\ ips' = [u \in Users |-> [i \in IPs |-> 0]]
    /\ active' = {} /\ unbounded' = {} /\ doomed' = {} /\ closed' = {}
    /\ UNCHANGED who

-----------------------------------------------------------------------------
PoliciesNext ==
    \/ \E s \in Sessions, e \in Identities, i \in IPs : AdmitSession(s, e, i)
    \/ \E s \in Sessions :
         \/ Release(s) \/ Finish(s) \/ Terminate(s)
         \/ BeginUnboundedSplice(s) \/ EndSplice(s)
    \/ \E list \in Lists : Apply(list) \/ Restart(list)

PoliciesSpec == PoliciesInit /\ [][PoliciesNext]_policiesVars

-----------------------------------------------------------------------------
(* Properties. *)

\* Every variable has its type.
PoliciesTypeOK ==
    /\ byUser \in [Users -> Limits]
    /\ byEmail \in [Identities -> Users \cup {NoUser}]
    /\ connections \in [Users -> Nat]
    /\ ips \in [Users -> [IPs -> Nat]]
    /\ active \subseteq Sessions
    /\ who \in [Sessions -> [email : Identities, ip : IPs]]
    /\ unbounded \subseteq Sessions /\ doomed \subseteq Sessions /\ closed \subseteq Sessions

\* The counters a user is judged by are the sessions open for that user now,
\* in total and per address, although identities change owners while their
\* sessions are open and release their admission later (AdmitSession, apply).
CountsExact ==
    \A u \in Users :
      /\ connections[u] = Cardinality(Of(u))
      /\ \A i \in IPs : ips[u][i] = Cardinality(From(u, i))

\* The sessions really open for a user never grow beyond the limit in force:
\* only a new list can leave more sessions open than it allows.
ConnectionsKept(u) ==
    byEmail' = byEmail /\ Cardinality(Of(u)') > Cardinality(Of(u))
      => LET v == byUser[u] IN
         /\ ~ v.disabled
         /\ v.connections > 0 => Cardinality(Of(u)') <= v.connections

\* The addresses a user's open sessions come from.
Sources(u) == {who[s].ip : s \in Of(u)}

\* A user's open sessions never start using an address beyond the limit in
\* force, however many sessions share an address.
AddressesKept(u) ==
    byEmail' = byEmail /\ ~ (Sources(u)' \subseteq Sources(u)) /\ byUser[u].ips > 0
      => Cardinality(Sources(u)') <= byUser[u].ips

\* Admission keeps the connection limit and the address limit of every user,
\* whatever is released, moved to another user or counted anew in between
\* (AdmitSession).
LimitsInForce == [][\A u \in Users : ConnectionsKept(u) /\ AddressesKept(u)]_policiesVars

\* A session spliced without limits belongs to a user without limits, or is
\* being closed (README "activating a policy on an unlimited splice session
\* closes that session").
SpliceUnlimited ==
    \A s \in unbounded :
      BoundedPolicy(byUser[User(who[s].email)]) => s \in doomed \cup closed

\* A disabled user has no session that is not being closed.
DisabledClosed ==
    \A s \in active : byUser[User(who[s].email)].disabled => s \in doomed \cup closed

\* Whatever a new list forbids is being closed, whichever sessions, splices and
\* owners changed while it was applied.
ForbiddenClosed == SpliceUnlimited /\ DisabledClosed

=============================================================================
