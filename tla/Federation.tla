----------------------------- MODULE Federation -----------------------------
(***************************************************************************)
(* Scoped federation: internal/runtime/federation.go.  An owner signs      *)
(* grants; each reserves a namespace and shares some inbounds with a       *)
(* consumer, whose requests reach the agent inside envelopes the owner     *)
(* relays, possibly more than once.  Commands run one at a time under      *)
(* Runtime.mu, but the process may stop between the change a request makes *)
(* and the file that keeps its reply.  Names are sequences of the labels   *)
(* their dots separate, so that "starts with the namespace and a dot" is   *)
(* a proper prefix.  Signatures and ciphertext are taken to be unforgeable *)
(* (module wire): an envelope is what its consumer sealed, and a grant is  *)
(* one the named owner signed.                                             *)
(***************************************************************************)
EXTENDS Naturals, Sequences, FiniteSets

CONSTANTS
    Owners,         \* signing keys
    Shares,         \* grant ids
    Labels,         \* what stands between the dots of a name
    Namespaces,     \* sequences of labels
    Names,          \* the emails owners and consumers write, sequences of labels
    Tags,           \* inbound tags
    Protocols,
    AccountProtocols, \* those that keep users as accounts (socks, http)
    Commands,       \* request ids
    Seals,          \* ciphertexts of one request id
    MaxRevision,
    None

ASSUME FederationAssumption ==
    /\ \A n \in Namespaces \cup Names : n \in Seq(Labels) /\ n # <<>>
    /\ AccountProtocols \subseteq Protocols
    /\ MaxRevision \in Nat
    /\ None \notin Owners

VARIABLES
    pin,        \* owner-signing.pub
    grants,     \* the grants directory
    config,     \* the inbounds of xray/config.json
    results,    \* the results directory: per share and request id, a ciphertext
    request,    \* the envelope being executed, between its change and its reply
    ran         \* history: per share and request id, the ciphertexts executed

vars == <<pin, grants, config, results, request, ran>>

\* Email e begins with namespace n and a dot.
HasPrefix(e, n) == Len(e) > Len(n) /\ SubSeq(e, 1, Len(n)) = n

\* Mutant: the consumer's emails are taken as they are.
Unscoped(e, n) == e

\* A consumer's email, brought inside its namespace.
Scoped(e, n) == IF HasPrefix(e, n) THEN e ELSE n \o e

Emails == Names \cup {Scoped(e, n) : e \in Names, n \in Namespaces}

Grant == [by : Owners, namespace : Namespaces, revision : 1..MaxRevision,
          inbounds : SUBSET Tags \ {{}}, revoked : BOOLEAN]
Inbound == [protocol : Protocols, users : SUBSET Emails]
Envelope == [share : Shares, command : Commands, seal : Seals, revision : 1..MaxRevision,
             sync : BOOLEAN, inbound : Tags, users : SUBSET Names]
Keys == Shares \X Commands

ASSUME NoEnvelope == None \notin Envelope

Init ==
    /\ pin = None
    /\ grants = [s \in Shares |-> None]
    /\ config \in [Tags -> {[protocol |-> p, users |-> {}] : p \in Protocols}]
    /\ results = [k \in Keys |-> None]
    /\ request = None
    /\ ran = [k \in Keys |-> {}]

-----------------------------------------------------------------------------
(* Grants. *)

\* Mutant: only a namespace inside an existing one is found.
OverlapsOneWay(n, m) == n = m \/ HasPrefix(n, m)

\* One of the namespaces is the other, or inside it.
Overlaps(n, m) == n = m \/ HasPrefix(n, m) \/ HasPrefix(m, n)

\* The file of the same grant, if there is one, lets this one replace it.
Supersedes(g, prior) ==
    \/ prior = None
    \/ prior # None /\ g.revision > prior.revision /\ g.namespace = prior.namespace

\* installFederationGrant.  The signing key is pinned first, and stays pinned
\* when the grant is refused afterwards.
InstallFederationGrant(s, g) ==
    /\ request = None
    /\ pin \in {None, g.by}
    /\ pin' = g.by
    /\ grants' = IF /\ \A q \in Shares \ {s} :
                         grants[q] # None => ~Overlaps(grants[q].namespace, g.namespace)
                    /\ Supersedes(g, grants[s])
                 THEN [grants EXCEPT ![s] = g] ELSE grants
    /\ UNCHANGED <<config, results, request, ran>>

-----------------------------------------------------------------------------
(* The owner's side. *)

\* federationPrefixes: the namespaces reserved in an inbound.
Reserved(t) ==
    {grants[s].namespace : s \in {q \in Shares : grants[q] # None /\ t \in grants[q].inbounds}}

IsReserved(t, e) == \E n \in Reserved(t) : HasPrefix(e, n)

\* Mutant: the reserved users found in the inbound are not carried over.
DesiredOnly(t, desired, existing) == {e \in desired : ~IsReserved(t, e)}

\* preserveFederationUsers: reserved users stay as they are, whatever the owner
\* desires, and no others.
PreserveFederationUsers(t, desired, existing) ==
    {e \in desired : ~IsReserved(t, e)} \cup {e \in existing : IsReserved(t, e)}

\* The users in settings.clients, which are the only ones the functions above
\* are given: an account protocol has none there.
Clients(in) == IF in.protocol \in AccountProtocols THEN {} ELSE in.users

\* preserveFederationConfig for one inbound; None is a refusal.
Merged(t, next, old) ==
    LET users == PreserveFederationUsers(t, Clients(next), Clients(old))
    IN  IF Cardinality(users) > Cardinality(Clients(next)) /\ old.protocol # next.protocol
        THEN None
        ELSE IF next.protocol \in AccountProtocols THEN next
        ELSE [next EXCEPT !.users = users]

\* applyConfig with the owner's inbounds (core.config.apply, core.config.restore).
\* When the new core does not start, the old file is put back.
ApplyConfig(next) ==
    LET merged == [t \in Tags |-> IF next[t] = None \/ config[t] = None
                                  THEN next[t] ELSE Merged(t, next[t], config[t])]
    IN  /\ request = None
        /\ \A t \in Tags : next[t] # None => merged[t] # None
        /\ config' = merged
        /\ UNCHANGED <<pin, grants, results, request, ran>>

\* syncUsers: the users of an inbound are replaced, in the core and in the file.
SyncUsers(t, users) == config' = [config EXCEPT ![t].users = users]

\* syncOwnerUsers (core.users.sync).
SyncOwnerUsers(t, desired) ==
    /\ request = None /\ config[t] # None
    /\ SyncUsers(t, PreserveFederationUsers(t, desired, Clients(config[t])))
    /\ UNCHANGED <<pin, grants, results, request, ran>>

-----------------------------------------------------------------------------
(* The consumer's side. *)

Key(e) == <<e.share, e.command>>

\* What executeFederation checks before it looks for a kept reply: the grant is
\* the pinned owner's, in force, and the one the request was made under.
Permitted(e) ==
    LET g == grants[e.share]
    IN  g # None /\ pin = g.by /\ ~g.revoked /\ e.revision = g.revision

\* Mutant: kept replies are not looked up.
AnswerNever(e) == FALSE

\* A reply is kept under this request id: it is sent again when the ciphertext
\* is the same, and refused otherwise; nothing runs.
Answered(e) == results[Key(e)] # None

\* handleFederationOperation, inbound.users.sync: the users outside the
\* namespace, and the desired ones brought inside it.
Synchronised(g, in, users) ==
    {u \in Clients(in) : ~HasPrefix(u, g.namespace)} \cup {Scoped(u, g.namespace) : u \in users}

\* executeFederation up to the change.  A read, and an operation that fails
\* (an inbound outside the grant, a duplicate user, a stopped core), changes
\* nothing, and its reply is kept like any other.
ExecuteFederation(e) ==
    LET g == grants[e.share]
        t == e.inbound
    IN  /\ request = None
        /\ Permitted(e) /\ ~Answered(e)
        /\ \/ /\ e.sync /\ t \in g.inbounds /\ config[t] # None
              /\ \A u, v \in e.users : Scoped(u, g.namespace) = Scoped(v, g.namespace) => u = v
              /\ SyncUsers(t, Synchronised(g, config[t], e.users))
           \/ UNCHANGED config
        /\ request' = e
        /\ ran' = [ran EXCEPT ![Key(e)] = @ \cup {e.seal}]
        /\ UNCHANGED <<pin, grants, results>>

\* The reply is kept, or the file cannot be written, or the process stops.
KeepReply ==
    /\ request # None
    /\ results' = [results EXCEPT ![Key(request)] = request.seal]
    /\ request' = None
    /\ UNCHANGED <<pin, grants, config, ran>>

LoseReply ==
    /\ request # None
    /\ request' = None
    /\ UNCHANGED <<pin, grants, config, results, ran>>

Next ==
    \/ \E s \in Shares, g \in Grant : InstallFederationGrant(s, g)
    \/ \E next \in [Tags -> Inbound \cup {None}] : ApplyConfig(next)
    \/ \E t \in Tags, desired \in SUBSET Emails : SyncOwnerUsers(t, desired)
    \/ \E e \in Envelope : ExecuteFederation(e)
    \/ KeepReply \/ LoseReply

Spec == Init /\ [][Next]_vars

-----------------------------------------------------------------------------
(* Properties. *)

\* No user belongs to two namespaces: those of installed grants do not overlap,
\* revoked ones included, whatever order the grants and revisions came in.
NamespacesDisjoint ==
    \A s, q \in Shares : s # q /\ grants[s] # None /\ grants[q] # None =>
        \A e \in Emails : ~(HasPrefix(e, grants[s].namespace) /\ HasPrefix(e, grants[q].namespace))

Changed(before, after) == (before \ after) \cup (after \ before)

\* A consumer's request changes users of its own namespace and of the inbounds
\* shared with it only (README, "can replace only its namespace within
\* explicitly shared inbounds").
ConsumerConfined ==
    [][request = None /\ request' # None =>
         LET g == grants[request'.share] IN
         \A t \in {i \in Tags : config'[i] # config[i]} :
           /\ t \in g.inbounds
           /\ \A e \in Changed(config[t].users, config'[t].users) : HasPrefix(e, g.namespace)]_vars

\* In an inbound that stays, a user inside a shared namespace comes and goes
\* only by a request of that namespace's consumer: not by the owner's
\* configurations and lists, and not by another consumer (README, "Owner
\* reconciliation preserves consumer users in retained inbounds").
ConsumerPreserved ==
    [][\A t \in Tags, s \in Shares :
         /\ config[t] # None /\ config'[t] # None
         /\ grants[s] # None /\ t \in grants[s].inbounds
         /\ \E e \in Changed(config[t].users, config'[t].users) : HasPrefix(e, grants[s].namespace)
         => request' # None /\ request'.share = s]_vars

\* A request runs again only when its reply was lost: once a reply is kept
\* under a request id, neither that ciphertext nor another one runs, and what
\* is kept answers a ciphertext that ran.
AnsweredOnce ==
    [][\A k \in Keys :
         /\ results[k] # None => ran'[k] = ran[k] /\ results'[k] = results[k]
         /\ results'[k] # None => results'[k] \in ran'[k]]_vars

\* The refusal in preserveFederationConfig: "cannot change protocol while a
\* shared namespace has configured users".
ProtocolKept ==
    [][\A t \in Tags : config[t] # None /\ config'[t] # None
                         /\ (\E e \in config[t].users : IsReserved(t, e))
         => config'[t].protocol = config[t].protocol]_vars

=============================================================================
