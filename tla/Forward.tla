------------------------------ MODULE Forward ------------------------------
(***************************************************************************)
(* Port forwarding: internal/runtime/forward.go.  The manager's apply runs *)
(* under Runtime.mu, one call at a time; the accept loop and the pipes of  *)
(* every TCP listener and the datagram loop and the session readers of     *)
(* every UDP listener run beside it and share the listener's own mutex.    *)
(* One action is one critical section of that mutex, or one call that may  *)
(* block.  Bytes, counters and the target an accepted connection was given *)
(* are left out; a target equal to its own listen address is refused       *)
(* before anything changes.                                                *)
(***************************************************************************)
EXTENDS Naturals, FiniteSets

CONSTANTS
    Ids,            \* rule ids
    TCP, UDP,       \* listen addresses of either protocol
    Targets,
    Listeners,      \* forwardListener objects
    Conns,          \* accepted TCP connections, each with its pipe
    Peers,          \* source addresses of datagrams
    Sockets,        \* connected UDP sockets, each with its reader
    None,
    MaxConnections, \* 4096 in the code
    MaxSessions     \* 1024 in the code

ASSUME ForwardAssumption ==
    /\ TCP \cap UDP = {}
    /\ None \notin Listeners /\ None \notin Sockets
    /\ MaxConnections \in Nat \ {0} /\ MaxSessions \in Nat \ {0}

VARIABLES
    file,       \* forwards.json
    table,      \* forwardManager.listeners
    restored,   \* history: the saved rules were put in force since the start
    pc,         \* step of apply
    saving,     \* it was called with a persist function
    want, todo, \* its rules, and those its current loop has not reached
    next,       \* the table it builds
    rule, life, \* per listener: its rule, and how far it is
    conn,       \* per TCP connection: its pipe
    sessions,   \* per listener: its sessions map
    sock        \* per UDP socket: its reader

call == <<pc, saving, want, todo, next>>
traffic == <<conn, sessions, sock>>
vars == <<file, table, restored, call, rule, life, traffic>>

Rule == [id : Ids, at : TCP \cup UDP, target : Targets]

\* What decodeForwardRules accepts: ids and listen addresses are unique.
RuleSets ==
    {rules \in SUBSET Rule :
        \A r, q \in rules : r # q => r.id # q.id /\ r.at # q.at}

NoRule == [id \in Ids |-> None]
NoSession == [p \in Peers |-> None]
NoConn == [step |-> "none", on |-> None, client |-> FALSE, remote |-> FALSE]
NoSock == [step |-> "none", on |-> None, peer |-> None, to |-> None, open |-> FALSE]

ConnsOf(f) == {c \in Conns : conn[c].on = f}
SocksOf(f) == {s \in Sockets : sock[s].on = f}
Quiet(f) == ConnsOf(f) = {} /\ SocksOf(f) = {}
Bound(f) == life[f] \in {"bound", "serving"}

\* A listener that does not exist yet: never created, or gone with everything
\* that referred to it.
Fresh(f) == life[f] = "free" \/ (life[f] = "stopped" /\ Quiet(f))

Init ==
    /\ file = {} /\ table = NoRule /\ restored = FALSE
    /\ pc = "off" /\ saving = FALSE /\ want = {} /\ todo = {} /\ next = NoRule
    /\ rule = [f \in Listeners |-> None]
    /\ life = [f \in Listeners |-> "free"]
    /\ conn = [c \in Conns |-> NoConn]
    /\ sessions = [f \in Listeners |-> NoSession]
    /\ sock = [s \in Sockets |-> NoSock]

-----------------------------------------------------------------------------
(* forwardManager.apply *)

Begin(rules, persist) ==
    /\ pc' = "create" /\ saving' = persist
    /\ want' = rules /\ todo' = rules /\ next' = NoRule
    /\ UNCHANGED <<file, table, rule, life, traffic>>

Return ==
    /\ pc' = "idle" /\ saving' = FALSE
    /\ want' = {} /\ todo' = {} /\ next' = NoRule

\* applyForwards: network.forward.apply with accepted rules.
ApplyForwards(rules) ==
    /\ pc = "idle"
    /\ Begin(rules, TRUE)
    /\ UNCHANGED restored

\* restoreForwards, when the agent starts.
RestoreForwards ==
    /\ pc = "off"
    /\ Begin(file, FALSE)
    /\ UNCHANGED restored

\* The listener of this id already has the rule's address.
Kept(r) == table[r.id] # None /\ rule[table[r.id]].at = r.at

\* close, for the listeners of a set: the socket, the connections and the
\* sessions of each are closed; the goroutines that own them notice later.
Stop(set) ==
    /\ life' = [f \in Listeners |-> IF f \in set THEN "stopped" ELSE life[f]]
    /\ conn' = [c \in Conns |->
                  IF conn[c].on \in set /\ conn[c].step \in {"dialing", "dialed"}
                  THEN [conn[c] EXCEPT !.client = FALSE]
                  ELSE IF conn[c].on \in set /\ conn[c].step = "piping"
                  THEN [conn[c] EXCEPT !.client = FALSE, !.remote = FALSE]
                  ELSE conn[c]]
    /\ sock' = [s \in Sockets |->
                  IF \E f \in set, p \in Peers : sessions[f][p] = s
                  THEN [sock[s] EXCEPT !.open = FALSE] ELSE sock[s]]
    /\ UNCHANGED sessions

Created == {f \in Listeners : life[f] = "bound"}

KeepListener(r) ==
    /\ pc = "create" /\ r \in todo /\ Kept(r)
    /\ todo' = todo \ {r}
    /\ next' = [next EXCEPT ![r.id] = table[r.id]]
    /\ UNCHANGED <<file, table, restored, pc, saving, want, rule, life, traffic>>

CreateForward(r, f) ==
    /\ pc = "create" /\ r \in todo /\ ~Kept(r)
    /\ Fresh(f)
    /\ \A g \in Listeners : Bound(g) => rule[g].at # r.at
    /\ todo' = todo \ {r}
    /\ next' = [next EXCEPT ![r.id] = f]
    /\ rule' = [rule EXCEPT ![f] = r]
    /\ life' = [life EXCEPT ![f] = "bound"]
    /\ sessions' = [sessions EXCEPT ![f] = NoSession]
    /\ UNCHANGED <<file, table, restored, pc, saving, want, conn, sock>>

Abandon == Stop(Created)

\* The address is taken, by another listener of the agent or by another
\* program: every listener created so far is closed again.
BindFails(r) ==
    /\ pc = "create" /\ r \in todo /\ ~Kept(r)
    /\ Abandon /\ Return
    /\ UNCHANGED <<file, table, restored, rule>>

\* Mutant: a failed save is not noticed.
PersistFailureIgnored ==
    /\ pc = "create" /\ todo = {}
    /\ pc' = "switch" /\ todo' = want /\ restored' = TRUE
    /\ file' \in IF saving THEN {want, file} ELSE {file}
    /\ UNCHANGED <<table, saving, want, next, rule, life, traffic>>

\* The rules are saved (not when they were just read), or nothing happens.
Persist ==
    /\ pc = "create" /\ todo = {}
    /\ pc' = "switch" /\ todo' = want /\ restored' = TRUE
    /\ file' = IF saving THEN want ELSE file
    /\ UNCHANGED <<table, saving, want, next, rule, life, traffic>>

PersistFails ==
    /\ pc = "create" /\ todo = {} /\ saving
    /\ Abandon /\ Return
    /\ UNCHANGED <<file, table, restored, rule>>

\* A listener takes its new rule; a new target ends its datagram sessions.
SwitchRule(r) ==
    LET f == next[r.id]
        moved == rule[f].target # r.target
    IN  /\ pc = "switch" /\ r \in todo
        /\ todo' = todo \ {r}
        /\ rule' = [rule EXCEPT ![f] = r]
        /\ sessions' = IF moved THEN [sessions EXCEPT ![f] = NoSession] ELSE sessions
        /\ sock' = [s \in Sockets |->
                      IF moved /\ \E p \in Peers : sessions[f][p] = s
                      THEN [sock[s] EXCEPT !.open = FALSE] ELSE sock[s]]
        /\ UNCHANGED <<file, table, restored, pc, saving, want, next, life, conn>>

Replaced == {id \in Ids : table[id] # None /\ next[id] # table[id]}

\* A listener that the new table does not have is closed.
CloseReplaced(id) ==
    /\ pc = "switch" /\ todo = {}
    /\ id \in Replaced /\ Bound(table[id])
    /\ Stop({table[id]})
    /\ UNCHANGED <<file, table, restored, call, rule>>

\* The new table is in force and the new listeners start to serve.
Publish ==
    /\ pc = "switch" /\ todo = {}
    /\ \A id \in Replaced : ~Bound(table[id])
    /\ table' = next
    /\ life' = [f \in Listeners |-> IF life[f] = "bound" THEN "serving" ELSE life[f]]
    /\ Return
    /\ UNCHANGED <<file, restored, rule, traffic>>

\* The process ends, by a crash or by Runtime.Close, and every socket with it.
Crash ==
    /\ pc # "off"
    /\ pc' = "off" /\ saving' = FALSE /\ want' = {} /\ todo' = {} /\ next' = NoRule
    /\ table' = NoRule /\ restored' = FALSE
    /\ rule' = [f \in Listeners |-> None]
    /\ life' = [f \in Listeners |-> "free"]
    /\ conn' = [c \in Conns |-> NoConn]
    /\ sessions' = [f \in Listeners |-> NoSession]
    /\ sock' = [s \in Sockets |-> NoSock]
    /\ UNCHANGED file

-----------------------------------------------------------------------------
(* serveTCP and pipeTCP *)

control == <<file, table, restored, call, rule, life>>
TCPStep == UNCHANGED <<control, sessions, sock>>

\* How many sockets the listener's connections map holds.
Registered(f) ==
    Cardinality({c \in ConnsOf(f) : conn[c].step # "accepted"})
      + Cardinality({c \in ConnsOf(f) : conn[c].step \in {"piping", "ending"}})

Accept(f, c) ==
    /\ life[f] = "serving" /\ rule[f].at \in TCP
    /\ conn[c] = NoConn
    /\ \A d \in ConnsOf(f) : conn[d].step # "accepted"
    /\ conn' = [conn EXCEPT ![c] = [NoConn EXCEPT !.step = "accepted", !.on = f, !.client = TRUE]]
    /\ TCPStep

\* Mutant: the limit is off by one.
AdmitOneMore(c) ==
    LET f == conn[c].on IN
    /\ conn[c].step = "accepted"
    /\ conn' = [conn EXCEPT ![c] =
                  IF life[f] = "stopped" \/ Registered(f) > MaxConnections
                  THEN NoConn ELSE [@ EXCEPT !.step = "dialing"]]
    /\ TCPStep

\* An accepted connection is registered, unless the listener was closed in the
\* meantime or is full.
Admit(c) ==
    LET f == conn[c].on IN
    /\ conn[c].step = "accepted"
    /\ conn' = [conn EXCEPT ![c] =
                  IF life[f] = "stopped" \/ Registered(f) >= MaxConnections
                  THEN NoConn ELSE [@ EXCEPT !.step = "dialing"]]
    /\ TCPStep

\* DialTimeout returns a connection, or fails and the client is closed.
Dial(c) ==
    /\ conn[c].step = "dialing"
    /\ conn' \in {[conn EXCEPT ![c] = [@ EXCEPT !.step = "dialed", !.remote = TRUE]],
                  [conn EXCEPT ![c] = [@ EXCEPT !.step = "closing", !.client = FALSE]]}
    /\ TCPStep

\* Mutant: no second look at stopped after the dial.
ConnectUnchecked(c) ==
    /\ conn[c].step = "dialed"
    /\ conn' = [conn EXCEPT ![c].step = "piping"]
    /\ TCPStep

\* The remote side is registered too, unless the listener was closed while the
\* dial was in progress.
Connect(c) ==
    /\ conn[c].step = "dialed"
    /\ conn' = [conn EXCEPT ![c] =
                  IF life[conn[c].on] = "stopped"
                  THEN [@ EXCEPT !.step = "closing", !.client = FALSE, !.remote = FALSE]
                  ELSE [@ EXCEPT !.step = "piping"]]
    /\ TCPStep

\* Both copies are over and both sockets closed, but still registered.
PipeEnds(c) ==
    /\ conn[c].step = "piping"
    /\ conn' = [conn EXCEPT ![c] =
                  [@ EXCEPT !.step = "ending", !.client = FALSE, !.remote = FALSE]]
    /\ TCPStep

\* The deferred functions delete the remote and then the client.
Unregister(c) ==
    /\ \/ conn[c].step = "ending" /\ conn' = [conn EXCEPT ![c].step = "closing"]
       \/ conn[c].step = "closing" /\ conn' = [conn EXCEPT ![c] = NoConn]
    /\ TCPStep

-----------------------------------------------------------------------------
(* serveUDP and readUDP *)

Open(f) == {p \in Peers : sessions[f][p] # None}

\* A datagram of a new peer opens a session, when there is room and the dial
\* succeeds.  One of a known peer only moves the session's deadline.
Datagram(f, p, s) ==
    /\ life[f] = "serving" /\ rule[f].at \in UDP
    /\ sessions[f][p] = None /\ Cardinality(Open(f)) < MaxSessions
    /\ sock[s] = NoSock
    /\ sessions' = [sessions EXCEPT ![f][p] = s]
    /\ sock' = [sock EXCEPT ![s] = [step |-> "reading", on |-> f, peer |-> p,
                                    to |-> rule[f].target, open |-> TRUE]]
    /\ UNCHANGED <<control, conn>>

\* The reader stops, at the deadline or after an error, and closes its socket.
ReaderEnds(s) ==
    /\ sock[s].step = "reading"
    /\ sock' = [sock EXCEPT ![s] = [@ EXCEPT !.step = "leaving", !.open = FALSE]]
    /\ UNCHANGED <<control, conn, sessions>>

\* Mutant: the entry is deleted whoever it belongs to.
ReaderLeavesAnyway(s) ==
    /\ sock[s].step = "leaving"
    /\ sessions' = [sessions EXCEPT ![sock[s].on][sock[s].peer] = None]
    /\ sock' = [sock EXCEPT ![s] = NoSock]
    /\ UNCHANGED <<control, conn>>

\* It removes its session, if the peer does not have another one by now.
ReaderLeaves(s) ==
    LET f == sock[s].on
        p == sock[s].peer
    IN  /\ sock[s].step = "leaving"
        /\ sessions' = IF sessions[f][p] = s
                       THEN [sessions EXCEPT ![f][p] = None] ELSE sessions
        /\ sock' = [sock EXCEPT ![s] = NoSock]
        /\ UNCHANGED <<control, conn>>

-----------------------------------------------------------------------------
Next ==
    \/ \E rules \in RuleSets : ApplyForwards(rules)
    \/ RestoreForwards \/ Persist \/ PersistFails \/ Publish \/ Crash
    \/ \E r \in Rule : KeepListener(r) \/ BindFails(r) \/ SwitchRule(r)
    \/ \E r \in Rule, f \in Listeners : CreateForward(r, f)
    \/ \E id \in Ids : CloseReplaced(id)
    \/ \E f \in Listeners, c \in Conns : Accept(f, c)
    \/ \E c \in Conns : Admit(c) \/ Dial(c) \/ Connect(c) \/ PipeEnds(c) \/ Unregister(c)
    \/ \E f \in Listeners, p \in Peers, s \in Sockets : Datagram(f, p, s)
    \/ \E s \in Sockets : ReaderEnds(s) \/ ReaderLeaves(s)

Spec == Init /\ [][Next]_vars

-----------------------------------------------------------------------------
(* Properties. *)

InForce == {rule[table[id]] : id \in {i \in Ids : table[i] # None}}

\* Until a call of apply has saved its rules it has disturbed nothing: the
\* rules in force are the saved ones and every listener of theirs serves.  The
\* same holds after it, whether it succeeded or failed, and then no other
\* listener holds a port.  After a start that could not bind every saved rule
\* nothing is in force (README, "An occupied port leaves the old rules intact").
Served ==
    /\ pc \in {"idle", "create"} =>
        /\ InForce = IF restored THEN file ELSE {}
        /\ \A id \in Ids : table[id] # None => life[table[id]] = "serving"
    /\ pc = "idle" => \A f \in Listeners : Bound(f) => \E id \in Ids : table[id] = f

\* Once a listener is closed, none of its pipes and sessions carries traffic,
\* those that were being dialled or registered at that moment included.
StoppedCarriesNothing ==
    \A f \in Listeners : life[f] = "stopped" =>
        /\ \A c \in ConnsOf(f) : conn[c].step \in {"dialing", "piping"}
                                    => ~conn[c].client /\ ~conn[c].remote
        /\ \A s \in SocksOf(f) : ~sock[s].open

\* An open session is in the sessions map of its listener, so that close finds
\* it, leads to the target of the rule in force, and has a reader that will
\* close it.
SessionsTracked ==
    \A s \in Sockets : sock[s].open =>
        /\ sock[s].step = "reading"
        /\ sessions[sock[s].on][sock[s].peer] = s
        /\ sock[s].to = rule[sock[s].on].target

\* A rule never has more clients than its limit, nor more sessions, however
\* many are being admitted, dialled or closed at the same time.
Bounded ==
    \A f \in Listeners :
        /\ Cardinality({c \in ConnsOf(f) : conn[c].step # "accepted"}) <= MaxConnections
        /\ Cardinality(Open(f)) <= MaxSessions

=============================================================================
