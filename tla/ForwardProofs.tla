--------------------------- MODULE ForwardProofs ---------------------------
(***************************************************************************)
(* What module Forward promises, for every number of rules, listeners,     *)
(* connections, peers and sockets, and every value of the two limits.      *)
(***************************************************************************)
EXTENDS Forward, FiniteSetTheorems, TLAPS

Conn ==
    [step : {"none", "accepted", "dialing", "dialed", "piping", "ending", "closing"},
     on : Listeners \cup {None}, client : BOOLEAN, remote : BOOLEAN]

Sock ==
    [step : {"none", "reading", "leaving"}, on : Listeners \cup {None},
     peer : Peers \cup {None}, to : Targets \cup {None}, open : BOOLEAN]

CallOK ==
    /\ pc \in {"off", "idle", "create", "switch"}
    /\ file \in RuleSets /\ want \in RuleSets /\ todo \in SUBSET want
    /\ restored \in BOOLEAN /\ saving \in BOOLEAN
    /\ table \in [Ids -> Listeners \cup {None}]
    /\ next \in [Ids -> Listeners \cup {None}]

ListenersOK ==
    /\ rule \in [Listeners -> Rule \cup {None}]
    /\ life \in [Listeners -> {"free", "bound", "serving", "stopped"}]

TrafficOK ==
    /\ conn \in [Conns -> Conn]
    /\ sessions \in [Listeners -> [Peers -> Sockets \cup {None}]]
    /\ sock \in [Sockets -> Sock]

\* Every variable keeps its type.
TypeOK == CallOK /\ ListenersOK /\ TrafficOK

\* Which listener is in which table.  The rule of a listener names the id it is
\* filed under, so a listener is in a table once; a table's listeners serve
\* until the switch closes those it replaces, and a bound listener is one the
\* call in progress created.
TableInv ==
    /\ \A f \in Listeners :
        /\ life[f] # "free" => rule[f] \in Rule
        /\ life[f] = "bound" => \E id \in Ids : next[id] = f
        /\ life[f] = "serving" => \E id \in Ids : table[id] = f
    /\ \A id \in Ids : table[id] # None =>
        /\ rule[table[id]].id = id
        /\ \/ life[table[id]] = "serving"
           \/ life[table[id]] = "stopped" /\ pc = "switch" /\ next[id] # table[id]
    /\ \A id \in Ids : next[id] # None =>
        /\ rule[next[id]].id = id
        /\ \/ life[next[id]] = "bound"
           \/ life[next[id]] = "serving" /\ next[id] = table[id]

\* How far the call is: the rules it has passed are in its table, and the file
\* holds what it switches to before it changes a listener that serves.
ProgressInv ==
    /\ pc = "off" => table = NoRule /\ ~restored
    /\ pc \in {"off", "idle"} => next = NoRule
    /\ pc = "create" /\ ~saving => want = file
    /\ pc = "switch" => want = file /\ restored
    /\ \A id \in Ids : next[id] # None =>
        \E r \in want : r.id = id /\ (pc = "create" => r \notin todo)
    /\ pc = "create" => \A r \in want \ todo : next[r.id] # None
    /\ pc = "switch" => \A r \in want :
        next[r.id] # None /\ (r \notin todo => rule[next[r.id]] = r)
    /\ pc \in {"idle", "create"} => InForce = IF restored THEN file ELSE {}

\* A connection belongs to a listener that served; once that one is closed, no
\* connection of it that was registered has an open client, and a pipe no open
\* remote.
ConnOK(k) ==
    /\ k.on # None => life[k.on] \in {"serving", "stopped"}
    /\ k.step \in {"accepted", "dialing"} => ~k.remote
    /\ k.on # None /\ life[k.on] = "stopped" =>
        /\ k.step \in {"dialing", "dialed", "piping"} => ~k.client
        /\ k.step = "piping" => ~k.remote

ConnInv == \A c \in Conns : ConnOK(conn[c])

\* A socket belongs to a listener that served, and an open one is a session of
\* a listener that serves.
SockOK(s, k) ==
    /\ k.on # None => life[k.on] \in {"serving", "stopped"}
    /\ k.open =>
        /\ k.step = "reading"
        /\ k.on \in Listeners /\ k.peer \in Peers
        /\ life[k.on] = "serving"
        /\ sessions[k.on][k.peer] = s
        /\ k.to = rule[k.on].target

SockInv == \A s \in Sockets : SockOK(s, sock[s])

Clients(f) == {c \in ConnsOf(f) : conn[c].step # "accepted"}

\* The clients and the sessions of a listener are finitely many, and within
\* the limits.
LimitInv ==
    \A f \in Listeners :
        /\ IsFiniteSet(Clients(f)) /\ Cardinality(Clients(f)) <= MaxConnections
        /\ IsFiniteSet(Open(f)) /\ Cardinality(Open(f)) <= MaxSessions

Inv == TypeOK /\ TableInv /\ ProgressInv /\ ConnInv /\ SockInv /\ LimitInv

(* Three kinds of steps: of the call, of TCP traffic and of UDP traffic. *)

CallNext ==
    \/ \E rules \in RuleSets : ApplyForwards(rules)
    \/ RestoreForwards \/ Persist \/ PersistFails \/ Publish \/ Crash
    \/ \E r \in Rule : KeepListener(r) \/ BindFails(r) \/ SwitchRule(r)
    \/ \E r \in Rule, f \in Listeners : CreateForward(r, f)
    \/ \E id \in Ids : CloseReplaced(id)

TCPNext ==
    \/ \E f \in Listeners, c \in Conns : Accept(f, c)
    \/ \E c \in Conns : Admit(c) \/ Dial(c) \/ Connect(c) \/ PipeEnds(c) \/ Unregister(c)

UDPNext ==
    \/ \E f \in Listeners, p \in Peers, s \in Sockets : Datagram(f, p, s)
    \/ \E s \in Sockets : ReaderEnds(s) \/ ReaderLeaves(s)

LEMMA NextKinds == Next <=> CallNext \/ TCPNext \/ UDPNext
  BY ZenonT(60) DEF Next, CallNext, TCPNext, UDPNext

\* Traffic leaves the call, the tables and the listeners alone.
LEMMA TrafficLeavesControl ==
  /\ TCPNext => UNCHANGED <<control, sessions, sock>>
  /\ UDPNext => UNCHANGED <<control, conn>>
  BY ZenonT(60) DEF TCPNext, UDPNext, Accept, Admit, Dial, Connect, PipeEnds, Unregister,
     TCPStep, Datagram, ReaderEnds, ReaderLeaves

-----------------------------------------------------------------------------
(* Types. *)

LEMMA NoTraffic == NoConn \in Conn /\ NoSock \in Sock
  BY DEF NoConn, NoSock, Conn, Sock

LEMMA TypeInit == Init => TypeOK
  <1>0. {} \in RuleSets /\ NoRule \in [Ids -> Listeners \cup {None}]
    BY DEF RuleSets, NoRule
  <1>1. Init => CallOK /\ ListenersOK
    BY <1>0 DEF Init, CallOK, ListenersOK
  <1>2. Init => TrafficOK
    BY NoTraffic DEF Init, TrafficOK, NoSession
  <1>3. QED
    BY <1>1, <1>2 DEF TypeOK

\* close, one listener, one connection and one socket at a time.
LEMMA StopEach ==
  ASSUME NEW set, Stop(set)
  PROVE  /\ life' = [f \in Listeners |-> IF f \in set THEN "stopped" ELSE life[f]]
         /\ \A c \in Conns : conn'[c] =
              IF conn[c].on \in set /\ conn[c].step \in {"dialing", "dialed"}
              THEN [conn[c] EXCEPT !.client = FALSE]
              ELSE IF conn[c].on \in set /\ conn[c].step = "piping"
              THEN [conn[c] EXCEPT !.client = FALSE, !.remote = FALSE]
              ELSE conn[c]
         /\ \A s \in Sockets : sock'[s] =
              IF \E f \in set, p \in Peers : sessions[f][p] = s
              THEN [sock[s] EXCEPT !.open = FALSE] ELSE sock[s]
         /\ sessions' = sessions
  BY ZenonT(60) DEF Stop

LEMMA StopConn ==
  ASSUME NEW set, Stop(set), NEW c \in Conns, conn[c] \in Conn
  PROVE  /\ conn'[c] \in Conn
         /\ conn'[c].on = conn[c].on /\ conn'[c].step = conn[c].step
         /\ conn'[c].client => conn[c].client
         /\ conn'[c].remote => conn[c].remote
         /\ conn[c].on \in set /\ conn[c].step \in {"dialing", "dialed", "piping"}
              => ~conn'[c].client
         /\ conn[c].on \in set /\ conn[c].step = "piping" => ~conn'[c].remote
  <1> DEFINE k == conn[c]
  <1>1. conn'[c] = IF k.on \in set /\ k.step \in {"dialing", "dialed"}
                   THEN [k EXCEPT !.client = FALSE]
                   ELSE IF k.on \in set /\ k.step = "piping"
                   THEN [k EXCEPT !.client = FALSE, !.remote = FALSE]
                   ELSE k
    BY StopEach, ZenonT(60)
  <1>2. k \in Conn
    OBVIOUS
  <1> HIDE DEF k
  <1>3. QED
    BY <1>1, <1>2, ZenonT(60) DEF Conn, k

LEMMA StopSock ==
  ASSUME NEW set, Stop(set), NEW s \in Sockets, sock[s] \in Sock
  PROVE  /\ sock'[s] \in Sock
         /\ sock'[s].on = sock[s].on
         /\ sock'[s].open => /\ sock'[s] = sock[s]
                             /\ \A f \in set, p \in Peers : sessions[f][p] # s
  <1>1. sock'[s] = IF \E f \in set, p \in Peers : sessions[f][p] = s
                   THEN [sock[s] EXCEPT !.open = FALSE] ELSE sock[s]
    BY ZenonT(60) DEF Stop
  <1>2. QED
    BY <1>1, ZenonT(60) DEF Sock

LEMMA StopType ==
  ASSUME NEW set, ListenersOK, TrafficOK, Stop(set), UNCHANGED rule
  PROVE  ListenersOK' /\ TrafficOK'
  <1>1. life' = [f \in Listeners |-> IF f \in set THEN "stopped" ELSE life[f]]
    BY StopEach, ZenonT(60)
  <1>2. ListenersOK'
    BY <1>1 DEF ListenersOK
  <1>3. ASSUME NEW c \in Conns
        PROVE  /\ [conn[c] EXCEPT !.client = FALSE] \in Conn
               /\ [conn[c] EXCEPT !.client = FALSE, !.remote = FALSE] \in Conn
    BY DEF TrafficOK, Conn
  <1>4. conn' \in [Conns -> Conn]
    BY <1>3, ZenonT(60) DEF TrafficOK, Stop
  <1>5. ASSUME NEW s \in Sockets PROVE [sock[s] EXCEPT !.open = FALSE] \in Sock
    BY ZenonT(60) DEF TrafficOK, Sock
  <1>6. sock' \in [Sockets -> Sock]
    BY <1>5, ZenonT(60) DEF TrafficOK, Stop
  <1>7. sessions' = sessions
    BY StopEach, ZenonT(60)
  <1>8. QED
    BY <1>2, <1>4, <1>6, <1>7 DEF TrafficOK

LEMMA TypeCall == TypeOK /\ CallNext => TypeOK'
  <1> SUFFICES ASSUME TypeOK, CallNext PROVE TypeOK'
    OBVIOUS
  <1> USE DEF TypeOK
  <1>1. ASSUME NEW rules \in RuleSets, ApplyForwards(rules) PROVE TypeOK'
    BY <1>1 DEF ApplyForwards, Begin, traffic, CallOK, ListenersOK, TrafficOK, NoRule
  <1>2. CASE RestoreForwards
    BY <1>2 DEF RestoreForwards, Begin, traffic, CallOK, ListenersOK, TrafficOK, NoRule
  <1>3. CASE Persist
    BY <1>3 DEF Persist, traffic, CallOK, ListenersOK, TrafficOK
  <1>4. ASSUME Abandon, Return, UNCHANGED <<file, table, restored, rule>> PROVE TypeOK'
    <2>1. CallOK'
      BY <1>4 DEF Return, CallOK, NoRule, RuleSets
    <2>2. QED
      BY <1>4, <2>1, StopType DEF Abandon
  <1>5. CASE PersistFails
    BY <1>4, <1>5, ZenonT(60) DEF PersistFails
  <1>6. CASE Publish
    BY <1>6 DEF Publish, Return, traffic, CallOK, ListenersOK, TrafficOK, NoRule, RuleSets
  <1>7. CASE Crash
    BY <1>7 DEF Crash, CallOK, ListenersOK, TrafficOK, NoRule, RuleSets, NoConn, NoSock,
       NoSession, Conn, Sock
  <1>8. ASSUME NEW r \in Rule, KeepListener(r) PROVE TypeOK'
    BY <1>8 DEF KeepListener, traffic, CallOK, ListenersOK, TrafficOK
  <1>9. ASSUME NEW r \in Rule, BindFails(r) PROVE TypeOK'
    BY <1>4, <1>9, ZenonT(60) DEF BindFails
  <1>10. ASSUME NEW r \in Rule, SwitchRule(r) PROVE TypeOK'
    <2>1. CallOK' /\ ListenersOK'
      BY <1>10 DEF SwitchRule, CallOK, ListenersOK
    <2>2. sessions' \in [Listeners -> [Peers -> Sockets \cup {None}]]
      BY <1>10 DEF SwitchRule, TrafficOK, NoSession
    <2>3. sock' \in [Sockets -> Sock]
      <3>1. ASSUME NEW s \in Sockets PROVE [sock[s] EXCEPT !.open = FALSE] \in Sock
        BY DEF TrafficOK, Sock
      <3>2. QED
        BY <1>10, <3>1, ZenonT(60) DEF SwitchRule, TrafficOK
    <2>4. QED
      BY <1>10, <2>1, <2>2, <2>3 DEF SwitchRule, TrafficOK
  <1>11. ASSUME NEW r \in Rule, NEW f \in Listeners, CreateForward(r, f) PROVE TypeOK'
    BY <1>11 DEF CreateForward, CallOK, ListenersOK, TrafficOK, NoSession
  <1>12. ASSUME NEW id \in Ids, CloseReplaced(id) PROVE TypeOK'
    <2>1. CallOK'
      BY <1>12 DEF CloseReplaced, call, CallOK
    <2>2. QED
      BY <1>12, <2>1, StopType DEF CloseReplaced
  <1>13. QED
    BY <1>1, <1>2, <1>3, <1>5, <1>6, <1>7, <1>8, <1>9, <1>10, <1>11, <1>12, ZenonT(60)
       DEF CallNext

LEMMA ControlType == CallOK /\ ListenersOK /\ UNCHANGED control => CallOK' /\ ListenersOK'
  BY DEF control, call, CallOK, ListenersOK

\* What the steps make of a connection is a connection.
LEMMA ConnUpdates ==
  ASSUME NEW k \in Conn
  PROVE  /\ [k EXCEPT !.step = "dialing"] \in Conn
         /\ [k EXCEPT !.step = "dialed", !.remote = TRUE] \in Conn
         /\ [k EXCEPT !.step = "piping"] \in Conn
         /\ [k EXCEPT !.step = "ending", !.client = FALSE, !.remote = FALSE] \in Conn
         /\ [k EXCEPT !.step = "closing"] \in Conn
         /\ [k EXCEPT !.step = "closing", !.client = FALSE] \in Conn
         /\ [k EXCEPT !.step = "closing", !.client = FALSE, !.remote = FALSE] \in Conn
  BY DEF Conn

LEMMA TypeTCP == TypeOK /\ TCPNext => TypeOK'
  <1> SUFFICES ASSUME TypeOK, TCPNext PROVE conn' \in [Conns -> Conn]
    BY ControlType, TrafficLeavesControl DEF TypeOK, TrafficOK
  <1>0. conn \in [Conns -> Conn]
    BY DEF TypeOK, TrafficOK
  <1>a. ASSUME NEW c \in Conns, NEW k \in Conn, conn' = [conn EXCEPT ![c] = k]
        PROVE  conn' \in [Conns -> Conn]
    BY <1>0, <1>a
  <1>1. ASSUME NEW f \in Listeners, NEW c \in Conns, Accept(f, c)
        PROVE  conn' \in [Conns -> Conn]
    <2>1. [NoConn EXCEPT !.step = "accepted", !.on = f, !.client = TRUE] \in Conn
      BY DEF NoConn, Conn
    <2>2. QED
      BY <1>1, <1>a, <2>1 DEF Accept
  <1>2. ASSUME NEW c \in Conns, Admit(c) PROVE conn' \in [Conns -> Conn]
    <2>1. [conn[c] EXCEPT !.step = "dialing"] \in Conn
      BY <1>0, ConnUpdates, ZenonT(60)
    <2>2. QED
      BY <1>2, <1>a, <2>1, NoTraffic DEF Admit
  <1>3. ASSUME NEW c \in Conns, Dial(c) PROVE conn' \in [Conns -> Conn]
    <2>1. /\ [conn[c] EXCEPT !.step = "dialed", !.remote = TRUE] \in Conn
          /\ [conn[c] EXCEPT !.step = "closing", !.client = FALSE] \in Conn
      BY <1>0, ConnUpdates, ZenonT(60)
    <2>2. QED
      BY <1>3, <1>a, <2>1 DEF Dial
  <1>4. ASSUME NEW c \in Conns, Connect(c) PROVE conn' \in [Conns -> Conn]
    <2>1. /\ [conn[c] EXCEPT !.step = "closing", !.client = FALSE, !.remote = FALSE] \in Conn
          /\ [conn[c] EXCEPT !.step = "piping"] \in Conn
      BY <1>0, ConnUpdates, ZenonT(60)
    <2>2. QED
      BY <1>4, <1>a, <2>1 DEF Connect
  <1>5. ASSUME NEW c \in Conns, PipeEnds(c) PROVE conn' \in [Conns -> Conn]
    <2>1. [conn[c] EXCEPT !.step = "ending", !.client = FALSE, !.remote = FALSE] \in Conn
      BY <1>0, ConnUpdates, ZenonT(60)
    <2>2. QED
      BY <1>5, <1>a, <2>1 DEF PipeEnds
  <1>6. ASSUME NEW c \in Conns, Unregister(c) PROVE conn' \in [Conns -> Conn]
    <2>1. [conn[c] EXCEPT !.step = "closing"] \in Conn
      BY <1>0, ConnUpdates, ZenonT(60)
    <2>2. QED
      BY <1>6, <1>a, <2>1, NoTraffic DEF Unregister
  <1>7. QED
    BY <1>1, <1>2, <1>3, <1>4, <1>5, <1>6, ZenonT(60) DEF TCPNext

LEMMA TypeUDP == TypeOK /\ TableInv /\ UDPNext => TypeOK'
  <1> SUFFICES ASSUME TypeOK, TableInv, UDPNext
               PROVE  /\ sessions' \in [Listeners -> [Peers -> Sockets \cup {None}]]
                      /\ sock' \in [Sockets -> Sock]
    BY ControlType, TrafficLeavesControl DEF TypeOK, TrafficOK
  <1> USE DEF TypeOK, TrafficOK, Sock, NoSock
  <1>1. ASSUME NEW f \in Listeners, NEW p \in Peers, NEW s \in Sockets, Datagram(f, p, s)
        PROVE  /\ sessions' \in [Listeners -> [Peers -> Sockets \cup {None}]]
               /\ sock' \in [Sockets -> Sock]
    <2>1. rule[f].target \in Targets
      BY <1>1 DEF Datagram, TableInv, Rule
    <2>2. QED
      BY <1>1, <2>1 DEF Datagram
  <1>2. ASSUME NEW s \in Sockets, ReaderEnds(s)
        PROVE  /\ sessions' \in [Listeners -> [Peers -> Sockets \cup {None}]]
               /\ sock' \in [Sockets -> Sock]
    <2>1. [sock[s] EXCEPT !.step = "leaving", !.open = FALSE] \in Sock
      OBVIOUS
    <2> HIDE DEF Sock
    <2>2. QED
      BY <1>2, <2>1 DEF ReaderEnds
  <1>3. ASSUME NEW s \in Sockets, ReaderLeaves(s)
        PROVE  /\ sessions' \in [Listeners -> [Peers -> Sockets \cup {None}]]
               /\ sock' \in [Sockets -> Sock]
    BY <1>3 DEF ReaderLeaves
  <1>4. QED
    BY <1>1, <1>2, <1>3, ZenonT(60) DEF UDPNext

LEMMA TypeStep == TypeOK /\ TableInv /\ [Next]_vars => TypeOK'
  <1>1. TypeOK /\ UNCHANGED vars => TypeOK'
    BY DEF vars, call, traffic, TypeOK, CallOK, ListenersOK, TrafficOK
  <1>2. QED
    BY <1>1, NextKinds, TypeCall, TypeTCP, TypeUDP

-----------------------------------------------------------------------------
(* The tables and the call. *)

LEMMA TableInit == Init => TableInv /\ ProgressInv
  BY DEF Init, TableInv, ProgressInv, NoRule, InForce

\* The listeners of either table: none twice.
LEMMA TableInjective ==
  ASSUME TypeOK, TableInv
  PROVE  /\ \A i, j \in Ids : table[i] # None /\ table[i] = table[j] => i = j
         /\ \A i, j \in Ids : next[i] # None /\ next[i] = next[j] => i = j
         /\ \A i, j \in Ids : next[i] # None /\ next[i] = table[j] => i = j
  BY DEF TableInv

\* A rule the create loop has not reached has no entry yet.
LEMMA TodoHasNoEntry ==
  ASSUME TypeOK, ProgressInv, pc = "create", NEW r \in todo
  PROVE  next[r.id] = None
  BY DEF TypeOK, CallOK, RuleSets, Rule, ProgressInv

LEMMA ControlKeeps == UNCHANGED control /\ TableInv /\ ProgressInv => TableInv' /\ ProgressInv'
  BY DEF control, call, TableInv, ProgressInv, InForce

\* Stopping listeners that neither table still needs keeps the tables.
LEMMA StopTable ==
  ASSUME NEW set, TypeOK, TableInv, Stop(set), UNCHANGED <<table, rule, next, pc>>,
         \A f \in set : f \in Listeners /\ life[f] # "free",
         \A id \in Ids : next[id] \notin set,
         \A id \in Ids : table[id] \in set => pc = "switch"
  PROVE  TableInv'
  <1>1. life' = [f \in Listeners |-> IF f \in set THEN "stopped" ELSE life[f]]
    BY StopEach, ZenonT(60)
  <1>2. QED
    BY <1>1 DEF TableInv, TypeOK, CallOK, ListenersOK

LEMMA TableCall == TypeOK /\ TableInv /\ ProgressInv /\ CallNext => TableInv'
  <1> SUFFICES ASSUME TypeOK, TableInv, ProgressInv, CallNext PROVE TableInv'
    OBVIOUS
  <1> USE ForwardAssumption
  <1>1. ASSUME NEW rules, NEW persist, Begin(rules, persist), pc \in {"off", "idle"}
        PROVE  TableInv'
    BY <1>1 DEF Begin, TableInv, ProgressInv, NoRule
  <1>2. CASE Persist
    BY <1>2 DEF Persist, TableInv, traffic
  <1>3. ASSUME pc = "create", Abandon, Return, UNCHANGED <<file, table, restored, rule>>
        PROVE  TableInv'
    <2>1. life' = [f \in Listeners |-> IF life[f] = "bound" THEN "stopped" ELSE life[f]]
      <3>1. life' = [f \in Listeners |-> IF f \in Created THEN "stopped" ELSE life[f]]
        BY <1>3, StopEach, ZenonT(60) DEF Abandon
      <3>2. QED
        BY <3>1 DEF Created
    <2>2. QED
      BY <1>3, <2>1 DEF Return, TableInv, NoRule, TypeOK, CallOK, ListenersOK
  <1>4. CASE Publish
    BY <1>4 DEF Publish, Return, TableInv, Replaced, Bound, NoRule, TypeOK, CallOK, ListenersOK
  <1>5. CASE Crash
    BY <1>5 DEF Crash, TableInv, NoRule
  <1>6. ASSUME NEW r \in Rule, KeepListener(r) PROVE TableInv'
    BY <1>6, TodoHasNoEntry DEF KeepListener, Kept, TableInv, traffic, Rule, TypeOK, CallOK
  <1>7. ASSUME NEW r \in Rule, SwitchRule(r) PROVE TableInv'
    BY <1>7, TableInjective
       DEF SwitchRule, TableInv, ProgressInv, TypeOK, CallOK, ListenersOK, Rule
  <1>8. ASSUME NEW r \in Rule, NEW f \in Listeners, CreateForward(r, f) PROVE TableInv'
    BY <1>8, TodoHasNoEntry
       DEF CreateForward, Fresh, TableInv, TypeOK, CallOK, ListenersOK, Rule
  <1>9. ASSUME NEW id \in Ids, CloseReplaced(id) PROVE TableInv'
    BY <1>9, StopTable, TableInjective
       DEF CloseReplaced, call, Replaced, Bound, TableInv, TypeOK, CallOK, ListenersOK
  <1>10. QED
    BY <1>1, <1>2, <1>3, <1>4, <1>5, <1>6, <1>7, <1>8, <1>9, ZenonT(60)
       DEF CallNext, ApplyForwards, RestoreForwards, PersistFails, BindFails

LEMMA ProgressCall == TypeOK /\ TableInv /\ ProgressInv /\ CallNext => ProgressInv'
  <1> SUFFICES ASSUME TypeOK, TableInv, ProgressInv, CallNext PROVE ProgressInv'
    OBVIOUS
  <1> USE ForwardAssumption
  <1>1. ASSUME NEW rules \in RuleSets, ApplyForwards(rules) PROVE ProgressInv'
    BY <1>1 DEF ApplyForwards, Begin, ProgressInv, NoRule, InForce
  <1>2. CASE RestoreForwards
    BY <1>2 DEF RestoreForwards, Begin, ProgressInv, NoRule, InForce
  <1>3. CASE Persist
    BY <1>3 DEF Persist, ProgressInv, TypeOK, CallOK
  <1>4. ASSUME pc = "create", Abandon, Return, UNCHANGED <<file, table, restored, rule>>
        PROVE  ProgressInv'
    <2>1. InForce' = InForce
      BY <1>4 DEF InForce
    <2>2. QED
      BY <1>4, <2>1 DEF Return, ProgressInv, NoRule
  <1>5. CASE Publish
    <2>1. InForce' = file
      <3>1. InForce' = {rule[next[id]] : id \in {i \in Ids : next[i] # None}}
        BY <1>5 DEF Publish, InForce
      <3>2. ASSUME NEW r \in file
            PROVE  r.id \in Ids /\ next[r.id] # None /\ rule[next[r.id]] = r
        BY <1>5 DEF Publish, ProgressInv, TypeOK, CallOK, RuleSets, Rule
      <3>3. ASSUME NEW id \in Ids, next[id] # None
            PROVE  rule[next[id]] \in file
        BY <1>5, <3>3 DEF Publish, ProgressInv
      <3>4. QED
        BY <3>1, <3>2, <3>3
    <2>2. QED
      BY <1>5, <2>1 DEF Publish, Return, ProgressInv, NoRule
  <1>6. CASE Crash
    BY <1>6 DEF Crash, ProgressInv, NoRule
  <1>7. ASSUME NEW r \in Rule, KeepListener(r) PROVE ProgressInv'
    BY <1>7 DEF KeepListener, Kept, ProgressInv, InForce, Rule, TypeOK, CallOK, RuleSets
  <1>8. ASSUME NEW r \in Rule, SwitchRule(r) PROVE ProgressInv'
    BY <1>8, TableInjective
       DEF SwitchRule, ProgressInv, TypeOK, CallOK, ListenersOK, Rule, RuleSets
  <1>9. ASSUME NEW r \in Rule, NEW f \in Listeners, CreateForward(r, f) PROVE ProgressInv'
    <2>1. InForce' = InForce
      BY <1>9 DEF CreateForward, InForce, Fresh, TableInv, TypeOK, CallOK, ListenersOK
    <2>2. QED
      BY <1>9, <2>1 DEF CreateForward, ProgressInv, TypeOK, CallOK, RuleSets, Rule
  <1>10. ASSUME NEW id \in Ids, CloseReplaced(id) PROVE ProgressInv'
    BY <1>10 DEF CloseReplaced, call, ProgressInv
  <1>11. QED
    BY <1>1, <1>2, <1>3, <1>4, <1>5, <1>6, <1>7, <1>8, <1>9, <1>10, ZenonT(60)
       DEF CallNext, PersistFails, BindFails

LEMMA TableStep ==
  TypeOK /\ TableInv /\ ProgressInv /\ [Next]_vars => TableInv' /\ ProgressInv'
  <1>1. UNCHANGED vars => UNCHANGED control
    BY DEF vars, control
  <1>2. QED
    BY <1>1, NextKinds, TableCall, ProgressCall, ControlKeeps, TrafficLeavesControl

-----------------------------------------------------------------------------
(* Traffic. *)

LEMMA TrafficInit == Init => ConnInv /\ SockInv
  BY DEF Init, ConnInv, ConnOK, SockInv, SockOK, NoConn, NoSock

\* A step that leaves the traffic alone and moves no listener that serves.
LEMMA ConnKeeps ==
  ASSUME TypeOK, ConnInv, UNCHANGED conn,
         \A f \in Listeners : life[f] \in {"serving", "stopped"} => life'[f] = life[f]
  PROVE  ConnInv'
  BY DEF ConnInv, ConnOK, TypeOK, TrafficOK, Conn

LEMMA SockKeeps ==
  ASSUME TypeOK, SockInv, UNCHANGED <<sock, sessions>>,
         \A f \in Listeners : life[f] \in {"serving", "stopped"} =>
            life'[f] = life[f] /\ rule'[f].target = rule[f].target
  PROVE  SockInv'
  BY DEF SockInv, SockOK, TypeOK, TrafficOK, Sock

\* close leaves nothing of its listeners open.
LEMMA StopTraffic ==
  ASSUME NEW set, TypeOK, TableInv, ConnInv, SockInv, Stop(set), UNCHANGED rule
  PROVE  ConnInv' /\ SockInv'
  <1>1. life' = [f \in Listeners |-> IF f \in set THEN "stopped" ELSE life[f]]
    BY StopEach, ZenonT(60)
  <1>2. ASSUME NEW c \in Conns PROVE ConnOK(conn[c])'
    <2>1. conn[c] \in Conn /\ ConnOK(conn[c])
      BY DEF TypeOK, TrafficOK, ConnInv
    <2>2. /\ conn'[c] \in Conn
          /\ conn'[c].on = conn[c].on /\ conn'[c].step = conn[c].step
          /\ conn'[c].client => conn[c].client
          /\ conn'[c].remote => conn[c].remote
          /\ conn[c].on \in set /\ conn[c].step \in {"dialing", "dialed", "piping"}
               => ~conn'[c].client
          /\ conn[c].on \in set /\ conn[c].step = "piping" => ~conn'[c].remote
      BY <2>1, StopConn, ZenonT(60)
    <2>3. QED
      BY <1>1, <2>1, <2>2 DEF ConnOK, Conn
  <1>3. ASSUME NEW s \in Sockets PROVE SockOK(s, sock[s])'
    <2>1. sock[s] \in Sock /\ SockOK(s, sock[s])
      BY DEF TypeOK, TrafficOK, SockInv
    <2>2. /\ sock'[s].on = sock[s].on
          /\ sock'[s].open => /\ sock'[s] = sock[s]
                              /\ \A f \in set, p \in Peers : sessions[f][p] # s
      BY <2>1, StopSock, ZenonT(60)
    <2>3. sessions' = sessions
      BY StopEach, ZenonT(60)
    <2>4. sock'[s].open => sock[s].on \notin set
      BY <2>1, <2>2 DEF SockOK
    <2>5. QED
      BY <1>1, <2>1, <2>2, <2>3, <2>4 DEF SockOK, Sock
  <1>4. QED
    BY <1>2, <1>3 DEF ConnInv, SockInv

LEMMA TrafficCall ==
  TypeOK /\ TableInv /\ ProgressInv /\ ConnInv /\ SockInv /\ CallNext => ConnInv' /\ SockInv'
  <1> SUFFICES ASSUME TypeOK, TableInv, ProgressInv, ConnInv, SockInv, CallNext
               PROVE  ConnInv' /\ SockInv'
    OBVIOUS
  <1>1. ASSUME UNCHANGED <<rule, life, traffic>> PROVE ConnInv' /\ SockInv'
    BY <1>1, ConnKeeps, SockKeeps DEF traffic
  <1>2. ASSUME NEW set, Stop(set), UNCHANGED rule PROVE ConnInv' /\ SockInv'
    BY <1>2, StopTraffic
  <1>3. CASE Publish
    BY <1>3, ConnKeeps, SockKeeps DEF Publish, traffic
  <1>4. CASE Crash
    BY <1>4 DEF Crash, ConnInv, ConnOK, SockInv, SockOK, NoConn, NoSock
  <1>5. ASSUME NEW r \in Rule, SwitchRule(r) PROVE ConnInv' /\ SockInv'
    <2> DEFINE f == next[r.id]
               moved == rule[f].target # r.target
    <2>1. ConnInv'
      BY <1>5, ConnKeeps DEF SwitchRule
    <2>2. CASE ~moved
      <3>1. \A s \in Sockets : sock'[s] = sock[s]
        BY <1>5, <2>2 DEF SwitchRule
      <3>2. sessions' = sessions /\ life' = life
        BY <1>5, <2>2 DEF SwitchRule
      <3>3. \A g \in Listeners : rule'[g].target = rule[g].target
        BY <1>5, <2>2 DEF SwitchRule, TypeOK, ListenersOK
      <3>4. QED
        BY <2>1, <3>1, <3>2, <3>3 DEF SockInv, SockOK
    <2>3. CASE moved
      <3>1. ASSUME NEW s \in Sockets PROVE SockOK(s, sock[s])'
        <4>1. sock[s] \in Sock /\ SockOK(s, sock[s])
          BY DEF TypeOK, TrafficOK, SockInv
        <4>2. sock'[s] = IF \E p \in Peers : sessions[f][p] = s
                         THEN [sock[s] EXCEPT !.open = FALSE] ELSE sock[s]
          BY <1>5, <2>3 DEF SwitchRule
        <4>3. sock'[s].on = sock[s].on
          BY <4>1, <4>2 DEF Sock
        <4>4. sock'[s].open => sock'[s] = sock[s] /\ sock[s].open
          BY <4>1, <4>2 DEF Sock
        <4>5. sock'[s].open => sock[s].on # f
          BY <4>1, <4>2, <4>4 DEF SockOK, Sock
        <4>6. ASSUME NEW g \in Listeners, g # f
              PROVE  sessions'[g] = sessions[g] /\ rule'[g] = rule[g]
          BY <1>5, <4>6 DEF SwitchRule, TypeOK, TrafficOK, ListenersOK
        <4>7. life' = life
          BY <1>5 DEF SwitchRule
        <4>8. QED
          BY <4>1, <4>3, <4>4, <4>5, <4>6, <4>7 DEF SockOK, Sock
      <3>2. QED
        BY <2>1, <3>1 DEF SockInv
    <2>4. QED
      BY <2>1, <2>2, <2>3
  <1>6. ASSUME NEW r \in Rule, NEW f \in Listeners, CreateForward(r, f) PROVE ConnInv' /\ SockInv'
    <2>1. \A c \in Conns : conn[c].on # f
      BY <1>6, ForwardAssumption DEF CreateForward, Fresh, Quiet, ConnsOf, ConnInv, ConnOK
    <2>2. \A s \in Sockets : sock[s].on # f
      BY <1>6, ForwardAssumption DEF CreateForward, Fresh, Quiet, SocksOf, SockInv, SockOK
    <2>3. \A g \in Listeners : g # f => /\ life'[g] = life[g] /\ rule'[g] = rule[g]
                                        /\ sessions'[g] = sessions[g]
      BY <1>6 DEF CreateForward, TypeOK, ListenersOK, TrafficOK
    <2>4. ConnInv' /\ SockInv'
      <3>1. conn' = conn /\ sock' = sock
        BY <1>6 DEF CreateForward
      <3>2. \A c \in Conns : conn[c].on \in Listeners \cup {None}
        BY DEF TypeOK, TrafficOK, Conn
      <3>3. \A s \in Sockets : sock[s].on \in Listeners \cup {None}
        BY DEF TypeOK, TrafficOK, Sock
      <3>4. ConnInv'
        BY <2>1, <2>3, <3>1, <3>2 DEF ConnInv, ConnOK
      <3>5. SockInv'
        BY <2>2, <2>3, <3>1, <3>3 DEF SockInv, SockOK
      <3>6. QED
        BY <3>4, <3>5
    <2>5. QED
      BY <2>4
  <1>7. QED
    BY <1>1, <1>2, <1>3, <1>4, <1>5, <1>6, ZenonT(60)
       DEF CallNext, ApplyForwards, RestoreForwards, Begin, Persist, PersistFails, Abandon,
           KeepListener, BindFails, CloseReplaced

LEMMA TrafficTCP == TypeOK /\ ConnInv /\ SockInv /\ TCPNext => ConnInv' /\ SockInv'
  <1> SUFFICES ASSUME TypeOK, ConnInv, SockInv, TCPNext PROVE ConnInv' /\ SockInv'
    OBVIOUS
  <1>0. UNCHANGED <<life, rule, sessions, sock>>
    BY TrafficLeavesControl DEF control
  <1>a. SockInv'
    BY <1>0, SockKeeps
  <1>b. ASSUME NEW c \in Conns, NEW k, conn' = [conn EXCEPT ![c] = k], ConnOK(k)
        PROVE  ConnInv'
    BY <1>0, <1>b DEF ConnInv, ConnOK, TypeOK, TrafficOK
  <1>c. ConnOK(NoConn)
    BY DEF ConnOK, NoConn
  <1>d. \A c \in Conns : conn[c] \in Conn /\ ConnOK(conn[c])
    BY DEF TypeOK, TrafficOK, ConnInv
  <1>1. ASSUME NEW f \in Listeners, NEW c \in Conns, Accept(f, c) PROVE ConnInv'
    <2>1. ConnOK([NoConn EXCEPT !.step = "accepted", !.on = f, !.client = TRUE])
      BY <1>1 DEF Accept, ConnOK, NoConn
    <2>2. QED
      BY <1>1, <1>b, <2>1 DEF Accept
  <1>2. ASSUME NEW c \in Conns, Admit(c) PROVE ConnInv'
    <2>1. CASE life[conn[c].on] = "stopped" \/ Registered(conn[c].on) >= MaxConnections
      BY <1>2, <1>b, <1>c, <2>1 DEF Admit
    <2>2. CASE life[conn[c].on] # "stopped" /\ ~(Registered(conn[c].on) >= MaxConnections)
      <3>1. conn' = [conn EXCEPT ![c] = [conn[c] EXCEPT !.step = "dialing"]]
        BY <1>2, <2>2 DEF Admit
      <3>2. ConnOK([conn[c] EXCEPT !.step = "dialing"])
        BY <1>2, <1>d, <2>2 DEF Admit, ConnOK, Conn
      <3>3. QED
        BY <1>b, <3>1, <3>2
    <2>3. QED
      BY <2>1, <2>2
  <1>3. ASSUME NEW c \in Conns, Dial(c) PROVE ConnInv'
    <2>1. conn[c] \in Conn /\ ConnOK(conn[c]) /\ conn[c].step = "dialing"
      BY <1>3, <1>d DEF Dial
    <2>2. /\ ConnOK([conn[c] EXCEPT !.step = "dialed", !.remote = TRUE])
          /\ ConnOK([conn[c] EXCEPT !.step = "closing", !.client = FALSE])
      BY <2>1 DEF ConnOK, Conn
    <2>3. QED
      BY <1>3, <1>b, <2>2 DEF Dial
  <1>4. ASSUME NEW c \in Conns, Connect(c) PROVE ConnInv'
    <2>1. conn[c] \in Conn /\ ConnOK(conn[c]) /\ conn[c].step = "dialed"
      BY <1>4, <1>d DEF Connect
    <2>2. ConnOK([conn[c] EXCEPT !.step = "closing", !.client = FALSE, !.remote = FALSE])
      BY <2>1 DEF ConnOK, Conn
    <2>3. life[conn[c].on] # "stopped" => ConnOK([conn[c] EXCEPT !.step = "piping"])
      BY <2>1 DEF ConnOK, Conn
    <2>4. QED
      BY <1>4, <1>b, <2>2, <2>3 DEF Connect
  <1>5. ASSUME NEW c \in Conns, PipeEnds(c) PROVE ConnInv'
    <2>1. ConnOK([conn[c] EXCEPT !.step = "ending", !.client = FALSE, !.remote = FALSE])
      BY <1>d DEF ConnOK, Conn
    <2>2. QED
      BY <1>5, <1>b, <2>1 DEF PipeEnds
  <1>6. ASSUME NEW c \in Conns, Unregister(c) PROVE ConnInv'
    <2>1. ConnOK([conn[c] EXCEPT !.step = "closing"])
      BY <1>d DEF ConnOK, Conn
    <2>2. QED
      BY <1>6, <1>b, <1>c, <2>1 DEF Unregister
  <1>7. QED
    BY <1>a, <1>1, <1>2, <1>3, <1>4, <1>5, <1>6, ZenonT(60) DEF TCPNext

LEMMA TrafficUDP == TypeOK /\ ConnInv /\ SockInv /\ UDPNext => ConnInv' /\ SockInv'
  <1> SUFFICES ASSUME TypeOK, ConnInv, SockInv, UDPNext PROVE ConnInv' /\ SockInv'
    OBVIOUS
  <1>0. UNCHANGED <<life, rule, conn>>
    BY TrafficLeavesControl DEF control
  <1>a. ConnInv'
    BY <1>0, ConnKeeps
  <1> USE ForwardAssumption DEF SockInv, SockOK, TypeOK, TrafficOK, Sock, NoSock
  <1>1. ASSUME NEW f \in Listeners, NEW p \in Peers, NEW s \in Sockets, Datagram(f, p, s)
        PROVE  SockInv'
    BY <1>0, <1>1 DEF Datagram
  <1>2. ASSUME NEW s \in Sockets, ReaderEnds(s) PROVE SockInv'
    BY <1>0, <1>2 DEF ReaderEnds
  <1>3. ASSUME NEW s \in Sockets, ReaderLeaves(s) PROVE SockInv'
    BY <1>0, <1>3 DEF ReaderLeaves
  <1>4. QED
    BY <1>a, <1>1, <1>2, <1>3, ZenonT(60) DEF UDPNext

LEMMA TrafficStep ==
  TypeOK /\ TableInv /\ ProgressInv /\ ConnInv /\ SockInv /\ [Next]_vars => ConnInv' /\ SockInv'
  <1>1. TypeOK /\ ConnInv /\ SockInv /\ UNCHANGED vars => ConnInv' /\ SockInv'
    BY ConnKeeps, SockKeeps DEF vars, traffic
  <1>2. QED
    BY <1>1, NextKinds, TrafficCall, TrafficTCP, TrafficUDP

-----------------------------------------------------------------------------
(* The limits. *)

LEMMA LimitInit == Init => LimitInv
  <1> SUFFICES ASSUME Init, NEW f \in Listeners PROVE Clients(f) = {} /\ Open(f) = {}
    BY FS_EmptySet, ForwardAssumption DEF LimitInv
  <1>1. Clients(f) = {}
    BY ForwardAssumption DEF Init, Clients, ConnsOf, NoConn
  <1>2. Open(f) = {}
    BY DEF Init, Open, NoSession
  <1>3. QED
    BY <1>1, <1>2

\* Fewer clients and sessions are within the limits too.
LEMMA Fewer ==
  ASSUME NEW S, NEW T \in SUBSET S, NEW n \in Nat, IsFiniteSet(S), Cardinality(S) <= n
  PROVE  IsFiniteSet(T) /\ Cardinality(T) <= n
  <1>1. IsFiniteSet(T) /\ Cardinality(T) <= Cardinality(S)
    BY FS_Subset
  <1>2. Cardinality(S) \in Nat /\ Cardinality(T) \in Nat
    BY <1>1, FS_CardinalityType
  <1>3. QED
    BY <1>1, <1>2

\* One more is within a limit that was not reached.
LEMMA OneMore ==
  ASSUME NEW S, NEW x, NEW n \in Nat, IsFiniteSet(S), Cardinality(S) < n
  PROVE  IsFiniteSet(S \cup {x}) /\ Cardinality(S \cup {x}) <= n
  <1>1. Cardinality(S) \in Nat
    BY FS_CardinalityType
  <1>2. /\ IsFiniteSet(S \cup {x})
        /\ Cardinality(S \cup {x}) = IF x \in S THEN Cardinality(S) ELSE Cardinality(S) + 1
    BY FS_AddElement, Zenon
  <1>3. QED
    BY <1>1, <1>2

LEMMA LimitShrinks ==
  ASSUME LimitInv,
         \A f \in Listeners : Clients(f)' \subseteq Clients(f) /\ Open(f)' \subseteq Open(f)
  PROVE  LimitInv'
  <1> SUFFICES ASSUME NEW f \in Listeners
               PROVE  /\ IsFiniteSet(Clients(f)') /\ Cardinality(Clients(f)') <= MaxConnections
                      /\ IsFiniteSet(Open(f)') /\ Cardinality(Open(f)') <= MaxSessions
    BY DEF LimitInv
  <1>1. /\ IsFiniteSet(Clients(f)) /\ Cardinality(Clients(f)) <= MaxConnections
        /\ IsFiniteSet(Open(f)) /\ Cardinality(Open(f)) <= MaxSessions
        /\ MaxConnections \in Nat /\ MaxSessions \in Nat
    BY ForwardAssumption DEF LimitInv
  <1>2. IsFiniteSet(Clients(f)') /\ Cardinality(Clients(f)') <= MaxConnections
    BY <1>1, Fewer, Zenon
  <1>3. IsFiniteSet(Open(f)') /\ Cardinality(Open(f)') <= MaxSessions
    BY <1>1, Fewer, Zenon
  <1>4. QED
    BY <1>2, <1>3

\* A call admits nobody.
LEMMA LimitCall == TypeOK /\ LimitInv /\ CallNext => LimitInv'
  <1> SUFFICES ASSUME TypeOK, LimitInv, CallNext,
                      NEW f \in Listeners
               PROVE  Clients(f)' \subseteq Clients(f) /\ Open(f)' \subseteq Open(f)
    BY LimitShrinks
  <1> DEFINE Shrinks == Clients(f)' \subseteq Clients(f) /\ Open(f)' \subseteq Open(f)
  <1>1. ASSUME UNCHANGED traffic PROVE Shrinks
    BY <1>1 DEF traffic, Clients, ConnsOf, Open
  <1>2. ASSUME NEW set, Stop(set) PROVE Shrinks
    <2>1. \A c \in Conns : conn'[c].on = conn[c].on /\ conn'[c].step = conn[c].step
      BY <1>2, StopConn, ZenonT(60) DEF TypeOK, TrafficOK
    <2>2. sessions' = sessions
      BY <1>2, StopEach, ZenonT(60)
    <2>3. QED
      BY <2>1, <2>2 DEF Clients, ConnsOf, Open
  <1>3. ASSUME Crash PROVE Shrinks
    <2>1. Clients(f)' = {}
      BY <1>3, ForwardAssumption DEF Crash, Clients, ConnsOf, NoConn
    <2>2. Open(f)' = {}
      BY <1>3 DEF Crash, Open, NoSession
    <2>3. QED
      BY <2>1, <2>2
  <1>4. ASSUME NEW r \in Rule, SwitchRule(r) PROVE Shrinks
    <2>1. Clients(f)' = Clients(f)
      BY <1>4 DEF SwitchRule, Clients, ConnsOf
    <2>2. \A p \in Peers : sessions'[f][p] = sessions[f][p] \/ sessions'[f][p] = None
      BY <1>4 DEF SwitchRule, NoSession, TypeOK, TrafficOK
    <2>3. QED
      BY <2>1, <2>2 DEF Open
  <1>5. ASSUME NEW r \in Rule, NEW g \in Listeners, CreateForward(r, g) PROVE Shrinks
    <2>1. Clients(f)' = Clients(f)
      BY <1>5 DEF CreateForward, Clients, ConnsOf
    <2>2. \A p \in Peers : sessions'[f][p] = sessions[f][p] \/ sessions'[f][p] = None
      BY <1>5 DEF CreateForward, NoSession, TypeOK, TrafficOK
    <2>3. QED
      BY <2>1, <2>2 DEF Open
  <1> HIDE DEF Shrinks
  <1>6. Shrinks
    BY <1>1, <1>2, <1>3, <1>4, <1>5, ZenonT(60)
       DEF CallNext, ApplyForwards, RestoreForwards, Begin, Persist, PersistFails, Abandon,
           Publish, KeepListener, BindFails, CloseReplaced
  <1>7. QED
    BY <1>6 DEF Shrinks

\* Only Admit adds a client, to a listener with room for it.
LEMMA LimitTCP == TypeOK /\ LimitInv /\ TCPNext => LimitInv'
  <1> SUFFICES ASSUME TypeOK, LimitInv, TCPNext PROVE LimitInv'
    OBVIOUS
  <1>0. \A f \in Listeners : Open(f)' = Open(f)
    BY TrafficLeavesControl DEF Open
  <1>a. ASSUME NEW c \in Conns, NEW k, conn' = [conn EXCEPT ![c] = k],
               k.on = None \/ k.step = "accepted"
                 \/ (k.on = conn[c].on /\ conn[c].step # "accepted")
        PROVE  LimitInv'
    <2>1. \A f \in Listeners : Clients(f)' \subseteq Clients(f)
      BY <1>a, ForwardAssumption DEF Clients, ConnsOf, TypeOK, TrafficOK
    <2>2. QED
      BY <1>0, <2>1, LimitShrinks
  <1>b. \A c \in Conns : conn[c] \in Conn
    BY DEF TypeOK, TrafficOK
  <1>1. ASSUME NEW f \in Listeners, NEW c \in Conns, Accept(f, c) PROVE LimitInv'
    <2>1. [NoConn EXCEPT !.step = "accepted", !.on = f, !.client = TRUE].step = "accepted"
      BY DEF NoConn
    <2>2. QED
      BY <1>1, <1>a, <2>1 DEF Accept
  <1>2. ASSUME NEW c \in Conns, Admit(c) PROVE LimitInv'
    <2>0. PICK g \in Listeners \cup {None} : g = conn[c].on
      BY <1>b DEF Conn
    <2>1. CASE conn' = [conn EXCEPT ![c] = NoConn]
      <3>1. NoConn.on = None
        BY DEF NoConn
      <3>2. QED
        BY <1>a, <2>1, <3>1
    <2>2. CASE /\ ~(Registered(g) >= MaxConnections)
               /\ conn' = [conn EXCEPT ![c] = [conn[c] EXCEPT !.step = "dialing"]]
      <3>1. ASSUME NEW f \in Listeners, f # g
            PROVE  Clients(f)' \subseteq Clients(f)
        BY <1>b, <2>0, <2>2, <3>1 DEF Clients, ConnsOf, Conn
      <3>2. ASSUME g \in Listeners
            PROVE  IsFiniteSet(Clients(g)') /\ Cardinality(Clients(g)') <= MaxConnections
        <4>1. Clients(g)' = Clients(g) \cup {c}
          BY <1>2, <1>b, <2>0, <2>2 DEF Admit, Clients, ConnsOf, Conn, TypeOK, TrafficOK
        <4>2. IsFiniteSet(Clients(g)) /\ MaxConnections \in Nat
          BY <3>2, ForwardAssumption DEF LimitInv
        <4>3. Cardinality(Clients(g)) \in Nat
          BY <4>2, FS_CardinalityType
        <4>4. Cardinality({d \in ConnsOf(g) : conn[d].step \in {"piping", "ending"}}) \in Nat
          <5>1. {d \in ConnsOf(g) : conn[d].step \in {"piping", "ending"}} \subseteq Clients(g)
            BY DEF Clients
          <5>2. QED
            BY <4>2, <5>1, FS_Subset, FS_CardinalityType
        <4>5. Cardinality(Clients(g)) < MaxConnections
          BY <2>2, <4>2, <4>3, <4>4 DEF Registered, Clients
        <4>6. QED
          BY <4>1, <4>2, <4>5, OneMore, Zenon
      <3>3. ASSUME NEW f \in Listeners, f # g
            PROVE  IsFiniteSet(Clients(f)') /\ Cardinality(Clients(f)') <= MaxConnections
        <4>1. /\ IsFiniteSet(Clients(f)) /\ Cardinality(Clients(f)) <= MaxConnections
              /\ MaxConnections \in Nat
          BY ForwardAssumption DEF LimitInv
        <4>2. Clients(f)' \in SUBSET Clients(f)
          BY <3>1, <3>3
        <4>3. QED
          BY <4>1, <4>2, Fewer, Zenon
      <3>4. ASSUME NEW f \in Listeners
            PROVE  IsFiniteSet(Clients(f)') /\ Cardinality(Clients(f)') <= MaxConnections
        <4>1. CASE f = g
          BY <3>2, <4>1, Zenon
        <4>2. CASE f # g
          BY <3>3, <4>2, Zenon
        <4>3. QED
          BY <4>1, <4>2, Zenon
      <3>5. ASSUME NEW f \in Listeners
            PROVE  IsFiniteSet(Open(f)') /\ Cardinality(Open(f)') <= MaxSessions
        BY <1>0, Zenon DEF LimitInv
      <3>6. QED
        BY <3>4, <3>5, Zenon DEF LimitInv
    <2>3. QED
      BY <1>2, <2>0, <2>1, <2>2 DEF Admit
  <1>3. ASSUME NEW c \in Conns, Dial(c) PROVE LimitInv'
    <2>1. /\ [conn[c] EXCEPT !.step = "dialed", !.remote = TRUE].on = conn[c].on
          /\ [conn[c] EXCEPT !.step = "closing", !.client = FALSE].on = conn[c].on
          /\ conn[c].step # "accepted"
      BY <1>3, <1>b DEF Dial, Conn
    <2>2. QED
      BY <1>3, <1>a, <2>1 DEF Dial
  <1>4. ASSUME NEW c \in Conns, Connect(c) PROVE LimitInv'
    <2>1. /\ [conn[c] EXCEPT !.step = "closing", !.client = FALSE, !.remote = FALSE].on = conn[c].on
          /\ [conn[c] EXCEPT !.step = "piping"].on = conn[c].on
          /\ conn[c].step # "accepted"
      BY <1>4, <1>b DEF Connect, Conn
    <2>2. QED
      BY <1>4, <1>a, <2>1 DEF Connect
  <1>5. ASSUME NEW c \in Conns, PipeEnds(c) PROVE LimitInv'
    <2>1. /\ [conn[c] EXCEPT !.step = "ending", !.client = FALSE, !.remote = FALSE].on = conn[c].on
          /\ conn[c].step # "accepted"
      BY <1>5, <1>b DEF PipeEnds, Conn
    <2>2. QED
      BY <1>5, <1>a, <2>1 DEF PipeEnds
  <1>6. ASSUME NEW c \in Conns, Unregister(c) PROVE LimitInv'
    <2>1. /\ [conn[c] EXCEPT !.step = "closing"].on = conn[c].on
          /\ conn[c].step # "accepted"
          /\ NoConn.on = None
      BY <1>6, <1>b DEF Unregister, Conn, NoConn
    <2>2. QED
      BY <1>6, <1>a, <2>1 DEF Unregister
  <1>7. QED
    BY <1>1, <1>2, <1>3, <1>4, <1>5, <1>6, ZenonT(60) DEF TCPNext

\* Only a datagram of a new peer adds a session, where there is room for it.
LEMMA LimitUDP == TypeOK /\ LimitInv /\ UDPNext => LimitInv'
  <1> SUFFICES ASSUME TypeOK, LimitInv, UDPNext PROVE LimitInv'
    OBVIOUS
  <1>0. \A f \in Listeners : Clients(f)' = Clients(f)
    BY TrafficLeavesControl DEF Clients, ConnsOf
  <1>1. ASSUME NEW f \in Listeners, NEW p \in Peers, NEW s \in Sockets, Datagram(f, p, s)
        PROVE  LimitInv'
    <2>1. \A g \in Listeners : g # f => Open(g)' = Open(g)
      BY <1>1 DEF Datagram, Open, TypeOK, TrafficOK
    <2>2. Open(f)' = Open(f) \cup {p}
      BY <1>1, ForwardAssumption DEF Datagram, Open, TypeOK, TrafficOK
    <2>3. IsFiniteSet(Open(f)) /\ MaxSessions \in Nat /\ Cardinality(Open(f)) < MaxSessions
      BY <1>1, ForwardAssumption DEF LimitInv, Datagram
    <2>4. IsFiniteSet(Open(f) \cup {p}) /\ Cardinality(Open(f) \cup {p}) <= MaxSessions
      BY <2>3, OneMore, Zenon
    <2>5. QED
      BY <1>0, <2>1, <2>2, <2>4 DEF LimitInv
  <1>2. ASSUME NEW s \in Sockets, ReaderEnds(s) PROVE LimitInv'
    BY <1>0, <1>2, LimitShrinks DEF ReaderEnds, Open
  <1>3. ASSUME NEW s \in Sockets, ReaderLeaves(s) PROVE LimitInv'
    <2>1. \A f \in Listeners, p \in Peers :
            sessions'[f][p] = sessions[f][p] \/ sessions'[f][p] = None
      BY <1>3 DEF ReaderLeaves, TypeOK, TrafficOK
    <2>2. \A f \in Listeners : Open(f)' \subseteq Open(f)
      BY <2>1 DEF Open
    <2>3. QED
      BY <1>0, <2>2, LimitShrinks
  <1>4. QED
    BY <1>1, <1>2, <1>3, ZenonT(60) DEF UDPNext

LEMMA LimitStep == TypeOK /\ LimitInv /\ [Next]_vars => LimitInv'
  <1>1. LimitInv /\ UNCHANGED vars => LimitInv'
    BY DEF LimitInv, vars, traffic, Clients, ConnsOf, Open
  <1>2. QED
    BY <1>1, NextKinds, LimitCall, LimitTCP, LimitUDP

-----------------------------------------------------------------------------
(* The theorems. *)

LEMMA Invariance == Spec => []Inv
  <1>1. Init => Inv
    BY TypeInit, TableInit, TrafficInit, LimitInit DEF Inv
  <1>2. Inv /\ [Next]_vars => Inv'
    BY TypeStep, TableStep, TrafficStep, LimitStep DEF Inv
  <1>3. QED
    BY <1>1, <1>2, PTL DEF Spec

\* A call of apply disturbs no listener before it has saved its rules, and when
\* it is over the saved rules are the ones in force and no other port is held.
THEOREM ForwardsServed == Spec => []Served
  <1>1. Inv => Served
    <2> SUFFICES ASSUME Inv PROVE Served
      OBVIOUS
    <2>1. pc \in {"idle", "create"} => InForce = IF restored THEN file ELSE {}
      BY DEF Inv, ProgressInv
    <2>2. pc \in {"idle", "create"} => \A id \in Ids : table[id] # None => life[table[id]] = "serving"
      BY DEF Inv, TableInv
    <2>3. pc = "idle" => \A f \in Listeners : Bound(f) => \E id \in Ids : table[id] = f
      BY ForwardAssumption DEF Inv, TableInv, ProgressInv, Bound, NoRule
    <2>4. QED
      BY <2>1, <2>2, <2>3 DEF Served
  <1>2. QED
    BY <1>1, Invariance, PTL

\* Nothing of a closed listener carries traffic, what was being dialled or
\* registered when close ran included.
THEOREM ClosedCarriesNothing == Spec => []StoppedCarriesNothing
  <1>1. Inv => StoppedCarriesNothing
    BY ForwardAssumption
       DEF Inv, ConnInv, ConnOK, SockInv, SockOK, StoppedCarriesNothing, ConnsOf, SocksOf
  <1>2. QED
    BY <1>1, Invariance, PTL

\* Every open session is one that close, or a change of the target, would find.
THEOREM SessionsFound == Spec => []SessionsTracked
  <1>1. Inv => SessionsTracked
    BY DEF Inv, SockInv, SockOK, SessionsTracked
  <1>2. QED
    BY <1>1, Invariance, PTL

\* The two limits hold whatever is being admitted, dialled or closed.
THEOREM WithinLimits == Spec => []Bounded
  <1>1. Inv => Bounded
    BY DEF Inv, LimitInv, Bounded, Clients
  <1>2. QED
    BY <1>1, Invariance, PTL

=============================================================================
