------------------------------ MODULE Control -------------------------------
(***************************************************************************)
(* Command delivery between the controller and the agent:                  *)
(* internal/control/client.go, stream.go and transports.go.  The agent     *)
(* opens a WebSocket (an initial report, then the negotiated stream),      *)
(* polls, or listens for direct requests; in mode auto it does all three,  *)
(* a WebSocket first and a window for the others when that has failed.  It *)
(* executes commands one at a time (commandMu), keeps every result of a    *)
(* stream or poll until the controller has acknowledged it, and returns    *)
(* that of a direct request in the response alone.  The stream's           *)
(* goroutines are the network loop (Stream...), the command worker (Take,  *)
(* Execute, Append, Release) and the reader, which is the head of the      *)
(* channel from the controller.  A direct handler may outlive its listener *)
(* and its connection.                                                     *)
(*                                                                         *)
(* The controller is not part of this repository: it is modelled by what   *)
(* the agent relies on.  It records every result it receives, acknowledges *)
(* it, and sends a command again on a new connection while it has no       *)
(* result for it.  Channels are in order and are lost with the connection. *)
(***************************************************************************)
EXTENDS Naturals, Sequences, FiniteSets, Functions

CONSTANTS
    Cmds,       \* command identifiers
    NoCmd,      \* no command
    MaxBatch,   \* results that fit into one report or update
    SeenMax,    \* executed commands remembered (2048 in the code)
    MaxFaults   \* bound on lost connections and on mode changes wanted or refused

ASSUME ControlAssumption ==
    /\ NoCmd \notin Cmds /\ IsFiniteSet(Cmds)
    /\ MaxBatch \in Nat \ {0} /\ SeenMax \in Nat \ {0} /\ MaxFaults \in Nat

VARIABLES
    mode,         \* Client.cfg.ConnectionMode
    session,      \* the mode Run or the loop it called began with
    results,      \* Client.results
    sentCount,    \* Client.sentCount
    order,        \* Client.order; Client.seen has the same identifiers
    net,          \* where Run stands in its connection
    queue,        \* the commands channel, capacity one batch
    batch, cur,   \* the worker's batch, and the command in its hands
    phase,        \* what the worker does next with cur
    active,       \* commands queued or executing on this stream
    wake,         \* the ready channel holds a signal
    inFlight,     \* resultsInFlight
    asked,        \* mode of the reply whose handling is finishing
    listening,    \* the direct listener accepts requests
    hcur, hmode,  \* a direct request: its command (NoCmd: agent.report), its mode
    hphase,       \* what its handler does next
    open,         \* the request's connection is still there
    recent,       \* lastDirect is less than 15 s ago
    toCtrl, toAgent,      \* messages in transit
    want, has, pushed,    \* controller: desired mode, results, commands sent
    runs, forgotten,      \* history: executions; commands evicted from seen
    dropped,              \* history: commands whose direct response was lost
    faults                \* connection losses and refusals so far

client == <<mode, results, sentCount, order>>
direct == <<listening, hcur, hmode, hphase, open, recent>>
worker == <<queue, batch, cur, phase>>
stream == <<active, wake, inFlight, asked>>
channels == <<toCtrl, toAgent>>
controller == <<want, has, pushed>>
history == <<runs, forgotten, dropped>>
vars == <<client, session, net, worker, direct, stream, channels, controller, history, faults>>

Modes == {"websocket", "pull", "http", "auto"}
\* resultBatchLocked: the prefix of the results that fits into a packet.
ResultBatch(pending) ==
    SubSeq(pending, 1, IF Len(pending) < MaxBatch THEN Len(pending) ELSE MaxBatch)

Init ==
    /\ mode \in Modes /\ results = <<>> /\ sentCount = 0 /\ order = <<>>
    /\ net = "down" /\ session = mode
    /\ listening = FALSE /\ hcur = NoCmd /\ hmode = mode /\ hphase = "idle"
    /\ open = FALSE /\ recent = FALSE
    /\ queue = {} /\ batch = {} /\ cur = NoCmd /\ phase = "idle"
    /\ active = 0 /\ wake = FALSE /\ inFlight = FALSE /\ asked = mode
    /\ toCtrl = <<>> /\ toAgent = <<>>
    /\ want = mode /\ has = {} /\ pushed = {}
    /\ runs = [c \in Cmds |-> 0] /\ forgotten = {} /\ dropped = {}
    /\ faults = 0

-----------------------------------------------------------------------------
(* Reports and their replies: webSocket, pull, acknowledge, accept. *)

\* report: remember how many results it carries.
Report ==
    /\ sentCount' = Len(ResultBatch(results))
    /\ toCtrl' = <<[kind |-> "report", ids |-> Range(ResultBatch(results))]>>
    /\ toAgent' = <<>> /\ pushed' = {}
    /\ UNCHANGED <<mode, results, order, worker, stream, direct, want, has, history, faults>>

\* Run calls webSocket, whose report offers the stream ...
Dial ==
    /\ net = "down" /\ mode \in {"websocket", "auto"}
    /\ net' = "hello" /\ session' = mode
    /\ Report

\* ... or pullLoop, which in the fallback window waits while the controller
\* uses direct requests.  The exchange holds exchangeMu.
Pull ==
    /\ \/ net = "down" /\ mode = "pull"
       \/ net = "window" /\ listening /\ mode = session /\ ~recent
    /\ hphase # "reply"
    /\ net' = "pull" /\ session' = mode
    /\ Report

\* Where Run goes on after an exchange of pullLoop, and after a WebSocket.
AfterPull == IF session = "auto" THEN "window" ELSE "down"
AfterStream == IF session = "auto" /\ mode = "auto" THEN "window" ELSE "down"

\* Mutant: the reply is taken to cover everything that is pending.
UnreportedNone == <<>>

\* acknowledge: the reply covers exactly the results of the last report.
Unreported == IF sentCount <= Len(results)
              THEN SubSeq(results, sentCount + 1, Len(results)) ELSE results

\* setConnectionLocked persists the mode or refuses it.
SetMode(m) == mode' = m /\ UNCHANGED faults
RefuseMode(m) ==
    m # mode /\ faults < MaxFaults /\ faults' = faults + 1 /\ UNCHANGED mode

\* The mode an acknowledged reply leaves: unchanged while results are pending.
Adopt(m, pending) ==
    IF pending = <<>> THEN SetMode(m) ELSE UNCHANGED <<mode, faults>>

\* Open the stream after its first reply: queue its commands and send what
\* the first report left out (lines 37-42, 164, 211).
StreamFirst ==
    LET reply == Head(toAgent) IN
    /\ net = "hello" /\ toAgent # <<>>
    /\ results' = Unreported /\ sentCount' = 0
    /\ toAgent' = Tail(toAgent)
    /\ \/ /\ results' = <<>> /\ RefuseMode(reply.mode)
          /\ net' = "closing" /\ UNCHANGED <<toCtrl, queue, active, inFlight>>
       \/ /\ Adopt(reply.mode, results') /\ mode' # session
          /\ net' = "closing" /\ UNCHANGED <<toCtrl, queue, active, inFlight>>
       \/ /\ Adopt(reply.mode, results') /\ mode' = session
          /\ net' = "stream"
          /\ queue' = reply.cmds /\ active' = Cardinality(reply.cmds)
          /\ inFlight' = (results' # <<>>)
          /\ toCtrl' = IF results' = <<>> THEN toCtrl
                       ELSE Append(toCtrl, [kind |-> "results", ids |-> Range(ResultBatch(results'))])
    /\ wake' = FALSE
    /\ UNCHANGED <<order, session, batch, cur, phase, asked, direct, controller, history>>

\* accept: a poll's reply is acknowledged, then its commands are executed.
PullReply ==
    LET reply == Head(toAgent) IN
    /\ net = "pull" /\ toAgent # <<>>
    /\ results' = Unreported /\ sentCount' = 0
    /\ toAgent' = Tail(toAgent)
    /\ \/ /\ results' = <<>> /\ RefuseMode(reply.mode)
          /\ net' = AfterPull /\ UNCHANGED batch
       \/ /\ Adopt(reply.mode, results')
          /\ net' = "accept" /\ batch' = reply.cmds
    /\ UNCHANGED <<order, session, queue, cur, phase, stream, direct, toCtrl, controller, history>>

PullDone ==
    /\ net = "accept" /\ batch = {} /\ cur = NoCmd
    /\ net' = AfterPull
    /\ UNCHANGED <<client, session, worker, stream, direct, channels, controller, history, faults>>

-----------------------------------------------------------------------------
(* The command worker. *)

Take ==
    /\ net \in {"stream", "settle"} /\ queue # {} /\ batch = {} /\ cur = NoCmd
    /\ batch' = queue /\ queue' = {}
    /\ UNCHANGED <<client, session, net, cur, phase, stream, direct, channels, controller, history, faults>>

\* execute: a remembered command is answered from seen, any other is run and
\* remembered, and the oldest are evicted.  NoCmd stands for an agent.report,
\* which is remembered under an identifier of its own.
Remember(c) ==
    LET all == Append(order, c) IN
    IF Len(all) > SeenMax THEN Tail(all) ELSE all

Perform(c) ==
    IF c \in Range(order)
    THEN UNCHANGED <<order, history>>
    ELSE /\ runs' = [runs EXCEPT ![c] = @ + 1]
         /\ order' = Remember(c)
         /\ forgotten' = forgotten \cup ((Range(order) \ Range(order')) \ {NoCmd})
         /\ UNCHANGED dropped

Execute(c) ==
    /\ net \in {"stream", "settle", "accept"} /\ cur = NoCmd /\ c \in batch
    /\ cur' = c /\ batch' = batch \ {c} /\ phase' = "append"
    /\ Perform(c)
    /\ UNCHANGED <<mode, results, sentCount, session, net, queue, stream, direct, channels, controller, faults>>

\* Mutant: the worker counts a command as finished before its result is kept.
AppendAfterRelease ==
    /\ phase = "append"
    /\ phase' = "release" /\ active' = IF active > 0 THEN active - 1 ELSE 0
    /\ UNCHANGED <<client, session, net, direct, queue, batch, cur, wake, inFlight, asked, channels, controller, history, faults>>

\* The result joins the pending ones under Client.mu ...
AppendResult ==
    /\ phase = "append"
    /\ results' = Append(results, cur) /\ phase' = "release"
    /\ UNCHANGED <<mode, sentCount, order, session, net, queue, batch, cur, stream, direct, channels, controller, history, faults>>

\* ... and only then the command stops counting as active; the network loop
\* is woken.  A poll has no counter.
Release ==
    /\ phase = "release"
    /\ cur' = NoCmd /\ phase' = "idle"
    /\ IF net = "accept" THEN UNCHANGED <<active, wake>>
                         ELSE active' = active - 1 /\ wake' = TRUE
    /\ UNCHANGED <<client, session, net, direct, queue, batch, inFlight, asked, channels, controller, history, faults>>

-----------------------------------------------------------------------------
(* The network loop of a stream. *)

\* sendResults, with pending the results it reads: one update in flight.
SendResults(pending, busy) ==
    IF busy \/ pending = <<>>
    THEN inFlight' = busy /\ UNCHANGED toCtrl
    ELSE /\ inFlight' = TRUE
         /\ toCtrl' = Append(toCtrl, [kind |-> "results", ids |-> Range(ResultBatch(pending))])

StreamReady ==
    /\ net = "stream" /\ wake
    /\ wake' = FALSE
    /\ SendResults(results, inFlight)
    /\ UNCHANGED <<client, session, net, worker, active, asked, direct, toAgent, controller, history, faults>>

\* acknowledgeResults keeps the results the reply does not name.
Kept(acks) ==
    LET remaining[n \in 0..Len(results)] ==
          IF n = 0 THEN <<>>
          ELSE IF results[n] \in acks THEN remaining[n - 1]
          ELSE Append(remaining[n - 1], results[n])
    IN  remaining[Len(results)]

\* Mutant: the acknowledgement does not let the next results go out.
StreamReplyStalls ==
    LET reply == Head(toAgent) IN
    /\ net = "stream" /\ toAgent # <<>>
    /\ toAgent' = Tail(toAgent)
    /\ results' = Kept(reply.acks)
    /\ active' = active + Cardinality(reply.cmds)
    /\ IF reply.cmds # {} /\ queue # {}
       THEN net' = "closing" /\ UNCHANGED <<queue, asked>>
       ELSE /\ net' = "settle" /\ asked' = reply.mode
            /\ queue' = IF reply.cmds # {} THEN reply.cmds ELSE queue
    /\ UNCHANGED <<mode, sentCount, order, session, batch, cur, phase, wake, inFlight, direct, toCtrl, controller, history, faults>>

\* A reply: drop what it acknowledges, queue its commands (a second waiting
\* batch ends the connection), send the next results (lines 259-290).
StreamReply ==
    LET reply == Head(toAgent)
        busy == inFlight /\ reply.acks = {} IN
    /\ net = "stream" /\ toAgent # <<>>
    /\ toAgent' = Tail(toAgent)
    /\ results' = Kept(reply.acks)
    /\ active' = active + Cardinality(reply.cmds)
    /\ IF reply.cmds # {} /\ queue # {}
       THEN /\ net' = "closing" /\ inFlight' = busy
            /\ UNCHANGED <<toCtrl, queue, asked>>
       ELSE /\ net' = "settle" /\ asked' = reply.mode
            /\ queue' = IF reply.cmds # {} THEN reply.cmds ELSE queue
            /\ SendResults(results', busy)
    /\ UNCHANGED <<mode, sentCount, order, session, batch, cur, phase, wake, direct, controller, history, faults>>

\* The end of a reply: a mode change is taken up when nothing is queued,
\* executing or unacknowledged (lines 291-302).
StreamSettle ==
    /\ net = "settle"
    /\ \/ /\ active = 0 /\ results = <<>>
          /\ SetMode(asked)
          /\ net' = IF mode' # session THEN "closing" ELSE "stream"
       \/ /\ active = 0 /\ results = <<>>
          /\ RefuseMode(asked) /\ net' = "closing"
       \/ /\ active # 0 \/ results # <<>>
          /\ net' = IF mode # session THEN "closing" ELSE "stream"
          /\ UNCHANGED <<mode, faults>>
    /\ asked' = session
    /\ UNCHANGED <<results, sentCount, order, session, direct, worker, active, wake, inFlight, channels, controller, history>>

\* stream returns once its goroutines have: the command in hand is finished,
\* the commands not begun are dropped with the connection.  In mode auto the
\* fallback window follows, with a direct listener.
StreamClosed ==
    /\ net = "closing" /\ cur = NoCmd
    /\ net' = AfterStream /\ listening' = (AfterStream = "window")
    /\ queue' = {} /\ batch' = {} /\ active' = 0 /\ wake' = FALSE /\ inFlight' = FALSE
    /\ toCtrl' = <<>> /\ toAgent' = <<>> /\ pushed' = {}
    /\ UNCHANGED <<client, session, cur, phase, asked, hcur, hmode, hphase, open, recent, want, has, history, faults>>

\* A read or write error, a timeout: the messages in transit are lost.
ConnectionLost ==
    /\ net \in {"hello", "pull", "stream"} /\ faults < MaxFaults
    /\ faults' = faults + 1
    /\ net' = IF net = "pull" THEN AfterPull ELSE "closing"
    /\ toCtrl' = <<>> /\ toAgent' = <<>>
    /\ UNCHANGED <<client, session, worker, stream, direct, controller, history>>

-----------------------------------------------------------------------------
(* direct: the listener and its handlers. *)

OpenDirect ==
    /\ net = "down" /\ mode = "http"
    /\ net' = "http" /\ session' = mode /\ listening' = TRUE
    /\ UNCHANGED <<client, worker, stream, hcur, hmode, hphase, open, recent, channels, controller, history, faults>>

\* A handler has exchangeMu and executes its command; an agent.report sets the
\* mode at once.  Its result is not kept.
DirectExecute ==
    /\ hphase = "wait" /\ net \notin {"pull", "accept"}
    /\ hphase' = "reply" /\ recent' = TRUE
    /\ \/ hcur # NoCmd /\ Perform(hcur) /\ UNCHANGED <<mode, faults>>
       \/ /\ hcur = NoCmd /\ SetMode(hmode)
          /\ order' = Remember(NoCmd)
          /\ forgotten' = forgotten \cup ((Range(order) \ Range(order')) \ {NoCmd})
          /\ UNCHANGED <<runs, dropped>>
       \/ hcur = NoCmd /\ RefuseMode(hmode) /\ UNCHANGED <<order, history>>
    /\ UNCHANGED <<results, sentCount, session, net, worker, stream, listening, hcur, hmode, open, channels, controller>>

\* The response reaches the controller while the connection is there.
DirectReply ==
    /\ hphase = "reply"
    /\ \/ open /\ has' = has \cup ({hcur} \ {NoCmd}) /\ UNCHANGED dropped
       \/ ~open /\ dropped' = dropped \cup ({hcur} \ {NoCmd}) /\ UNCHANGED has
    /\ hphase' = "idle" /\ hcur' = NoCmd /\ open' = FALSE /\ hmode' = mode
    /\ UNCHANGED <<client, session, net, worker, stream, listening, recent, channels, want, pushed, runs, forgotten, faults>>

\* The controller gives up waiting, or the connection fails.
DirectLost ==
    /\ hphase # "idle" /\ open /\ faults < MaxFaults
    /\ open' = FALSE /\ faults' = faults + 1
    /\ UNCHANGED <<client, session, net, worker, stream, listening, hcur, hmode, hphase, recent, channels, controller, history>>

\* The window is over or the mode has changed: Shutdown ...
StopListening ==
    /\ listening
    /\ session = "auto" \/ mode # session
    /\ listening' = FALSE
    /\ UNCHANGED <<client, session, net, worker, stream, hcur, hmode, hphase, open, recent, channels, controller, history, faults>>

\* ... and Close after five seconds, with a handler still at work.
CloseConnections ==
    /\ ~listening /\ hphase # "idle" /\ open /\ faults < MaxFaults
    /\ open' = FALSE /\ faults' = faults + 1
    /\ UNCHANGED <<client, session, net, worker, stream, listening, hcur, hmode, hphase, recent, channels, controller, history>>

\* direct has returned, and in the window pullLoop too.
EndDirect ==
    /\ net \in {"http", "window"} /\ ~listening /\ ~open
    /\ net' = "down"
    /\ UNCHANGED <<client, session, worker, stream, direct, channels, controller, history, faults>>

\* Fifteen seconds without a direct request.
Quiet ==
    /\ recent /\ recent' = FALSE
    /\ UNCHANGED <<client, session, net, worker, stream, listening, hcur, hmode, hphase, open, channels, controller, history, faults>>

-----------------------------------------------------------------------------
(* The controller (external). *)

\* A direct request for a command it has no result for, or an agent.report.
Request(c) ==
    /\ listening /\ hphase = "idle"
    /\ hcur' = c /\ hmode' = want /\ hphase' = "wait" /\ open' = TRUE
    /\ UNCHANGED <<client, session, net, worker, stream, listening, recent, channels, controller, history, faults>>

CtrlCall == \E c \in Cmds \ has : Request(c)
CtrlReport == Request(NoCmd)

Undone == Cmds \ (has \cup pushed)

\* It records the results of a message and answers: a report with commands,
\* an update with the acknowledgement of its results.
CtrlAnswer ==
    LET msg == Head(toCtrl) IN
    /\ toCtrl # <<>>
    /\ toCtrl' = Tail(toCtrl)
    /\ has' = has \cup msg.ids
    /\ \E cmds \in SUBSET (Undone \ msg.ids) :
         /\ msg.kind = "report" \/ cmds = {}
         /\ toAgent' = Append(toAgent, [acks |-> IF msg.kind = "report" THEN {} ELSE msg.ids,
                                        cmds |-> cmds, mode |-> want])
         /\ pushed' = pushed \cup cmds
    /\ UNCHANGED <<client, session, net, worker, stream, direct, want, history, faults>>

\* On an open stream it may send further commands at any time.
CtrlPush ==
    /\ net \in {"stream", "settle"} /\ Undone # {}
    /\ \E cmds \in SUBSET Undone \ {{}} :
         /\ toAgent' = Append(toAgent, [acks |-> {}, cmds |-> cmds, mode |-> want])
         /\ pushed' = pushed \cup cmds
    /\ UNCHANGED <<client, session, net, worker, stream, direct, toCtrl, want, has, history, faults>>

\* It answers a heartbeat, which repeats the mode it wants.
CtrlBeat ==
    /\ net = "stream" /\ toAgent = <<>>
    /\ toAgent' = <<[acks |-> {}, cmds |-> {}, mode |-> want]>>
    /\ UNCHANGED <<client, session, net, worker, stream, direct, toCtrl, controller, history, faults>>

CtrlWant ==
    /\ want = mode
    /\ want' \in Modes \ {mode} /\ faults < MaxFaults /\ faults' = faults + 1
    /\ UNCHANGED <<client, session, net, worker, stream, direct, channels, has, pushed, history>>

-----------------------------------------------------------------------------
Worker == Take \/ (\E c \in Cmds : Execute(c)) \/ AppendResult \/ Release
Loop == StreamFirst \/ StreamReady \/ StreamReply \/ StreamSettle \/ StreamClosed
Poll == PullReply \/ PullDone
Open == Dial \/ Pull \/ OpenDirect
Direct == DirectExecute \/ DirectReply
Listener == StopListening \/ CloseConnections \/ EndDirect

Next ==
    \/ Worker \/ Loop \/ Poll \/ Open \/ ConnectionLost
    \/ Direct \/ DirectLost \/ Listener \/ Quiet \/ CtrlCall \/ CtrlReport
    \/ CtrlAnswer \/ CtrlPush \/ CtrlBeat \/ CtrlWant

Spec == Init /\ [][Next]_vars

\* Every goroutine keeps running, the agent keeps reconnecting, and the
\* controller answers and keeps sending what it has no result for.  A batch
\* sent while the worker waits in its select is handed to the worker, so the
\* worker is not passed over on every connection: strong fairness.
Fairness ==
    /\ SF_vars(Take) /\ SF_vars(\E c \in Cmds : Execute(c))
    /\ WF_vars(Worker) /\ WF_vars(Loop) /\ WF_vars(Poll) /\ WF_vars(Open)
    /\ WF_vars(CtrlAnswer) /\ SF_vars(CtrlAnswer /\ pushed' # pushed) /\ WF_vars(CtrlPush) /\ WF_vars(CtrlBeat)
    /\ SF_vars(Direct) /\ WF_vars(Listener) /\ WF_vars(Quiet)
    /\ SF_vars(CtrlCall) /\ SF_vars(CtrlReport)
LiveSpec == Spec /\ Fairness

-----------------------------------------------------------------------------
(* Properties. *)

\* Results the agent keeps, and the one a direct handler is about to return.
Owed == Range(results) \cup (IF phase = "append" THEN {cur} ELSE {})
Lent == IF hphase = "reply" THEN {hcur} \ {NoCmd} ELSE {}

Abstract == INSTANCE Delivery WITH
    remembered <- Range(order) \ {NoCmd}, kept <- Owed, lent <- Lent, answered <- has

\* README "command results are ... retained until acknowledged": no
\* reconnection, batching, acknowledgement, change of transport or handler
\* that outlives its listener makes the client do what Delivery does not
\* allow: drop a kept result the controller does not have, or run a command
\* it still remembers.
ImplementsDelivery == Abstract!DeliverySpec

\* While results are marked in flight, the update that carries them or its
\* acknowledgement is on its way: the stream cannot stall on the mark.
InFlightReal ==
    net \in {"stream", "settle"} /\ inFlight =>
        \/ \E i \in DOMAIN toCtrl : toCtrl[i].kind = "results"
        \/ \E i \in DOMAIN toAgent : toAgent[i].acks # {}

\* A report or a stream changes the connection mode only when the controller
\* has every result the agent keeps: the worker's last result cannot slip in
\* behind the check.  (A direct agent.report changes the mode at once.)
ModeChangeQuiescent ==
    [][mode' # mode /\ hphase' = hphase => Owed \subseteq has]_vars

\* Every command is executed and its result reaches the controller, and the
\* mode the controller keeps asking for is taken up in the end.
AllDelivered == <>[](has = Cmds /\ mode = want)

=============================================================================
