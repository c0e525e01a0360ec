--------------------------- MODULE ControlProofs ----------------------------
(***************************************************************************)
(* Proofs about Control for any commands, batch size, memory of executed   *)
(* commands and bound on faults: results in flight, the change of the      *)
(* connection mode, and the refinement of Delivery, whose theorems then    *)
(* hold of the client.                                                     *)
(***************************************************************************)
EXTENDS Control, FiniteSetTheorems, TLAPS

-----------------------------------------------------------------------------
(* Sequences and the sets of their elements. *)

\* Appending an element.
LEMMA AppendSet ==
    ASSUME NEW S, NEW s \in Seq(S), NEW x \in S
    PROVE  Range(Append(s, x)) = Range(s) \cup {x}
  <1> DEFINE t == Append(s, x)
  <1>1. /\ DOMAIN s = 1..Len(s) /\ DOMAIN t = 1..Len(s) + 1 /\ t[Len(s) + 1] = x
        /\ \A i \in 1..Len(s) : t[i] = s[i]
    OBVIOUS
  <1>2. 1..Len(s) + 1 = (1..Len(s)) \cup {Len(s) + 1}
    OBVIOUS
  <1> HIDE DEF t
  <1>3. {t[i] : i \in DOMAIN t} = {s[i] : i \in DOMAIN s} \cup {x}
    BY <1>1, <1>2
  <1>4. QED
    BY <1>3 DEF Range, t

\* A sequence is its head and its tail.
LEMMA HeadTailSet ==
    ASSUME NEW S, NEW s \in Seq(S), s # <<>>
    PROVE  /\ Head(s) \in S /\ Tail(s) \in Seq(S)
           /\ Range(s) = {Head(s)} \cup Range(Tail(s))
  <1> DEFINE t == Tail(s)
  <1>1. /\ DOMAIN s = 1..Len(s) /\ DOMAIN t = 1..Len(s) - 1 /\ Head(s) = s[1] /\ Len(s) \in Nat \ {0}
        /\ \A i \in 1..Len(s) - 1 : t[i] = s[i + 1]
    OBVIOUS
  <1>2. Head(s) \in S /\ t \in Seq(S)
    OBVIOUS
  <1> HIDE DEF t
  <1>3. ASSUME NEW i \in DOMAIN s PROVE s[i] \in {s[1]} \cup {t[j] : j \in DOMAIN t}
    <2>1. i = 1 \/ (i - 1 \in DOMAIN t /\ s[i] = t[i - 1])
      BY <1>1
    <2>2. QED
      BY <2>1
  <1>4. ASSUME NEW j \in DOMAIN t PROVE t[j] \in {s[i] : i \in DOMAIN s}
    BY <1>1
  <1>5. {s[i] : i \in DOMAIN s} = {s[1]} \cup {t[j] : j \in DOMAIN t}
    <2>1. 1 \in DOMAIN s
      BY <1>1
    <2>2. QED
      BY <2>1, <1>3, <1>4, ZenonT(60)
  <1>6. QED
    BY <1>1, <1>2, <1>5, Zenon DEF Range, t

\* A sequence is its first elements and the rest.
LEMMA SplitSet ==
    ASSUME NEW S, NEW s \in Seq(S), NEW n \in 0..Len(s)
    PROVE  /\ SubSeq(s, 1, n) \in Seq(S) /\ SubSeq(s, n + 1, Len(s)) \in Seq(S)
           /\ Range(s) = Range(SubSeq(s, 1, n)) \cup Range(SubSeq(s, n + 1, Len(s)))
  <1>1. SubSeq(s, 1, n) \in Seq(S) /\ SubSeq(s, n + 1, Len(s)) \in Seq(S)
    OBVIOUS
  <1>2. ASSUME NEW i \in 1..Len(s)
        PROVE  s[i] \in Range(SubSeq(s, 1, n)) \cup Range(SubSeq(s, n + 1, Len(s)))
    <2>1. CASE i <= n
      <3>1. i \in DOMAIN SubSeq(s, 1, n) /\ SubSeq(s, 1, n)[i] = s[i]
        BY <2>1
      <3>2. QED
        BY <3>1 DEF Range
    <2>2. CASE i > n
      <3>1. i - n \in DOMAIN SubSeq(s, n + 1, Len(s)) /\ SubSeq(s, n + 1, Len(s))[i - n] = s[i]
        BY <2>2
      <3>2. QED
        BY <3>1 DEF Range
    <2>3. QED
      BY <2>1, <2>2
  <1>3. Range(SubSeq(s, 1, n)) \subseteq Range(s) /\ Range(SubSeq(s, n + 1, Len(s))) \subseteq Range(s)
    BY DEF Range
  <1>4. Range(s) \subseteq Range(SubSeq(s, 1, n)) \cup Range(SubSeq(s, n + 1, Len(s)))
    <2>1. DOMAIN s = 1..Len(s)
      OBVIOUS
    <2>2. \A x \in Range(s) : \E i \in 1..Len(s) : x = s[i]
      BY <2>1, Zenon DEF Range
    <2>3. QED
      BY <1>2, <2>2, Zenon
  <1>5. QED
    BY <1>1, <1>3, <1>4

\* A set of numbers that is not empty has a smallest member.
LEMMA LeastNumber ==
    ASSUME NEW S \in SUBSET Nat, S # {}
    PROVE  \E n \in S : \A m \in Nat : m < n => m \notin S
  <1>1. PICK n \in S : \A m \in S : ~ (<<m, n>> \in OpToRel(<, Nat))
    BY NatLessThanWellFounded, WFMin
  <1>2. \A m \in S : ~(m < n)
    BY <1>1 DEF OpToRel
  <1>3. QED
    BY <1>2

\* acknowledgeResults drops exactly the results that are acknowledged.  The
\* recursion is well founded, and its value at n is what is left of the first
\* n results: each by the least number at which it would fail.
LEMMA KeptResults ==
    ASSUME results \in Seq(Cmds), NEW acks
    PROVE  Kept(acks) \in Seq(Cmds) /\ Range(Kept(acks)) = Range(results) \ acks
  <1> DEFINE N == Len(results)
             Step(f, n) == IF n = 0 THEN <<>>
                           ELSE IF results[n] \in acks THEN f[n - 1] ELSE Append(f[n - 1], results[n])
             Upto(f, k) == f = [n \in 0..k |-> Step(f, n)]
             keep == CHOOSE f : Upto(f, N)
  <1>1. N \in Nat
    OBVIOUS
  <1>2. \A k \in Nat : k <= N => \E f : Upto(f, k)
    <2> DEFINE Bad == {k \in Nat : k <= N /\ ~ \E f : Upto(f, k)}
    <2> SUFFICES ASSUME Bad # {} PROVE FALSE
      OBVIOUS
    <2>1. PICK k \in Bad : \A m \in Nat : m < k => m \notin Bad
      <3>1. Bad \in SUBSET Nat
        OBVIOUS
      <3> HIDE DEF Bad
      <3>2. QED
        BY <3>1, LeastNumber
    <2>2. k # 0
      <3>1. Upto([n \in 0..0 |-> <<>>], 0)
        OBVIOUS
      <3>2. QED
        BY <3>1
    <2>3. PICK f : Upto(f, k - 1)
      <3>1. k - 1 \in Nat /\ k - 1 < k /\ k - 1 <= N
        BY <1>1, <2>2
      <3>2. QED
        BY <2>1, <3>1
    <2> DEFINE g == [n \in 0..k |-> IF n = k THEN Step(f, k) ELSE f[n]]
    <2>4. \A n \in 0..k : g[n] = Step(g, n)
      <3> SUFFICES ASSUME NEW n \in 0..k PROVE g[n] = Step(g, n)
        OBVIOUS
      <3>1. n # 0 => g[n - 1] = f[n - 1]
        BY <2>2
      <3>2. n # k => f[n] = Step(f, n)
        <4>1. n # k => n \in 0..k - 1
          BY <2>2
        <4>2. QED
          BY <2>3, <4>1
      <3>3. Step(g, n) = Step(f, n)
        BY <3>1
      <3>4. QED
        BY <3>2, <3>3
    <2>5. Upto(g, k)
      BY <2>4
    <2>6. QED
      BY <2>5
  <1>3. Upto(keep, N)
    <2>1. \E f : Upto(f, N)
      <3> HIDE DEF Upto
      <3>1. QED
        BY <1>1, <1>2
    <2> HIDE DEF Upto
    <2>2. QED
      BY <2>1, Zenon
  <1>4. Kept(acks) = keep[N]
    BY Zenon DEF Kept
  <1> HIDE DEF keep
  <1>5. \A n \in 0..N : keep[n] = Step(keep, n)
    BY <1>3
  <1> DEFINE Good(n) == keep[n] \in Seq(Cmds) /\ Range(keep[n]) = {results[i] : i \in 1..n} \ acks
  <1>6. \A n \in Nat : n <= N => Good(n)
    <2> DEFINE Bad == {n \in Nat : n <= N /\ ~ Good(n)}
    <2> SUFFICES ASSUME Bad # {} PROVE FALSE
      OBVIOUS
    <2>1. PICK n \in Bad : \A m \in Nat : m < n => m \notin Bad
      <3>1. Bad \in SUBSET Nat
        OBVIOUS
      <3> HIDE DEF Bad
      <3>2. QED
        BY <3>1, LeastNumber
    <2>2. n # 0
      <3>1. keep[0] = <<>>
        BY <1>1, <1>5
      <3>2. QED
        <4>1. Range(keep[0]) = {} /\ {results[i] : i \in 1..0} = {} /\ keep[0] \in Seq(Cmds)
          BY <3>1 DEF Range
        <4>2. QED
          BY <2>1, <4>1
    <2>3. n - 1 \in Nat /\ n \in 1..N /\ Good(n - 1)
      <3> HIDE DEF Good
      <3>1. n \in Nat /\ n <= N
        BY <2>1
      <3>2. n - 1 \in Nat /\ n - 1 < n /\ n - 1 <= N /\ n \in 1..N
        BY <1>1, <2>2, <3>1
      <3>3. n - 1 \notin Bad
        BY <2>1, <3>2
      <3>4. QED
        BY <3>2, <3>3
    <2>4. {results[i] : i \in 1..n} = {results[i] : i \in 1..n - 1} \cup {results[n]}
      BY <2>3
    <2>5. results[n] \in Cmds
      BY <2>3
    <2>6. keep[n] = IF results[n] \in acks THEN keep[n - 1] ELSE Append(keep[n - 1], results[n])
      BY <1>5, <2>3
    <2>7. CASE results[n] \in acks
      BY <2>1, <2>3, <2>4, <2>6, <2>7
    <2>8. CASE results[n] \notin acks
      <3>1. Range(keep[n]) = Range(keep[n - 1]) \cup {results[n]} /\ keep[n] \in Seq(Cmds)
        BY <2>3, <2>5, <2>6, <2>8, AppendSet
      <3>2. QED
        BY <2>1, <2>3, <2>4, <2>8, <3>1
    <2>9. QED
      BY <2>7, <2>8
  <1>7. Range(results) = {results[i] : i \in 1..N}
    <2>1. DOMAIN results = 1..N
      OBVIOUS
    <2>2. QED
      BY <2>1, Zenon DEF Range
  <1>8. Good(N)
    <2> HIDE DEF Good
    <2>1. QED
      BY <1>1, <1>6
  <1>9. QED
    BY <1>4, <1>7, <1>8

-----------------------------------------------------------------------------
(* The inductive invariant. *)

Update == [kind : {"report", "results"}, ids : SUBSET Cmds]
Reply == [acks : SUBSET Cmds, cmds : SUBSET Cmds, mode : Modes]

ControlTypes ==
    /\ results \in Seq(Cmds) /\ sentCount \in Nat /\ order \in Seq(Cmds \cup {NoCmd})
    /\ queue \in SUBSET Cmds /\ batch \in SUBSET Cmds /\ cur \in Cmds \cup {NoCmd}
    /\ active \in Int /\ inFlight \in BOOLEAN /\ hcur \in Cmds \cup {NoCmd}
    /\ toCtrl \in Seq(Update) /\ toAgent \in Seq(Reply)
    /\ want \in Modes /\ has \in SUBSET Cmds

\* The worker has a command in its hands exactly when it is busy, has none
\* outside a stream or a poll, and a stream counts its commands.
WorkerInv ==
    /\ phase = "idle" <=> cur = NoCmd
    /\ net \in {"down", "hello", "pull", "http", "window"} => batch = {} /\ cur = NoCmd
    /\ net \in {"stream", "settle"} =>
         active = Cardinality(queue) + Cardinality(batch) + (IF cur = NoCmd THEN 0 ELSE 1)

\* A report and its reply: when the reply is there, the controller has the
\* results of the report, which are still the first ones.
ReportInv ==
    net \in {"hello", "pull"} =>
        /\ sentCount = Len(ResultBatch(results))
        /\ \/ toAgent = <<>> /\ toCtrl = <<[kind |-> "report", ids |-> Range(ResultBatch(results))]>>
           \/ toCtrl = <<>> /\ Range(ResultBatch(results)) \subseteq has

\* What is sent is kept or has arrived; what is acknowledged has arrived.
MessageInv ==
    /\ \A m \in Range(toCtrl) : /\ m.ids \subseteq Range(results) \cup has
                                /\ m.kind = "results" => m.ids # {}
    /\ \A m \in Range(toAgent) : m.acks \subseteq has

\* InFlightReal, over the messages instead of their places.
InFlightInv ==
    net \in {"stream", "settle"} /\ inFlight =>
        \/ \E m \in Range(toCtrl) : m.kind = "results"
        \/ \E m \in Range(toAgent) : m.acks # {}

ControlInv == ControlTypes /\ WorkerInv /\ ReportInv /\ MessageInv /\ InFlightInv

-----------------------------------------------------------------------------
(* The operators of the steps. *)

\* A batch is the beginning of the pending results, and not empty unless they are.
LEMMA BatchSet ==
    ASSUME NEW s \in Seq(Cmds)
    PROVE  /\ ResultBatch(s) \in Seq(Cmds) /\ Len(ResultBatch(s)) \in 0..Len(s)
           /\ ResultBatch(s) = SubSeq(s, 1, Len(ResultBatch(s)))
           /\ Range(ResultBatch(s)) \in SUBSET Cmds /\ Range(ResultBatch(s)) \subseteq Range(s)
           /\ s # <<>> => Range(ResultBatch(s)) # {}
  <1> DEFINE n == IF Len(s) < MaxBatch THEN Len(s) ELSE MaxBatch
  <1>1. n \in 0..Len(s) /\ (s # <<>> => n > 0)
    BY ControlAssumption
  <1>2. ResultBatch(s) = SubSeq(s, 1, n)
    BY DEF ResultBatch
  <1> HIDE DEF n
  <1>3. SubSeq(s, 1, n) \in Seq(Cmds) /\ Len(SubSeq(s, 1, n)) = n
    BY <1>1
  <1>4. Range(SubSeq(s, 1, n)) \subseteq Range(s)
    BY <1>1, SplitSet
  <1>5. Range(SubSeq(s, 1, n)) \in SUBSET Cmds
    BY <1>3 DEF Range
  <1>6. n > 0 => Range(SubSeq(s, 1, n)) # {}
    <2>1. n > 0 => 1 \in DOMAIN SubSeq(s, 1, n)
      BY <1>1, <1>3
    <2>2. QED
      BY <2>1, Zenon DEF Range
  <1>7. QED
    BY <1>1, <1>2, <1>3, <1>4, <1>5, <1>6

\* acknowledge drops what the controller has.
LEMMA UnreportedSet ==
    ASSUME ControlInv, net \in {"hello", "pull"}, toAgent # <<>>
    PROVE  /\ Unreported \in Seq(Cmds) /\ Range(Unreported) \subseteq Range(results)
           /\ Range(results) \subseteq Range(Unreported) \cup has
  <1>1. results \in Seq(Cmds)
    BY DEF ControlInv, ControlTypes
  <1>2. sentCount = Len(ResultBatch(results)) /\ Range(ResultBatch(results)) \subseteq has
    BY DEF ControlInv, ReportInv
  <1>3. sentCount \in 0..Len(results) /\ ResultBatch(results) = SubSeq(results, 1, sentCount)
    BY <1>1, <1>2, BatchSet
  <1>4. /\ SubSeq(results, sentCount + 1, Len(results)) \in Seq(Cmds)
        /\ Range(results) = Range(SubSeq(results, 1, sentCount))
                              \cup Range(SubSeq(results, sentCount + 1, Len(results)))
    BY <1>1, <1>3, SplitSet
  <1>5. Unreported = SubSeq(results, sentCount + 1, Len(results))
    BY <1>1, <1>3 DEF Unreported
  <1>6. QED
    BY <1>2, <1>3, <1>4, <1>5, Zenon

\* A command that is remembered takes the place of the oldest.
LEMMA RememberSet ==
    ASSUME order \in Seq(Cmds \cup {NoCmd}), NEW c \in Cmds \cup {NoCmd}
    PROVE  /\ Remember(c) \in Seq(Cmds \cup {NoCmd}) /\ c \in Range(Remember(c))
           /\ Range(Remember(c)) \subseteq Range(order) \cup {c}
  <1> DEFINE all == Append(order, c)
  <1>1. /\ all \in Seq(Cmds \cup {NoCmd}) /\ all # <<>> /\ Len(all) \in Nat /\ Len(all) > 0
        /\ all[Len(all)] = c
    OBVIOUS
  <1>2. Range(all) = Range(order) \cup {c}
    BY AppendSet
  <1>3. Remember(c) = IF Len(all) > SeenMax THEN Tail(all) ELSE all
    BY DEF Remember
  <1> HIDE DEF all
  <1>4. Tail(all) \in Seq(Cmds \cup {NoCmd}) /\ Range(Tail(all)) \subseteq Range(all)
    BY <1>1, HeadTailSet
  <1>5. Len(all) > SeenMax => c \in Range(Tail(all))
    <2>1. ASSUME Len(all) > SeenMax
          PROVE  Len(all) - 1 \in DOMAIN Tail(all) /\ Tail(all)[Len(all) - 1] = c
      BY <1>1, <2>1, ControlAssumption
    <2>2. QED
      BY <2>1 DEF Range
  <1>6. QED
    BY <1>2, <1>3, <1>1, <1>4, <1>5

-----------------------------------------------------------------------------
(* The steps that leave the results and the messages alone. *)

\* Steps of the direct listener and of the controller beside the connection.
LEMMA BesideInv ==
    ASSUME ControlInv,
           UNCHANGED <<results, sentCount, net, queue, batch, cur, phase, active, inFlight,
                       toCtrl, toAgent>>,
           has' \in SUBSET Cmds, has \subseteq has', order' \in Seq(Cmds \cup {NoCmd}),
           hcur' \in Cmds \cup {NoCmd}, want' \in Modes
    PROVE  ControlInv'
  <1>1. ControlTypes' /\ WorkerInv' /\ InFlightInv'
    BY DEF ControlInv, ControlTypes, WorkerInv, InFlightInv
  <1>2. ReportInv' /\ MessageInv'
    BY ZenonT(60) DEF ControlInv, ReportInv, MessageInv, ResultBatch
  <1>3. QED
    BY <1>1, <1>2 DEF ControlInv

\* A connection that begins or ends without a message.
LEMMA NetInv ==
    ASSUME ControlInv,
           UNCHANGED <<results, sentCount, order, queue, batch, cur, phase, active, inFlight, hcur,
                       toCtrl, toAgent, want, has>>,
           net' \in {"down", "http", "window"}, batch = {}, cur = NoCmd
    PROVE  ControlInv'
  <1>1. ControlTypes' /\ WorkerInv' /\ InFlightInv' /\ ReportInv'
    BY DEF ControlInv, ControlTypes, WorkerInv, InFlightInv, ReportInv
  <1>2. MessageInv'
    BY ZenonT(60) DEF ControlInv, MessageInv
  <1>3. QED
    BY <1>1, <1>2 DEF ControlInv

\* What executing a command does to the memory.
LEMMA PerformOrder ==
    ASSUME ControlInv, NEW c \in Cmds, Perform(c)
    PROVE  order' \in Seq(Cmds \cup {NoCmd}) /\ UNCHANGED dropped
  <1>1. order \in Seq(Cmds \cup {NoCmd})
    BY DEF ControlInv, ControlTypes
  <1>2. QED
    BY <1>1, RememberSet, ZenonT(60) DEF Perform, history

\* The steps of the direct listener, and of the controller towards it.
LEMMA ListenerInv ==
    ASSUME ControlInv,
           \/ Direct \/ DirectLost \/ Listener \/ Quiet \/ CtrlCall \/ CtrlReport \/ OpenDirect
           \/ CtrlWant
    PROVE  ControlInv'
  <1>0. /\ order \in Seq(Cmds \cup {NoCmd}) /\ hcur \in Cmds \cup {NoCmd} /\ want \in Modes
        /\ has \in SUBSET Cmds
    BY DEF ControlInv, ControlTypes
  <1>1. CASE DirectExecute
    <2>1. order' \in Seq(Cmds \cup {NoCmd})
      <3>1. CASE hcur # NoCmd /\ Perform(hcur)
        BY <1>0, <3>1, PerformOrder
      <3>2. CASE order' = Remember(NoCmd)
        BY <1>0, <3>2, RememberSet
      <3>3. CASE UNCHANGED order
        BY <1>0, <3>3
      <3>4. QED
        BY <1>1, <3>1, <3>2, <3>3, ZenonT(60) DEF DirectExecute
    <2>2. /\ UNCHANGED <<results, sentCount, net, queue, batch, cur, phase, active, inFlight,
                         toCtrl, toAgent>>
          /\ UNCHANGED <<has, hcur, want>>
      BY <1>1, ZenonT(60) DEF DirectExecute, worker, stream, channels, controller
    <2>3. QED
      BY <1>0, <2>1, <2>2, BesideInv, ZenonT(60)
  <1>2. CASE DirectReply
    <2>1. /\ UNCHANGED <<results, sentCount, net, queue, batch, cur, phase, active, inFlight,
                         toCtrl, toAgent>>
          /\ UNCHANGED <<order, want>> /\ hcur' = NoCmd
      BY <1>2, ZenonT(60) DEF DirectReply, client, worker, stream, channels
    <2>2. has' = has \/ has' = has \cup ({hcur} \ {NoCmd})
      BY <1>2, ZenonT(60) DEF DirectReply
    <2>3. QED
      BY <1>0, <2>1, <2>2, BesideInv, ZenonT(60)
  <1>3. CASE DirectLost \/ StopListening \/ CloseConnections \/ Quiet
    <2>1. /\ UNCHANGED <<results, sentCount, net, queue, batch, cur, phase, active, inFlight,
                         toCtrl, toAgent>>
          /\ UNCHANGED <<order, want, has, hcur>>
      BY <1>3, ZenonT(60) DEF DirectLost, StopListening, CloseConnections, Quiet, client, worker,
         stream, channels, controller
    <2>2. QED
      BY <1>0, <2>1, BesideInv, ZenonT(60)
  <1>4. ASSUME NEW c \in Cmds \cup {NoCmd}, Request(c) PROVE ControlInv'
    <2>1. /\ UNCHANGED <<results, sentCount, net, queue, batch, cur, phase, active, inFlight,
                         toCtrl, toAgent>>
          /\ UNCHANGED <<order, want, has>> /\ hcur' = c
      BY <1>4, ZenonT(60) DEF Request, client, worker, stream, channels, controller
    <2>2. QED
      BY <1>0, <2>1, BesideInv, ZenonT(60)
  <1>5. CASE CtrlWant
    <2>1. /\ UNCHANGED <<results, sentCount, net, queue, batch, cur, phase, active, inFlight,
                         toCtrl, toAgent>>
          /\ UNCHANGED <<order, has, hcur>> /\ want' \in Modes
      BY <1>5, ZenonT(60) DEF CtrlWant, client, worker, stream, channels, direct
    <2>2. QED
      BY <1>0, <2>1, BesideInv, ZenonT(60)
  <1>6. CASE OpenDirect \/ EndDirect
    <2>1. /\ UNCHANGED <<results, sentCount, order, queue, batch, cur, phase, active, inFlight, hcur,
                         toCtrl, toAgent, want, has>>
          /\ net' \in {"down", "http", "window"} /\ net \in {"down", "http", "window"}
      BY <1>6, ZenonT(60) DEF OpenDirect, EndDirect, client, worker, stream, channels, controller, direct
    <2>2. QED
      BY <2>1, NetInv DEF ControlInv, WorkerInv
  <1>7. QED
    BY <1>1, <1>2, <1>3, <1>4, <1>5, <1>6, ZenonT(60) DEF Direct, Listener, CtrlCall, CtrlReport

-----------------------------------------------------------------------------
(* Reports and the worker. *)

\* The set of a sequence of one element, and of none.
LEMMA SmallSets ==
    Range(<<>>) = {} /\ \A x : Range(<<x>>) = {x}
  BY DEF Range

\* A report.
LEMMA ReportStepInv ==
    ASSUME ControlInv, Dial \/ Pull
    PROVE  ControlInv'
  <1> DEFINE m == [kind |-> "report", ids |-> Range(ResultBatch(results))]
  <1>1. /\ net' \in {"hello", "pull"} /\ net \in {"down", "window"}
        /\ sentCount' = Len(ResultBatch(results)) /\ toCtrl' = <<m>> /\ toAgent' = <<>>
        /\ UNCHANGED <<results, order, queue, batch, cur, phase, active, inFlight, hcur, want, has>>
    BY ZenonT(60) DEF Dial, Pull, Report, worker, stream, direct
  <1>2. results \in Seq(Cmds)
    BY DEF ControlInv, ControlTypes
  <1>3. /\ Len(ResultBatch(results)) \in Nat /\ Range(ResultBatch(results)) \in SUBSET Cmds
        /\ Range(ResultBatch(results)) \subseteq Range(results)
    BY <1>2, BatchSet
  <1>4. m \in Update /\ m.kind = "report" /\ m.ids = Range(ResultBatch(results))
    BY <1>3 DEF Update
  <1> HIDE DEF m
  <1>5. <<m>> \in Seq(Update) /\ <<>> \in Seq(Reply)
    BY <1>4
  <1>6. ControlTypes'
    BY <1>1, <1>3, <1>5 DEF ControlInv, ControlTypes
  <1>7. WorkerInv' /\ InFlightInv'
    BY <1>1 DEF ControlInv, WorkerInv, InFlightInv
  <1>8. ReportInv'
    BY <1>1, ZenonT(60) DEF ReportInv, ResultBatch, m
  <1>9. MessageInv'
    <2>1. Range(toCtrl') = {m} /\ Range(toAgent') = {}
      BY <1>1, SmallSets
    <2>2. m.ids \subseteq Range(results) \cup has /\ m.kind # "results"
      BY <1>3, <1>4
    <2>3. results' = results /\ has' = has
      BY <1>1
    <2>4. QED
      BY <2>1, <2>2, <2>3, ZenonT(60) DEF MessageInv
  <1>10. QED
    BY <1>6, <1>7, <1>8, <1>9 DEF ControlInv

\* The sets of commands are finite.
LEMMA Counts ==
    \A S \in SUBSET Cmds : IsFiniteSet(S) /\ Cardinality(S) \in Nat
  BY ControlAssumption, FS_Subset, FS_CardinalityType

\* The worker takes, executes, keeps and releases commands.
LEMMA WorkerStepInv ==
    ASSUME ControlInv, Worker
    PROVE  ControlInv'
  <1>0. /\ results \in Seq(Cmds) /\ queue \in SUBSET Cmds /\ batch \in SUBSET Cmds
        /\ cur \in Cmds \cup {NoCmd} /\ active \in Int
    BY DEF ControlInv, ControlTypes
  <1>1. CASE Take
    <2>1. /\ batch' = queue /\ queue' = {} /\ batch = {} /\ cur = NoCmd
          /\ net \in {"stream", "settle"}
          /\ UNCHANGED <<results, sentCount, order, net, cur, phase, active, inFlight, hcur, toCtrl,
                         toAgent, want, has>>
      BY <1>1, ZenonT(60) DEF Take, client, stream, direct, channels, controller
    <2>2. ControlTypes' /\ InFlightInv' /\ ReportInv'
      BY <2>1 DEF ControlInv, ControlTypes, InFlightInv, ReportInv
    <2>3. MessageInv'
      BY <2>1, ZenonT(60) DEF ControlInv, MessageInv
    <2>4. WorkerInv'
      BY <1>0, <2>1, Counts, FS_EmptySet DEF ControlInv, WorkerInv
    <2>5. QED
      BY <2>2, <2>3, <2>4 DEF ControlInv
  <1>2. ASSUME NEW c \in Cmds, Execute(c) PROVE ControlInv'
    <2>1. /\ cur' = c /\ batch' = batch \ {c} /\ phase' = "append" /\ c \in batch /\ cur = NoCmd
          /\ net \in {"stream", "settle", "accept"}
          /\ UNCHANGED <<results, sentCount, net, queue, active, inFlight, hcur, toCtrl,
                         toAgent, want, has>>
      BY <1>2, ZenonT(60) DEF Execute, stream, direct, channels, controller
    <2>2. order' \in Seq(Cmds \cup {NoCmd})
      BY <1>2, PerformOrder, ZenonT(60) DEF Execute
    <2>3. ControlTypes' /\ InFlightInv' /\ ReportInv'
      BY <2>1, <2>2 DEF ControlInv, ControlTypes, InFlightInv, ReportInv
    <2>4. MessageInv'
      BY <2>1, ZenonT(60) DEF ControlInv, MessageInv
    <2>5. Cardinality(batch \ {c}) = Cardinality(batch) - 1
      BY <1>0, <2>1, Counts, FS_RemoveElement
    <2>6. WorkerInv'
      BY <1>0, <2>1, <2>5, Counts, ControlAssumption DEF ControlInv, WorkerInv
    <2>7. QED
      BY <2>3, <2>4, <2>6 DEF ControlInv
  <1>3. CASE AppendResult
    <2>1. /\ results' = Append(results, cur) /\ phase = "append" /\ phase' = "release"
          /\ UNCHANGED <<sentCount, order, net, queue, batch, cur, active, inFlight, hcur, toCtrl,
                         toAgent, want, has>>
      BY <1>3, ZenonT(60) DEF AppendResult, stream, direct, channels, controller
    <2>2. cur \in Cmds /\ net \notin {"hello", "pull"}
      BY <1>0, <2>1 DEF ControlInv, WorkerInv
    <2>3. ControlTypes' /\ InFlightInv' /\ ReportInv'
      BY <2>1, <2>2 DEF ControlInv, ControlTypes, InFlightInv, ReportInv
    <2>4. WorkerInv'
      BY <2>1, <2>2, ControlAssumption DEF ControlInv, WorkerInv
    <2>5. Range(results) \subseteq Range(results')
      BY <1>0, <2>1, <2>2, AppendSet
    <2>6. toCtrl' = toCtrl /\ toAgent' = toAgent /\ has' = has
      BY <2>1
    <2>7. MessageInv'
      BY <2>5, <2>6, ZenonT(60) DEF ControlInv, MessageInv
    <2>8. QED
      BY <2>3, <2>4, <2>7 DEF ControlInv
  <1>4. CASE Release
    <2>1. /\ cur' = NoCmd /\ phase = "release" /\ phase' = "idle"
          /\ IF net = "accept" THEN active' = active ELSE active' = active - 1
          /\ UNCHANGED <<results, sentCount, order, net, queue, batch, inFlight, hcur, toCtrl,
                         toAgent, want, has>>
      BY <1>4, ZenonT(60) DEF Release, client, direct, channels, controller
    <2>2. cur \in Cmds /\ cur # NoCmd
      BY <1>0, <2>1, ControlAssumption DEF ControlInv, WorkerInv
    <2>3. ControlTypes' /\ InFlightInv' /\ ReportInv'
      BY <2>1 DEF ControlInv, ControlTypes, InFlightInv, ReportInv
    <2>4. MessageInv'
      BY <2>1, ZenonT(60) DEF ControlInv, MessageInv
    <2>5. WorkerInv'
      BY <1>0, <2>1, <2>2, Counts DEF ControlInv, WorkerInv
    <2>6. QED
      BY <2>3, <2>4, <2>5 DEF ControlInv
  <1>5. QED
    BY <1>1, <1>2, <1>3, <1>4, ZenonT(60) DEF Worker

\* The end of a poll.
LEMMA PullDoneInv ==
    ASSUME ControlInv, PullDone
    PROVE  ControlInv'
  <1>1. /\ UNCHANGED <<results, sentCount, order, queue, batch, cur, phase, active, inFlight, hcur,
                       toCtrl, toAgent, want, has>>
        /\ net' \in {"down", "http", "window"} /\ batch = {} /\ cur = NoCmd
    BY ZenonT(60) DEF PullDone, AfterPull, client, worker, stream, direct, channels, controller
  <1>2. QED
    BY <1>1, NetInv, ZenonT(60)

-----------------------------------------------------------------------------
(* Replies and updates. *)

\* An update carries results that are pending.
LEMMA UpdateMessage ==
    ASSUME NEW pending \in Seq(Cmds), pending # <<>>
    PROVE  LET m == [kind |-> "results", ids |-> Range(ResultBatch(pending))]
           IN  m \in Update /\ m.kind = "results" /\ m.ids \subseteq Range(pending) /\ m.ids # {}
  <1>1. /\ Range(ResultBatch(pending)) \in SUBSET Cmds /\ Range(ResultBatch(pending)) # {}
        /\ Range(ResultBatch(pending)) \subseteq Range(pending)
    BY BatchSet, Zenon
  <1>2. QED
    BY <1>1 DEF Update

\* The updates after one more.
Sent(old, pending) == Append(old, [kind |-> "results", ids |-> Range(ResultBatch(pending))])

\* Sending what is pending.
LEMMA SendSet ==
    ASSUME NEW pending \in Seq(Cmds), pending # <<>>, NEW old \in Seq(Update)
    PROVE  /\ Sent(old, pending) \in Seq(Update) /\ Range(old) \subseteq Range(Sent(old, pending))
           /\ \A m \in Range(Sent(old, pending)) :
                m \in Range(old) \/ (m.ids \subseteq Range(pending) /\ m.ids # {})
           /\ \E m \in Range(Sent(old, pending)) : m.kind = "results"
  <1> DEFINE m == [kind |-> "results", ids |-> Range(ResultBatch(pending))]
  <1>1. m \in Update /\ m.kind = "results" /\ m.ids \subseteq Range(pending) /\ m.ids # {}
    BY UpdateMessage
  <1>2. Sent(old, pending) = Append(old, m)
    BY DEF Sent
  <1> HIDE DEF m
  <1>3. Sent(old, pending) \in Seq(Update) /\ Range(Sent(old, pending)) = Range(old) \cup {m}
    BY <1>1, <1>2, AppendSet
  <1>4. QED
    BY <1>1, <1>3, ZenonT(60)

\* A step that takes a reply, drops results the controller has, and may send
\* an update, keeps what is true of the messages.
LEMMA MessagesKept ==
    ASSUME MessageInv, Range(toAgent') \subseteq Range(toAgent), has' = has,
           Range(results) \subseteq Range(results') \cup has,
           \A m \in Range(toCtrl') : m \in Range(toCtrl) \/ (m.ids \subseteq Range(results') /\ m.ids # {})
    PROVE  MessageInv'
  <1>1. ASSUME NEW m \in Range(toCtrl')
        PROVE  m.ids \subseteq Range(results') \cup has /\ (m.kind = "results" => m.ids # {})
    <2>1. CASE m \in Range(toCtrl)
      BY <2>1, ZenonT(60) DEF MessageInv
    <2>2. CASE m.ids \subseteq Range(results') /\ m.ids # {}
      BY <2>2, Zenon
    <2>3. QED
      BY <1>1, <2>1, <2>2
  <1>2. \A m \in Range(toAgent') : m.acks \subseteq has
    BY Zenon DEF MessageInv
  <1>3. QED
    BY <1>1, <1>2, Zenon DEF MessageInv

\* The first reply of a stream.
LEMMA StreamFirstInv ==
    ASSUME ControlInv, StreamFirst
    PROVE  ControlInv'
  <1> DEFINE reply == Head(toAgent)
  <1>1. /\ net = "hello" /\ toAgent # <<>> /\ results' = Unreported /\ sentCount' = 0
        /\ toAgent' = Tail(toAgent)
        /\ UNCHANGED <<order, batch, cur, phase, hcur, want, has>>
    BY ZenonT(60) DEF StreamFirst, direct, controller
  <1>2. \/ net' = "closing" /\ UNCHANGED <<toCtrl, queue, active, inFlight>>
        \/ /\ net' = "stream"
           /\ queue' = reply.cmds /\ active' = Cardinality(reply.cmds)
           /\ inFlight' = (results' # <<>>)
           /\ toCtrl' = IF results' = <<>> THEN toCtrl
                        ELSE Sent(toCtrl, results')
    BY ZenonT(60) DEF StreamFirst, Sent
  <1>3. /\ toCtrl \in Seq(Update) /\ toAgent \in Seq(Reply) /\ queue \in SUBSET Cmds
        /\ active \in Int /\ inFlight \in BOOLEAN
    BY DEF ControlInv, ControlTypes
  <1>4. /\ reply \in Reply /\ toAgent' \in Seq(Reply) /\ Range(toAgent') \subseteq Range(toAgent)
    BY <1>1, <1>3, HeadTailSet
  <1>5. reply.cmds \in SUBSET Cmds
    BY <1>4 DEF Reply
  <1> HIDE DEF reply
  <1>6. /\ results' \in Seq(Cmds) /\ Range(results) \subseteq Range(results') \cup has
    BY <1>1, UnreportedSet, Zenon
  <1>7. batch = {} /\ cur = NoCmd /\ phase = "idle"
    BY <1>1 DEF ControlInv, WorkerInv
  <1>8. /\ queue' \in SUBSET Cmds /\ active' \in Int /\ inFlight' \in BOOLEAN
        /\ net' = "stream" => active' = Cardinality(queue')
    <2>1. inFlight' \in BOOLEAN
      BY <1>2, <1>3, Zenon
    <2>2. \/ net' # "stream" /\ queue' = queue /\ active' = active
          \/ queue' = reply.cmds /\ active' = Cardinality(reply.cmds)
      BY <1>2
    <2>3. QED
      BY <1>3, <1>5, <2>1, <2>2, Counts
  <1>9. /\ toCtrl' \in Seq(Update)
        /\ \A m \in Range(toCtrl') : m \in Range(toCtrl) \/ (m.ids \subseteq Range(results') /\ m.ids # {})
        /\ net' = "stream" /\ inFlight' => \E m \in Range(toCtrl') : m.kind = "results"
    <2>1. CASE toCtrl' = toCtrl /\ ~(net' = "stream" /\ inFlight')
      BY <1>3, <2>1
    <2>2. CASE results' # <<>> /\ toCtrl' = Sent(toCtrl, results')
      BY <1>3, <1>6, <2>2, SendSet, ZenonT(60)
    <2>3. "closing" # "stream"
      OBVIOUS
    <2>4. QED
      BY <1>2, <2>1, <2>2, <2>3, ZenonT(60)
  <1>10. ControlTypes'
    BY <1>1, <1>4, <1>6, <1>8, <1>9 DEF ControlInv, ControlTypes
  <1>11. WorkerInv'
    <2>1. Cardinality(queue') \in Nat /\ Cardinality({}) = 0
      BY <1>8, Counts, FS_EmptySet
    <2>2. net' \in {"closing", "stream"}
      BY <1>2
    <2>3. QED
      BY <1>1, <1>7, <1>8, <2>1, <2>2 DEF WorkerInv
  <1>12. ReportInv'
    BY <1>2 DEF ReportInv
  <1>13. MessageInv'
    BY <1>1, <1>4, <1>6, <1>9, MessagesKept, Zenon DEF ControlInv
  <1>14. InFlightInv'
    BY <1>2, <1>9 DEF InFlightInv
  <1>15. QED
    BY <1>10, <1>11, <1>12, <1>13, <1>14 DEF ControlInv

\* The reply of a poll.
LEMMA PullReplyInv ==
    ASSUME ControlInv, PullReply
    PROVE  ControlInv'
  <1> DEFINE reply == Head(toAgent)
  <1>1. /\ net = "pull" /\ toAgent # <<>> /\ results' = Unreported /\ sentCount' = 0
        /\ toAgent' = Tail(toAgent)
        /\ UNCHANGED <<order, queue, cur, phase, active, inFlight, hcur, toCtrl, want, has>>
    BY ZenonT(60) DEF PullReply, direct, controller, stream
  <1>2. \/ net' \in {"window", "down"} /\ batch' = batch
        \/ net' = "accept" /\ batch' = reply.cmds
    BY ZenonT(60) DEF PullReply, AfterPull
  <1>3. toCtrl \in Seq(Update) /\ toAgent \in Seq(Reply) /\ batch \in SUBSET Cmds
    BY DEF ControlInv, ControlTypes
  <1>4. reply \in Reply /\ toAgent' \in Seq(Reply) /\ Range(toAgent') \subseteq Range(toAgent)
    BY <1>1, <1>3, HeadTailSet
  <1>5. reply.cmds \in SUBSET Cmds
    BY <1>4 DEF Reply
  <1> HIDE DEF reply
  <1>6. results' \in Seq(Cmds) /\ Range(results) \subseteq Range(results') \cup has
    BY <1>1, UnreportedSet, Zenon
  <1>7. batch = {} /\ cur = NoCmd /\ phase = "idle"
    BY <1>1 DEF ControlInv, WorkerInv
  <1>8. ControlTypes'
    BY <1>1, <1>2, <1>3, <1>4, <1>5, <1>6 DEF ControlInv, ControlTypes
  <1>9. WorkerInv' /\ ReportInv' /\ InFlightInv'
    BY <1>1, <1>2, <1>7 DEF WorkerInv, ReportInv, InFlightInv
  <1>10. MessageInv'
    BY <1>1, <1>4, <1>6, MessagesKept, Zenon DEF ControlInv
  <1>11. QED
    BY <1>8, <1>9, <1>10 DEF ControlInv

\* What sendResults does to the messages.
LEMMA SendResultsSet ==
    ASSUME NEW pending \in Seq(Cmds), NEW busy \in BOOLEAN, toCtrl \in Seq(Update),
           SendResults(pending, busy)
    PROVE  /\ toCtrl' \in Seq(Update) /\ inFlight' \in BOOLEAN /\ Range(toCtrl) \subseteq Range(toCtrl')
           /\ \A m \in Range(toCtrl') : m \in Range(toCtrl) \/ (m.ids \subseteq Range(pending) /\ m.ids # {})
           /\ inFlight' => busy \/ \E m \in Range(toCtrl') : m.kind = "results"
  <1>1. CASE busy \/ pending = <<>>
    <2>1. inFlight' = busy /\ toCtrl' = toCtrl
      BY <1>1 DEF SendResults
    <2>2. QED
      BY <2>1
  <1>2. CASE ~(busy \/ pending = <<>>)
    <2>1. inFlight' = TRUE /\ toCtrl' = Sent(toCtrl, pending)
      BY <1>2, ZenonT(60) DEF SendResults, Sent
    <2>2. QED
      BY <1>2, <2>1, SendSet, ZenonT(60)
  <1>3. QED
    BY <1>1, <1>2

\* The network loop is woken.
LEMMA StreamReadyInv ==
    ASSUME ControlInv, StreamReady
    PROVE  ControlInv'
  <1>1. /\ net = "stream" /\ SendResults(results, inFlight)
        /\ UNCHANGED <<results, sentCount, order, net, queue, batch, cur, phase, active, hcur,
                       toAgent, want, has>>
    BY ZenonT(60) DEF StreamReady, client, worker, direct, controller
  <1>2. results \in Seq(Cmds) /\ toCtrl \in Seq(Update) /\ inFlight \in BOOLEAN
    BY DEF ControlInv, ControlTypes
  <1>3. /\ toCtrl' \in Seq(Update) /\ inFlight' \in BOOLEAN /\ Range(toCtrl) \subseteq Range(toCtrl')
        /\ \A m \in Range(toCtrl') : m \in Range(toCtrl) \/ (m.ids \subseteq Range(results) /\ m.ids # {})
        /\ inFlight' => inFlight \/ \E m \in Range(toCtrl') : m.kind = "results"
    BY <1>1, <1>2, SendResultsSet, ZenonT(60)
  <1>4. ControlTypes' /\ WorkerInv' /\ ReportInv'
    BY <1>1, <1>3 DEF ControlInv, ControlTypes, WorkerInv, ReportInv
  <1>5. results' = results /\ toAgent' = toAgent /\ has' = has /\ net' = net
    BY <1>1
  <1>6. MessageInv'
    BY <1>3, <1>5, MessagesKept, ZenonT(60) DEF ControlInv
  <1>7. InFlightInv'
    BY <1>3, <1>5, ZenonT(60) DEF ControlInv, InFlightInv
  <1>8. QED
    BY <1>4, <1>6, <1>7 DEF ControlInv

\* A reply on a stream.
LEMMA StreamReplyInv ==
    ASSUME ControlInv, StreamReply
    PROVE  ControlInv'
  <1> DEFINE reply == Head(toAgent)
             busy == inFlight /\ reply.acks = {}
  <1>1. /\ net = "stream" /\ toAgent # <<>> /\ toAgent' = Tail(toAgent)
        /\ results' = Kept(reply.acks) /\ active' = active + Cardinality(reply.cmds)
        /\ UNCHANGED <<sentCount, order, batch, cur, phase, hcur, want, has>>
    BY ZenonT(60) DEF StreamReply, direct, controller
  <1>2. \/ net' = "closing" /\ inFlight' = busy /\ toCtrl' = toCtrl /\ queue' = queue
        \/ /\ net' = "settle" /\ SendResults(results', busy)
           /\ \/ reply.cmds # {} /\ queue = {} /\ queue' = reply.cmds
              \/ reply.cmds = {} /\ queue' = queue
    BY ZenonT(60) DEF StreamReply
  <1>3. /\ results \in Seq(Cmds) /\ toCtrl \in Seq(Update) /\ toAgent \in Seq(Reply)
        /\ queue \in SUBSET Cmds /\ batch \in SUBSET Cmds /\ active \in Int /\ inFlight \in BOOLEAN
    BY DEF ControlInv, ControlTypes
  <1>4. /\ reply \in Reply /\ toAgent' \in Seq(Reply)
        /\ Range(toAgent) = {reply} \cup Range(toAgent')
    BY <1>1, <1>3, HeadTailSet
  <1>5. reply.cmds \in SUBSET Cmds
    BY <1>4 DEF Reply
  <1>6. busy \in BOOLEAN /\ (busy <=> inFlight /\ reply.acks = {})
    BY <1>3
  <1> HIDE DEF reply, busy
  <1>7. results' \in Seq(Cmds) /\ Range(results') = Range(results) \ reply.acks
    BY <1>1, <1>3, KeptResults
  <1>8. reply.acks \subseteq has
    BY <1>4, Zenon DEF ControlInv, MessageInv
  <1>9. /\ toCtrl' \in Seq(Update) /\ inFlight' \in BOOLEAN /\ Range(toCtrl) \subseteq Range(toCtrl')
        /\ \A m \in Range(toCtrl') : m \in Range(toCtrl) \/ (m.ids \subseteq Range(results') /\ m.ids # {})
        /\ inFlight' => busy \/ \E m \in Range(toCtrl') : m.kind = "results"
    <2>1. CASE inFlight' = busy /\ toCtrl' = toCtrl
      BY <1>3, <1>6, <2>1
    <2>2. CASE SendResults(results', busy)
      BY <1>3, <1>6, <1>7, <2>2, SendResultsSet, ZenonT(60)
    <2>3. QED
      BY <1>2, <2>1, <2>2, ZenonT(60)
  <1>10. Cardinality(reply.cmds) \in Nat /\ Cardinality(queue) \in Nat /\ Cardinality(batch) \in Nat
    BY <1>3, <1>5, Counts
  <1>11. ControlTypes'
    <2>1. queue' = queue \/ queue' = reply.cmds
      BY <1>2, Zenon
    <2>2. queue' \in SUBSET Cmds
      BY <1>3, <1>5, <2>1, Zenon
    <2>3. active' \in Int
      BY <1>1, <1>3, <1>10
    <2>4. QED
      BY <1>1, <1>4, <1>7, <1>9, <2>2, <2>3 DEF ControlInv, ControlTypes
  <1>12. WorkerInv'
    <2>1. active = Cardinality(queue) + Cardinality(batch) + (IF cur = NoCmd THEN 0 ELSE 1)
      BY <1>1 DEF ControlInv, WorkerInv
    <2>2. net' = "settle" => Cardinality(queue') = Cardinality(queue) + Cardinality(reply.cmds)
      <3>1. Cardinality({}) = 0
        BY FS_EmptySet
      <3>2. \/ net' = "closing"
            \/ queue = {} /\ queue' = reply.cmds
            \/ reply.cmds = {} /\ queue' = queue
        BY <1>2, Zenon
      <3>3. CASE queue = {} /\ queue' = reply.cmds
        <4>1. Cardinality(queue) = 0 /\ Cardinality(queue') = Cardinality(reply.cmds)
          BY <3>1, <3>3, Zenon
        <4>2. QED
          BY <1>10, <4>1
      <3>4. CASE reply.cmds = {} /\ queue' = queue
        <4>1. Cardinality(reply.cmds) = 0 /\ Cardinality(queue') = Cardinality(queue)
          BY <3>1, <3>4, Zenon
        <4>2. QED
          BY <1>10, <4>1
      <3>5. CASE net' = "closing"
        BY <3>5
      <3>6. QED
        BY <3>2, <3>3, <3>4, <3>5, Zenon
    <2>3. net' \in {"closing", "settle"}
      BY <1>2
    <2>4. (phase = "idle" <=> cur = NoCmd)
      BY DEF ControlInv, WorkerInv
    <2>5. net' = "settle" =>
            active' = Cardinality(queue') + Cardinality(batch') + (IF cur' = NoCmd THEN 0 ELSE 1)
      <3> DEFINE hand == IF cur = NoCmd THEN 0 ELSE 1
      <3>1. hand \in Nat /\ hand' = hand /\ active = Cardinality(queue) + Cardinality(batch) + hand
        BY <1>1, <2>1
      <3>2. Cardinality(batch') = Cardinality(batch)
        BY <1>1
      <3> HIDE DEF hand
      <3>3. net' = "settle" => active' = Cardinality(queue') + Cardinality(batch') + hand'
        BY <1>1, <1>10, <2>2, <3>1, <3>2
      <3>4. QED
        BY <3>3 DEF hand
    <2>6. QED
      BY ZenonT(60), <1>1, <2>3, <2>4, <2>5 DEF WorkerInv
  <1>13. ReportInv'
    BY <1>2 DEF ReportInv
  <1>14. MessageInv'
    <2>1. Range(results) \subseteq Range(results') \cup has /\ Range(toAgent') \subseteq Range(toAgent)
      BY <1>4, <1>7, <1>8
    <2>2. QED
      BY <1>1, <1>9, <2>1, MessagesKept, ZenonT(60) DEF ControlInv
  <1>15. InFlightInv'
    <2> SUFFICES ASSUME inFlight', ~ \E m \in Range(toCtrl') : m.kind = "results"
                 PROVE  \E m \in Range(toAgent') : m.acks # {}
      BY Zenon DEF InFlightInv
    <2>1. inFlight /\ reply.acks = {}
      BY <1>6, <1>9, Zenon
    <2>2. PICK m \in Range(toAgent) : m.acks # {}
      BY <1>1, <1>9, <2>1, ZenonT(60) DEF ControlInv, InFlightInv
    <2>3. QED
      BY <1>4, <2>1, <2>2, Zenon
  <1>16. QED
    BY <1>11, <1>12, <1>13, <1>14, <1>15 DEF ControlInv

\* The end of a reply.
LEMMA StreamSettleInv ==
    ASSUME ControlInv, StreamSettle
    PROVE  ControlInv'
  <1>1. /\ net = "settle" /\ net' \in {"closing", "stream"}
        /\ UNCHANGED <<results, sentCount, order, queue, batch, cur, phase, active, inFlight, hcur,
                       toCtrl, toAgent, want, has>>
    BY ZenonT(60) DEF StreamSettle, worker, direct, channels, controller
  <1>2. ControlTypes' /\ WorkerInv' /\ ReportInv' /\ MessageInv' /\ InFlightInv'
    BY <1>1 DEF ControlInv, ControlTypes, WorkerInv, ReportInv, MessageInv, InFlightInv
  <1>3. QED
    BY <1>2 DEF ControlInv

\* A stream has returned, or a connection is lost.
LEMMA LossInv ==
    ASSUME ControlInv, StreamClosed \/ ConnectionLost
    PROVE  ControlInv'
  <1>1. /\ toCtrl' = <<>> /\ toAgent' = <<>>
        /\ UNCHANGED <<results, sentCount, order, cur, phase, hcur, want, has>>
    BY ZenonT(60) DEF StreamClosed, ConnectionLost, client, worker, direct, controller
  <1>2. \/ /\ net' \in {"window", "down"} /\ cur = NoCmd
           /\ queue' = {} /\ batch' = {} /\ active' = 0 /\ inFlight' = FALSE
        \/ /\ net \in {"hello", "pull", "stream"}
           /\ net' = "closing" \/ (net = "pull" /\ net' \in {"window", "down"})
           /\ UNCHANGED <<queue, batch, active, inFlight>>
    BY ZenonT(60) DEF StreamClosed, ConnectionLost, AfterPull, AfterStream, worker, stream
  <1>3. net' \in {"window", "down"} => batch' = {} /\ cur' = NoCmd
    BY <1>1, <1>2 DEF ControlInv, WorkerInv
  <1>4. net' \in {"window", "down", "closing"}
    BY <1>2
  <1>5. ControlTypes'
    <2>1. toCtrl' \in Seq(Update) /\ toAgent' \in Seq(Reply)
      BY <1>1
    <2>2. queue' \in SUBSET Cmds /\ batch' \in SUBSET Cmds /\ active' \in Int /\ inFlight' \in BOOLEAN
      <3>1. queue \in SUBSET Cmds /\ batch \in SUBSET Cmds /\ active \in Int /\ inFlight \in BOOLEAN
        BY DEF ControlInv, ControlTypes
      <3>2. \/ queue' = {} /\ batch' = {} /\ active' = 0 /\ inFlight' = FALSE
            \/ UNCHANGED <<queue, batch, active, inFlight>>
        BY <1>2, Zenon
      <3>3. CASE queue' = {} /\ batch' = {} /\ active' = 0 /\ inFlight' = FALSE
        <4>1. {} \in SUBSET Cmds /\ 0 \in Int /\ FALSE \in BOOLEAN
          OBVIOUS
        <4>2. QED
          BY <3>3, <4>1, Zenon
      <3>4. CASE UNCHANGED <<queue, batch, active, inFlight>>
        BY <3>1, <3>4
      <3>5. QED
        BY <3>2, <3>3, <3>4, Zenon
    <2>3. QED
      BY <1>1, <2>1, <2>2 DEF ControlInv, ControlTypes
  <1>6. WorkerInv' /\ ReportInv' /\ InFlightInv'
    BY <1>1, <1>3, <1>4 DEF ControlInv, WorkerInv, ReportInv, InFlightInv
  <1>7. MessageInv'
    BY <1>1, SmallSets DEF MessageInv
  <1>8. QED
    BY <1>5, <1>6, <1>7 DEF ControlInv

\* A message to the agent, and what follows it.
Answered(old, acks, cmds) == Append(old, [acks |-> acks, cmds |-> cmds, mode |-> want])

LEMMA AnsweredSet ==
    ASSUME NEW old \in Seq(Reply), NEW acks \in SUBSET Cmds, NEW cmds \in SUBSET Cmds, want \in Modes
    PROVE  /\ Answered(old, acks, cmds) \in Seq(Reply) /\ Range(old) \subseteq Range(Answered(old, acks, cmds))
           /\ \A m \in Range(Answered(old, acks, cmds)) : m \in Range(old) \/ m.acks = acks
           /\ \E m \in Range(Answered(old, acks, cmds)) : m.acks = acks
  <1> DEFINE r == [acks |-> acks, cmds |-> cmds, mode |-> want]
  <1>1. r \in Reply /\ r.acks = acks
    BY DEF Reply
  <1>2. Answered(old, acks, cmds) = Append(old, r)
    BY DEF Answered
  <1> HIDE DEF r
  <1>3. Append(old, r) \in Seq(Reply) /\ Range(Append(old, r)) = Range(old) \cup {r}
    BY <1>1, AppendSet
  <1>4. QED
    BY <1>1, <1>2, <1>3

\* The controller answers a message.
LEMMA AnswerInv ==
    ASSUME ControlInv, CtrlAnswer
    PROVE  ControlInv'
  <1> DEFINE msg == Head(toCtrl)
             acks == IF msg.kind = "report" THEN {} ELSE msg.ids
  <1>1. /\ toCtrl # <<>> /\ toCtrl' = Tail(toCtrl) /\ has' = has \cup msg.ids
        /\ UNCHANGED <<results, sentCount, order, net, queue, batch, cur, phase, active, inFlight, hcur, want>>
    BY ZenonT(60) DEF CtrlAnswer, client, worker, stream, direct
  <1>2. PICK cmds \in SUBSET (Undone \ msg.ids) : toAgent' = Answered(toAgent, acks, cmds)
    BY ZenonT(60) DEF CtrlAnswer, Answered
  <1>3. /\ toCtrl \in Seq(Update) /\ toAgent \in Seq(Reply) /\ want \in Modes /\ has \in SUBSET Cmds
    BY DEF ControlInv, ControlTypes
  <1>4. /\ msg \in Update /\ toCtrl' \in Seq(Update) /\ Range(toCtrl) = {msg} \cup Range(toCtrl')
    BY <1>1, <1>3, HeadTailSet
  <1>5. /\ msg.ids \in SUBSET Cmds /\ acks \in SUBSET Cmds /\ acks \subseteq msg.ids /\ cmds \in SUBSET Cmds
        /\ msg.kind = "results" => acks = msg.ids
    BY <1>4 DEF Update, Undone
  <1> HIDE DEF msg, acks
  <1>6. /\ toAgent' \in Seq(Reply) /\ Range(toAgent) \subseteq Range(toAgent')
        /\ \A m \in Range(toAgent') : m \in Range(toAgent) \/ m.acks = acks
        /\ \E m \in Range(toAgent') : m.acks = acks
    BY <1>2, <1>3, <1>5, AnsweredSet, ZenonT(60)
  <1>7. ControlTypes' /\ WorkerInv'
    <2>1. has' \in SUBSET Cmds
      BY <1>1, <1>3, <1>5
    <2>2. QED
      BY <1>1, <1>4, <1>6, <2>1 DEF ControlInv, ControlTypes, WorkerInv
  <1>8. ReportInv'
    <2> SUFFICES ASSUME net \in {"hello", "pull"}
                 PROVE  /\ sentCount = Len(ResultBatch(results))
                        /\ toCtrl' = <<>> /\ Range(ResultBatch(results)) \subseteq has'
      BY <1>1 DEF ReportInv, ResultBatch
    <2> DEFINE rep == [kind |-> "report", ids |-> Range(ResultBatch(results))]
    <2>1. sentCount = Len(ResultBatch(results)) /\ toCtrl = <<rep>>
      BY <1>1, Zenon DEF ControlInv, ReportInv
    <2>2. toCtrl' = <<>> /\ msg = rep
      BY <1>1, <2>1 DEF msg
    <2>3. QED
      BY <1>1, <2>1, <2>2
  <1>9. MessageInv'
    <2>1. ASSUME NEW m \in Range(toCtrl')
          PROVE  m.ids \subseteq Range(results') \cup has' /\ (m.kind = "results" => m.ids # {})
      <3>1. m.ids \subseteq Range(results) \cup has /\ (m.kind = "results" => m.ids # {})
        BY <1>4, <2>1, Zenon DEF ControlInv, MessageInv
      <3>2. results' = results
        BY <1>1
      <3>3. QED
        BY <1>1, <3>1, <3>2, Zenon
    <2>2. ASSUME NEW m \in Range(toAgent') PROVE m.acks \subseteq has'
      <3>1. m \in Range(toAgent) => m.acks \subseteq has
        BY Zenon DEF ControlInv, MessageInv
      <3>2. QED
        BY <1>1, <1>5, <1>6, <3>1
    <2>3. QED
      BY <2>1, <2>2, Zenon DEF MessageInv
  <1>10. InFlightInv'
    <2> SUFFICES ASSUME net \in {"stream", "settle"}, inFlight,
                        ~ \E m \in Range(toCtrl') : m.kind = "results"
                 PROVE  \E m \in Range(toAgent') : m.acks # {}
      BY <1>1, Zenon DEF InFlightInv
    <2>1. CASE \E m \in Range(toAgent) : m.acks # {}
      BY <1>6, <2>1, Zenon
    <2>2. CASE \E m \in Range(toCtrl) : m.kind = "results"
      <3>1. msg.kind = "results" /\ msg.ids # {}
        BY <1>4, <2>2, Zenon DEF ControlInv, MessageInv
      <3>2. QED
        BY <1>5, <1>6, <3>1, Zenon
    <2>3. QED
      BY <2>1, <2>2, Zenon DEF ControlInv, InFlightInv
  <1>11. QED
    BY <1>7, <1>8, <1>9, <1>10 DEF ControlInv

\* The controller sends commands, or answers a heartbeat, on an open stream.
LEMMA PushInv ==
    ASSUME ControlInv, CtrlPush \/ CtrlBeat
    PROVE  ControlInv'
  <1>1. /\ net \in {"stream", "settle"}
        /\ UNCHANGED <<results, sentCount, order, net, queue, batch, cur, phase, active, inFlight, hcur,
                       toCtrl, want, has>>
    BY ZenonT(60) DEF CtrlPush, CtrlBeat, client, worker, stream, direct, controller
  <1>2. toAgent \in Seq(Reply) /\ want \in Modes
    BY DEF ControlInv, ControlTypes
  <1>3. \E cmds \in SUBSET Cmds : toAgent' = Answered(toAgent, {}, cmds)
    <2>1. CASE CtrlPush
      <3>1. Undone \subseteq Cmds
        BY DEF Undone
      <3>2. QED
        BY <2>1, <3>1, ZenonT(60) DEF CtrlPush, Answered
    <2>2. CASE CtrlBeat
      <3>1. toAgent = <<>> /\ toAgent' = <<[acks |-> {}, cmds |-> {}, mode |-> want]>>
        BY <2>2, ZenonT(60) DEF CtrlBeat
      <3>2. toAgent' = Answered(toAgent, {}, {})
        BY <3>1 DEF Answered
      <3>3. QED
        BY <3>2, Zenon
    <2>3. QED
      BY <2>1, <2>2
  <1>4. /\ toAgent' \in Seq(Reply) /\ Range(toAgent) \subseteq Range(toAgent')
        /\ \A m \in Range(toAgent') : m \in Range(toAgent) \/ m.acks = {}
    <2>1. PICK cmds \in SUBSET Cmds : toAgent' = Answered(toAgent, {}, cmds)
      BY <1>3
    <2>2. {} \in SUBSET Cmds
      BY ZenonT(60)
    <2>3. QED
      BY <1>2, <2>1, <2>2, AnsweredSet, ZenonT(60)
  <1>5. ControlTypes' /\ WorkerInv' /\ ReportInv'
    BY ZenonT(60), <1>1, <1>4 DEF ControlInv, ControlTypes, WorkerInv, ReportInv
  <1>6. MessageInv' /\ InFlightInv'
    BY <1>1, <1>4, ZenonT(60) DEF ControlInv, MessageInv, InFlightInv
  <1>7. QED
    BY <1>5, <1>6 DEF ControlInv

-----------------------------------------------------------------------------
(* The invariant, and what follows from it. *)

\* A new client.
LEMMA ControlInitInv == Init => ControlInv
  <1> SUFFICES ASSUME Init PROVE ControlInv
    OBVIOUS
  <1>1. /\ results = <<>> /\ sentCount = 0 /\ order = <<>> /\ net = "down" /\ hcur = NoCmd
        /\ queue = {} /\ batch = {} /\ cur = NoCmd /\ phase = "idle" /\ active = 0 /\ inFlight = FALSE
        /\ toCtrl = <<>> /\ toAgent = <<>> /\ want \in Modes /\ has = {}
    BY Zenon DEF Init
  <1>2. ControlTypes
    <2>1. /\ <<>> \in Seq(Cmds) /\ 0 \in Nat /\ <<>> \in Seq(Cmds \cup {NoCmd}) /\ NoCmd \in Cmds \cup {NoCmd}
          /\ {} \in SUBSET Cmds /\ 0 \in Int /\ <<>> \in Seq(Update) /\ <<>> \in Seq(Reply)
      OBVIOUS
    <2>2. FALSE \in BOOLEAN
      BY ZenonT(60)
    <2>3. QED
      BY <1>1, <2>1, <2>2, Zenon DEF ControlTypes
  <1>3. WorkerInv /\ ReportInv /\ InFlightInv
    BY ZenonT(60), <1>1 DEF WorkerInv, ReportInv, InFlightInv
  <1>4. MessageInv
    BY <1>1, SmallSets DEF MessageInv
  <1>5. QED
    BY <1>2, <1>3, <1>4 DEF ControlInv

\* Every step keeps the invariant.
LEMMA ControlNextInv == ControlInv /\ [Next]_vars => ControlInv'
  <1> SUFFICES ASSUME ControlInv, [Next]_vars PROVE ControlInv'
    OBVIOUS
  <1>1. CASE Worker
    BY <1>1, WorkerStepInv
  <1>2. CASE Loop
    BY <1>2, StreamFirstInv, StreamReadyInv, StreamReplyInv, StreamSettleInv, LossInv, Zenon DEF Loop
  <1>3. CASE Poll
    BY <1>3, PullReplyInv, PullDoneInv, Zenon DEF Poll
  <1>4. CASE Open
    BY <1>4, ReportStepInv, ListenerInv, Zenon DEF Open
  <1>5. CASE ConnectionLost
    BY <1>5, LossInv
  <1>6. CASE Direct \/ DirectLost \/ Listener \/ Quiet \/ CtrlCall \/ CtrlReport \/ CtrlWant
    BY <1>6, ListenerInv, Zenon
  <1>7. CASE CtrlAnswer
    BY <1>7, AnswerInv
  <1>8. CASE CtrlPush \/ CtrlBeat
    BY <1>8, PushInv
  <1>9. CASE UNCHANGED vars
    <2>1. UNCHANGED <<results, sentCount, order, net, queue, batch, cur, phase, active, inFlight, hcur,
                      toCtrl, toAgent, want, has>>
      BY <1>9, ZenonT(60) DEF vars, client, worker, stream, direct, channels, controller
    <2>2. QED
      BY <2>1 DEF ControlInv, ControlTypes, WorkerInv, ReportInv, MessageInv, InFlightInv
  <1>10. QED
    BY <1>1, <1>2, <1>3, <1>4, <1>5, <1>6, <1>7, <1>8, <1>9, Zenon DEF Next

\* The inductive invariant of the control client holds in every reachable state.
THEOREM ControlInvariance == Spec => []ControlInv
  BY ControlInitInv, ControlNextInv, PTL DEF Spec

\* The mark that results are in flight is never left behind: while it is set
\* on an open stream, the update or its acknowledgement is on its way
\* (stream.go, sendResults and the replies), for every number of commands,
\* batch size and fault.
THEOREM InFlightNeverStuck == Spec => []InFlightReal
  <1>1. ControlInv => InFlightReal
    BY Zenon DEF ControlInv, InFlightInv, InFlightReal, Range
  <1>2. QED
    BY <1>1, ControlInvariance, PTL

\* A stream on which nothing is active has no command in the worker's hands.
LEMMA NothingActive ==
    ASSUME ControlInv, net \in {"stream", "settle"}, active = 0
    PROVE  cur = NoCmd
  <1> SUFFICES ASSUME cur # NoCmd PROVE FALSE
    OBVIOUS
  <1>1. active = Cardinality(queue) + Cardinality(batch) + 1
    BY DEF ControlInv, WorkerInv
  <1>2. Cardinality(queue) \in Nat /\ Cardinality(batch) \in Nat
    BY Counts DEF ControlInv, ControlTypes
  <1>3. QED
    BY <1>1, <1>2

\* The steps that may change the mode, and what they find.
LEMMA ModeSteps ==
    ASSUME ControlInv, Next, mode' # mode, hphase' = hphase
    PROVE  Owed \subseteq has
  <1>1. CASE StreamFirst \/ PullReply
    <2>1. net \in {"hello", "pull"} /\ toAgent # <<>> /\ Unreported = <<>>
      BY <1>1, ZenonT(60) DEF StreamFirst, PullReply, Adopt, RefuseMode
    <2>2. Range(results) \subseteq Range(Unreported) \cup has
      BY <2>1, UnreportedSet, Zenon
    <2>3. phase # "append"
      BY <2>1 DEF ControlInv, WorkerInv
    <2>4. Range(Unreported) = {}
      BY <2>1, SmallSets
    <2>5. QED
      BY <2>2, <2>3, <2>4 DEF Owed
  <1>2. CASE StreamSettle
    <2>1. net = "settle" /\ active = 0 /\ results = <<>>
      BY <1>2, ZenonT(60) DEF StreamSettle, RefuseMode
    <2>2. cur = NoCmd
      BY <2>1, NothingActive
    <2>3. phase # "append"
      BY <2>2 DEF ControlInv, WorkerInv
    <2>4. QED
      BY <2>1, <2>3, SmallSets DEF Owed
  <1>3. CASE DirectExecute
    <2>1. hphase = "wait" /\ hphase' = "reply"
      BY <1>3, ZenonT(60) DEF DirectExecute
    <2>2. QED
      BY <2>1
  <1>4. CASE \/ Worker \/ StreamReady \/ StreamReply \/ StreamClosed \/ PullDone \/ Open
             \/ ConnectionLost \/ DirectReply \/ DirectLost \/ Listener \/ Quiet \/ CtrlCall
             \/ CtrlReport \/ CtrlAnswer \/ CtrlPush \/ CtrlBeat \/ CtrlWant
    <2>1. mode' = mode
      <3>1. CASE Worker
        BY <3>1, ZenonT(60) DEF Worker, Take, Execute, AppendResult, Release, client
      <3>2. CASE StreamReady \/ StreamReply \/ StreamClosed \/ PullDone \/ ConnectionLost
        BY <3>2, ZenonT(60) DEF StreamReady, StreamReply, StreamClosed, PullDone, ConnectionLost, client
      <3>3. CASE Open
        BY <3>3, ZenonT(60) DEF Open, Dial, Pull, OpenDirect, Report, client
      <3>4. CASE DirectReply \/ DirectLost \/ Listener \/ Quiet
        BY <3>4, ZenonT(60) DEF DirectReply, DirectLost, Listener, StopListening, CloseConnections,
                                EndDirect, Quiet, client
      <3>5. CASE CtrlCall \/ CtrlReport \/ CtrlAnswer \/ CtrlPush \/ CtrlBeat \/ CtrlWant
        BY <3>5, ZenonT(60) DEF CtrlCall, CtrlReport, Request, CtrlAnswer, CtrlPush, CtrlBeat, CtrlWant, client
      <3>6. QED
        BY <1>4, <3>1, <3>2, <3>3, <3>4, <3>5, Zenon
    <2>2. QED
      BY <2>1
  <1>5. QED
    BY <1>1, <1>2, <1>3, <1>4, ZenonT(60) DEF Next, Loop, Poll, Direct

\* A report or a stream changes the connection mode only when the controller
\* has every result the agent keeps (acknowledge and the end of stream.go's
\* replies), however the worker's last result interleaves with the reply.
THEOREM ModeChangesQuiescent == Spec => ModeChangeQuiescent
  <1>1. ControlInv /\ [Next]_vars => [mode' # mode /\ hphase' = hphase => Owed \subseteq has]_vars
    BY ModeSteps, Zenon
  <1>2. QED
    BY <1>1, ControlInvariance, PTL DEF Spec, ModeChangeQuiescent

-----------------------------------------------------------------------------
(* Control implements Delivery. *)

\* What the refinement mapping reads.
mapped == <<order, results, phase, cur, hphase, hcur, has, runs, forgotten, dropped>>

\* A step that leaves it alone is a stutter of Delivery.
LEMMA Stutter ==
    ASSUME UNCHANGED mapped
    PROVE  UNCHANGED Abstract!deliveryVars
  BY DEF mapped, Abstract!deliveryVars, Abstract!memory, Owed, Lent, Range

\* execute, as Delivery sees it: a command is recalled or run.
LEMMA PerformObtains ==
    ASSUME ControlInv, NEW c \in Cmds, Perform(c)
    PROVE  Abstract!Recall(c) \/ Abstract!Run(c)
  <1>1. c # NoCmd /\ order \in Seq(Cmds \cup {NoCmd}) /\ c \in Cmds \cup {NoCmd}
    BY ControlAssumption DEF ControlInv, ControlTypes
  <1>2. CASE c \in Range(order)
    <2>1. UNCHANGED <<order, runs, forgotten>>
      BY <1>2, ZenonT(60) DEF Perform, history
    <2>2. Abstract!Recall(c)
      BY <1>1, <1>2, <2>1 DEF Abstract!Recall, Abstract!memory, Range
    <2>3. QED
      BY <2>2
  <1>3. CASE c \notin Range(order)
    <2> DEFINE old == Range(order) \ {NoCmd}
               new == Range(order') \ {NoCmd}
               rest == new \ {c}
    <2>1. /\ runs' = [runs EXCEPT ![c] = @ + 1] /\ order' = Remember(c)
          /\ forgotten' = forgotten \cup ((Range(order) \ Range(order')) \ {NoCmd})
      BY <1>3, ZenonT(60) DEF Perform
    <2>2. c \in Range(order') /\ Range(order') \subseteq Range(order) \cup {c}
      BY <1>1, <2>1, RememberSet, Zenon
    <2>3. rest \in SUBSET old /\ new = rest \cup {c} /\ c \notin old
      BY <1>1, <1>3, <2>2
    <2>4. forgotten' = forgotten \cup (old \ (rest \cup {c}))
      BY <1>1, <2>1, <2>2
    <2>5. Abstract!Retain(rest \cup {c})
      BY <2>3, <2>4, Zenon DEF Abstract!Retain
    <2>6. Abstract!Run(c)
      BY <2>1, <2>3, <2>5, Zenon DEF Abstract!Run
    <2>7. QED
      BY <2>6
  <1>4. QED
    BY <1>2, <1>3

\* The worker's steps: a command is obtained and kept, the rest is a stutter.
LEMMA WorkerDelivers ==
    ASSUME ControlInv, Worker
    PROVE  [Abstract!DeliveryNext]_(Abstract!deliveryVars)
  <1>1. CASE Take
    <2>1. UNCHANGED mapped
      BY <1>1, ZenonT(60) DEF Take, mapped, client, direct, controller, history
    <2>2. QED
      BY <2>1, Stutter, Zenon
  <1>2. ASSUME NEW c \in Cmds, Execute(c)
        PROVE  [Abstract!DeliveryNext]_(Abstract!deliveryVars)
    <2>1. /\ cur = NoCmd /\ cur' = c /\ phase' = "append" /\ Perform(c)
          /\ UNCHANGED <<results, hphase, hcur, has>>
      BY <1>2, ZenonT(60) DEF Execute, direct, controller
    <2>2. phase # "append"
      BY <2>1 DEF ControlInv, WorkerInv
    <2>3. Owed' = Owed \cup {c} /\ Lent' = Lent
      BY <2>1, <2>2 DEF Owed, Lent
    <2>4. UNCHANGED dropped
      BY <2>1, PerformOrder
    <2>5. Abstract!Keep(c)
      BY <2>1, <2>3, <2>4, PerformObtains, Zenon DEF Abstract!Keep
    <2>6. QED
      BY <2>5, Zenon DEF Abstract!DeliveryNext
  <1>3. CASE AppendResult
    <2>1. /\ phase = "append" /\ phase' = "release" /\ results' = Append(results, cur)
          /\ UNCHANGED <<order, cur, hphase, hcur, has, runs, forgotten, dropped>>
      BY <1>3, ZenonT(60) DEF AppendResult, direct, controller, history
    <2>2. results \in Seq(Cmds) /\ cur \in Cmds
      BY <2>1 DEF ControlInv, ControlTypes, WorkerInv
    <2>3. Range(results') = Range(results) \cup {cur}
      BY <2>1, <2>2, AppendSet
    <2>4. Owed' = Owed /\ Lent' = Lent
      BY <2>1, <2>3 DEF Owed, Lent
    <2>5. UNCHANGED Abstract!deliveryVars
      BY <2>1, <2>4 DEF Abstract!deliveryVars, Abstract!memory, Range
    <2>6. QED
      BY <2>5, Zenon
  <1>4. CASE Release
    <2>1. /\ phase = "release" /\ phase' = "idle"
          /\ UNCHANGED <<order, results, hphase, hcur, has, runs, forgotten, dropped>>
      BY <1>4, ZenonT(60) DEF Release, client, direct, controller, history
    <2>2. Owed' = Owed /\ Lent' = Lent
      BY <2>1 DEF Owed, Lent
    <2>3. UNCHANGED Abstract!deliveryVars
      BY <2>1, <2>2 DEF Abstract!deliveryVars, Abstract!memory, Range
    <2>4. QED
      BY <2>3, Zenon
  <1>5. QED
    BY <1>1, <1>2, <1>3, <1>4, Zenon DEF Worker

\* Dropping results the controller has is Delivery's Release.
LEMMA ReleaseDelivers ==
    ASSUME Range(results') \subseteq Range(results), Range(results) \subseteq Range(results') \cup has,
           UNCHANGED <<order, phase, cur, hphase, hcur, has, runs, forgotten, dropped>>
    PROVE  [Abstract!DeliveryNext]_(Abstract!deliveryVars)
  <1> DEFINE ids == Owed \ Owed'
  <1>1. Owed' \subseteq Owed /\ ids \subseteq has /\ Lent' = Lent
    BY DEF Owed, Lent
  <1>2. ids \in SUBSET (Owed \cap has) /\ Owed' = Owed \ ids
    BY <1>1
  <1> HIDE DEF ids
  <1>3. UNCHANGED Abstract!memory
    BY DEF Abstract!memory, Range
  <1>4. UNCHANGED has /\ UNCHANGED dropped
    OBVIOUS
  <1>5. Abstract!Release
    BY <1>1, <1>2, <1>3, <1>4, Zenon DEF Abstract!Release
  <1>6. QED
    BY <1>5, Zenon DEF Abstract!DeliveryNext

\* The network loop and the polls.
LEMMA LoopDelivers ==
    ASSUME ControlInv, Loop \/ Poll \/ Open \/ ConnectionLost
    PROVE  [Abstract!DeliveryNext]_(Abstract!deliveryVars)
  <1>1. CASE StreamFirst \/ PullReply
    <2>1. /\ net \in {"hello", "pull"} /\ toAgent # <<>> /\ results' = Unreported
          /\ UNCHANGED <<order, phase, cur, hphase, hcur, has, runs, forgotten, dropped>>
      BY <1>1, ZenonT(60) DEF StreamFirst, PullReply, direct, controller, history
    <2>2. /\ Range(results') \subseteq Range(results)
          /\ Range(results) \subseteq Range(results') \cup has
      BY <2>1, UnreportedSet, Zenon
    <2>3. QED
      BY <2>1, <2>2, ReleaseDelivers, Zenon
  <1>2. CASE StreamReply
    <2>1. /\ toAgent # <<>> /\ results' = Kept(Head(toAgent).acks)
          /\ UNCHANGED <<order, phase, cur, hphase, hcur, has, runs, forgotten, dropped>>
      BY <1>2, ZenonT(60) DEF StreamReply, direct, controller, history
    <2>2. results \in Seq(Cmds) /\ toAgent \in Seq(Reply)
      BY DEF ControlInv, ControlTypes
    <2>3. Head(toAgent) \in Range(toAgent)
      BY <2>1, <2>2, HeadTailSet
    <2>4. Head(toAgent).acks \subseteq has
      BY <2>3, Zenon DEF ControlInv, MessageInv
    <2>5. Range(results') = Range(results) \ Head(toAgent).acks
      BY <2>1, <2>2, KeptResults
    <2>6. /\ Range(results') \subseteq Range(results)
          /\ Range(results) \subseteq Range(results') \cup has
      BY <2>4, <2>5
    <2>7. QED
      BY <2>1, <2>6, ReleaseDelivers, Zenon
  <1>3. CASE StreamReady \/ StreamSettle \/ StreamClosed \/ PullDone \/ Open \/ ConnectionLost
    <2>1. UNCHANGED mapped
      BY <1>3, ZenonT(60) DEF StreamReady, StreamSettle, StreamClosed, PullDone, Open, Dial, Pull,
           Report, OpenDirect, ConnectionLost, mapped, client, worker, direct, controller, history
    <2>2. QED
      BY <2>1, Stutter, Zenon
  <1>4. QED
    BY <1>1, <1>2, <1>3, ZenonT(60) DEF Loop, Poll

\* The direct listener and its handlers.
LEMMA DirectDelivers ==
    ASSUME ControlInv, Direct \/ DirectLost \/ Listener \/ Quiet \/ CtrlCall \/ CtrlReport
    PROVE  [Abstract!DeliveryNext]_(Abstract!deliveryVars)
  <1>0. hcur \in Cmds \cup {NoCmd} /\ order \in Seq(Cmds \cup {NoCmd})
    BY DEF ControlInv, ControlTypes
  <1>1. CASE DirectExecute
    <2>1. /\ hphase = "wait" /\ hphase' = "reply"
          /\ UNCHANGED <<results, phase, cur, hcur, has>>
      BY <1>1, ZenonT(60) DEF DirectExecute, worker, controller
    <2>2. Owed' = Owed /\ Lent = {} /\ Lent' = {hcur} \ {NoCmd}
      BY <2>1 DEF Owed, Lent
    <2>3. CASE hcur # NoCmd /\ Perform(hcur)
      <3>1. hcur \in Cmds /\ Lent' = {hcur}
        BY <1>0, <2>2, <2>3
      <3>2. UNCHANGED dropped
        BY <2>3, <3>1, PerformOrder
      <3>3. Abstract!Recall(hcur) \/ Abstract!Run(hcur)
        BY <2>3, <3>1, PerformObtains
      <3>4. Abstract!Lend(hcur)
        BY <2>1, <2>2, <3>1, <3>2, <3>3, Zenon DEF Abstract!Lend
      <3>5. QED
        BY <3>1, <3>4, Zenon DEF Abstract!DeliveryNext
    <2>4. CASE /\ hcur = NoCmd /\ order' = Remember(NoCmd)
               /\ forgotten' = forgotten \cup ((Range(order) \ Range(order')) \ {NoCmd})
               /\ UNCHANGED <<runs, dropped>>
      <3> DEFINE old == Range(order) \ {NoCmd}
                 new == Range(order') \ {NoCmd}
      <3>1. Range(order') \subseteq Range(order) \cup {NoCmd}
        BY <1>0, <2>4, RememberSet, Zenon
      <3>2. new \in SUBSET old /\ forgotten' = forgotten \cup (old \ new)
        BY <2>4, <3>1
      <3>3. Abstract!Retain(new)
        BY <3>2, Zenon DEF Abstract!Retain
      <3>4. Lent' = Lent
        BY <2>2, <2>4
      <3>5. Abstract!Evict
        BY <2>1, <2>2, <2>4, <3>2, <3>3, <3>4, Zenon DEF Abstract!Evict
      <3>6. QED
        BY <3>5, Zenon DEF Abstract!DeliveryNext
    <2>5. CASE hcur = NoCmd /\ UNCHANGED <<order, runs, forgotten, dropped>>
      <3>1. Lent' = Lent
        BY <2>2, <2>5
      <3>2. UNCHANGED Abstract!deliveryVars
        BY <2>1, <2>2, <2>5, <3>1 DEF Abstract!deliveryVars, Abstract!memory, Range
      <3>3. QED
        BY <3>2, Zenon
    <2>6. QED
      BY <1>1, <2>3, <2>4, <2>5, ZenonT(60) DEF DirectExecute, history
  <1>2. CASE DirectReply
    <2>1. /\ hphase = "reply" /\ hphase' = "idle"
          /\ UNCHANGED <<order, results, phase, cur, runs, forgotten>>
          /\ \/ has' = has \cup ({hcur} \ {NoCmd}) /\ UNCHANGED dropped
             \/ dropped' = dropped \cup ({hcur} \ {NoCmd}) /\ UNCHANGED has
      BY <1>2, ZenonT(60) DEF DirectReply, client, worker
    <2>2. Owed' = Owed /\ Lent = {hcur} \ {NoCmd} /\ Lent' = {}
      BY <2>1 DEF Owed, Lent
    <2>3. UNCHANGED Abstract!memory
      BY <2>1 DEF Abstract!memory, Range
    <2>4. Abstract!Respond
      BY <2>1, <2>2, <2>3, Zenon DEF Abstract!Respond
    <2>5. QED
      BY <2>4, Zenon DEF Abstract!DeliveryNext
  <1>3. CASE DirectLost \/ Listener \/ Quiet
    <2>1. UNCHANGED mapped
      BY <1>3, ZenonT(60) DEF DirectLost, Listener, StopListening, CloseConnections, EndDirect, Quiet,
           mapped, client, worker, direct, controller, history
    <2>2. QED
      BY <2>1, Stutter, Zenon
  <1>4. CASE CtrlCall \/ CtrlReport
    <2>1. /\ hphase = "idle" /\ hphase' = "wait"
          /\ UNCHANGED <<order, results, phase, cur, has, runs, forgotten, dropped>>
      BY <1>4, ZenonT(60) DEF CtrlCall, CtrlReport, Request, client, worker, controller, history
    <2>2. Owed' = Owed /\ Lent' = Lent
      BY <2>1 DEF Owed, Lent
    <2>3. UNCHANGED Abstract!deliveryVars
      BY <2>1, <2>2 DEF Abstract!deliveryVars, Abstract!memory, Range
    <2>4. QED
      BY <2>3, Zenon
  <1>5. QED
    BY <1>1, <1>2, <1>3, <1>4, Zenon DEF Direct

\* The controller's steps on a connection of the agent.
LEMMA ControllerDelivers ==
    ASSUME ControlInv, CtrlAnswer \/ CtrlPush \/ CtrlBeat \/ CtrlWant
    PROVE  [Abstract!DeliveryNext]_(Abstract!deliveryVars)
  <1>1. CASE CtrlAnswer
    <2> DEFINE ids == Head(toCtrl).ids \ has
    <2>1. /\ toCtrl # <<>> /\ has' = has \cup Head(toCtrl).ids
          /\ UNCHANGED <<order, results, phase, cur, hphase, hcur, runs, forgotten, dropped>>
      BY <1>1, ZenonT(60) DEF CtrlAnswer, client, worker, direct, history
    <2>2. toCtrl \in Seq(Update)
      BY DEF ControlInv, ControlTypes
    <2>3. Head(toCtrl) \in Range(toCtrl)
      BY <2>1, <2>2, HeadTailSet
    <2>4. Head(toCtrl).ids \subseteq Range(results) \cup has
      BY <2>3, Zenon DEF ControlInv, MessageInv
    <2>5. ids \in SUBSET Owed /\ has' = has \cup ids
      BY <2>1, <2>4 DEF Owed
    <2>6. Owed' = Owed /\ Lent' = Lent
      BY <2>1 DEF Owed, Lent
    <2>7. UNCHANGED Abstract!memory
      BY <2>1 DEF Abstract!memory, Range
    <2> HIDE DEF ids
    <2>8. UNCHANGED dropped
      BY <2>1
    <2>9. Abstract!Receive
      BY <2>5, <2>6, <2>7, <2>8, Zenon DEF Abstract!Receive
    <2>10. QED
      BY <2>9, Zenon DEF Abstract!DeliveryNext
  <1>2. CASE CtrlPush \/ CtrlBeat \/ CtrlWant
    <2>1. UNCHANGED mapped
      BY <1>2, ZenonT(60) DEF CtrlPush, CtrlBeat, CtrlWant, mapped, client, worker, direct, controller, history
    <2>2. QED
      BY <2>1, Stutter, Zenon
  <1>3. QED
    BY <1>1, <1>2

\* Every step of the client is a step of Delivery or leaves its state alone.
LEMMA StepDelivers ==
    ASSUME ControlInv, [Next]_vars
    PROVE  [Abstract!DeliveryNext]_(Abstract!deliveryVars)
  <1>1. CASE UNCHANGED vars
    <2>1. UNCHANGED mapped
      BY <1>1, ZenonT(60) DEF vars, mapped, client, worker, direct, controller, history
    <2>2. QED
      BY <2>1, Stutter, Zenon
  <1>2. CASE Next
    BY <1>2, WorkerDelivers, LoopDelivers, DirectDelivers, ControllerDelivers, ZenonT(60) DEF Next
  <1>3. QED
    BY <1>1, <1>2, Zenon

\* The control client implements Delivery: over streams, polls and direct
\* requests, with any number of commands, lost connections, restarted streams
\* and handlers that outlive their listener, a kept result is dropped only
\* when the controller has it and a remembered command is not run again.
THEOREM DeliveryImplemented == Spec => ImplementsDelivery
  <1>1. Init => Abstract!DeliveryInit
    BY SmallSets DEF Init, Abstract!DeliveryInit, Owed, Lent
  <1>2. QED
    BY <1>1, StepDelivers, ControlInvariance, PTL DEF Spec, ImplementsDelivery, Abstract!DeliverySpec

-----------------------------------------------------------------------------
(* What Delivery promises therefore holds of the client. *)

Promise == INSTANCE DeliveryProofs WITH
    remembered <- Range(order) \ {NoCmd}, kept <- Owed, lent <- Lent, answered <- has

\* Promise and Abstract are the same specification.
LEMMA SamePromise ==
    /\ Abstract!DeliveryInit => Promise!DeliveryInit
    /\ [Abstract!DeliveryNext]_(Abstract!deliveryVars) => [Promise!DeliveryNext]_(Promise!deliveryVars)
  BY Zenon DEF Abstract!DeliveryInit, Abstract!DeliveryNext, Abstract!deliveryVars, Abstract!memory,
     Abstract!Keep, Abstract!Lend, Abstract!Recall, Abstract!Run, Abstract!Retain, Abstract!Receive,
     Abstract!Release, Abstract!Respond, Abstract!Evict,
     Promise!DeliveryInit, Promise!DeliveryNext, Promise!deliveryVars, Promise!memory,
     Promise!Keep, Promise!Lend, Promise!Recall, Promise!Run, Promise!Retain, Promise!Receive,
     Promise!Release, Promise!Respond, Promise!Evict

\* A command the client ran has its result with the controller, kept for it or
\* in a direct response, unless such a response was lost; and it is run again
\* only after it was forgotten (the bound on Client.seen).
THEOREM ClientKeepsPromise == Spec => [](Promise!ResultRetained /\ Promise!AtMostOnce)
  BY DeliveryImplemented, SamePromise, Promise!ResultsRetained, Promise!RunAtMostOnce, PTL
     DEF ImplementsDelivery, Abstract!DeliverySpec, Promise!DeliverySpec

=============================================================================
