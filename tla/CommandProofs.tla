--------------------------- MODULE CommandProofs ----------------------------
(***************************************************************************)
(* Proofs about two commands of the controller.  Download, the speed test, *)
(* for any number of workers, budgets and size of a read: a measurement is *)
(* told apart from a failed one by the bytes its workers have left.  Logs, *)
(* for any lengths of records, size of a file, number of archives and      *)
(* budget of Read: the files are a chain, in which records rise within a   *)
(* file and from file to file, and the loop of Read, a recursive function, *)
(* is followed by the least number of files for which a claim would fail.  *)
(***************************************************************************)
EXTENDS Download, Logs, NaturalsInduction, WellFoundedInduction, FiniteSetTheorems, SequenceTheorems,
        TLAPS

-----------------------------------------------------------------------------
(* Download. *)

\* The bytes of the budget that are still to be read, each by its worker.
Unread(b, left) == {w \in Workers \X (1..b) : w[2] <= left[w[1]]}

DownloadTypes ==
    /\ budget \in ByteBudgets /\ count \in Nat /\ failures \in Nat
    /\ remaining \in [Workers -> Int] /\ responseBytes \in [Workers -> Nat]
    /\ at \in [Workers -> {"loop", "request", "read", "done"}]
    /\ over \in BOOLEAN /\ cancelled \in BOOLEAN /\ faulty \in BOOLEAN
    /\ verdict \in {"none", "cancelled", "unclean", "clean"}

\* What was read and what is unread make up the budget.
BudgetInv ==
    budget > 0 =>
       /\ remaining \in [Workers -> 0..budget]
       /\ count + Cardinality(Unread(budget, remaining)) = budget

\* A worker that ended without a fault, and before the time was over, has read
\* its share.
EndInv ==
    /\ faulty <=> failures > 0
    /\ \A i \in Workers : at[i] = "done" /\ ~over /\ ~faulty => budget > 0 /\ remaining[i] = 0

VerdictInv ==
    /\ verdict # "none" => \A i \in Workers : at[i] = "done"
    /\ verdict = "unclean" => faulty \/ over
    /\ verdict = "clean" => ~ faulty /\ (budget > 0 => count = budget)

DownloadInv == DownloadTypes /\ BudgetInv /\ EndInv /\ VerdictInv

\* The unread bytes are finitely many.
LEMMA UnreadFinite ==
    ASSUME NEW b \in Nat, NEW left
    PROVE  IsFiniteSet(Unread(b, left)) /\ Cardinality(Unread(b, left)) \in Nat
  <1>1. IsFiniteSet(Workers) /\ IsFiniteSet(1..b)
    BY FS_Interval, DownloadAssumption DEF Workers
  <1>2. IsFiniteSet(Workers \X (1..b))
    BY <1>1, FS_Product
  <1>3. IsFiniteSet(Unread(b, left))
    BY <1>2, FS_Subset DEF Unread
  <1>4. QED
    BY <1>3, FS_CardinalityType

\* The shares of a budget are equal, and make it up.
LEMMA SharesWhole ==
    ASSUME NEW b \in ByteBudgets, b > 0
    PROVE  LET left == [i \in Workers |-> Share(b, i)]
           IN  left \in [Workers -> 0..b] /\ Cardinality(Unread(b, left)) = b
  <1> DEFINE left == [i \in Workers |-> Share(b, i)]
             q == b \div Parallel
  <1>0. b \in Nat /\ Parallel \in Nat \ {0} /\ b % Parallel = 0
    BY DownloadAssumption
  <1>1. q \in Nat /\ Parallel * q = b
    <2>1. q \in Int
      BY <1>0
    <2>2. q >= 0
      BY <1>0, SMTT(30)
    <2>3. Parallel * (b \div Parallel) = b
      BY <1>0, SMTT(30)
    <2>4. QED
      BY <2>1, <2>2, <2>3
  <1> HIDE DEF q
  <1>2. q <= b
    <2>1. \A m \in Nat, n \in Nat \ {0} : m <= n * m
      OBVIOUS
    <2>2. QED
      BY <1>0, <1>1, <2>1
  <1>3. \A i \in Workers : left[i] = q
    BY <1>0, <1>1 DEF Share, Workers, q
  <1>4. left \in [Workers -> 0..b]
    BY <1>0, <1>1, <1>2, <1>3
  <1>5. Unread(b, left) = Workers \X (1..q)
    BY <1>0, <1>1, <1>2, <1>3 DEF Unread
  <1>6. /\ IsFiniteSet(Workers) /\ Cardinality(Workers) = Parallel
        /\ IsFiniteSet(1..q) /\ Cardinality(1..q) = q
    BY <1>0, <1>1, FS_Interval DEF Workers
  <1>7. Cardinality(Workers \X (1..q)) = Parallel * q
    BY <1>6, FS_Product
  <1>8. QED
    BY <1>1, <1>4, <1>5, <1>7

\* Reading n bytes of a worker's share leaves n fewer.
LEMMA ReadShrinks ==
    ASSUME NEW b \in Nat, NEW left \in [Workers -> 0..b], NEW i \in Workers, NEW n \in Nat,
           n >= 1, n <= left[i], NEW next \in [Workers -> Int],
           \A j \in Workers : next[j] = IF j = i THEN left[i] - n ELSE left[j]
    PROVE  /\ next \in [Workers -> 0..b]
           /\ Cardinality(Unread(b, next)) = Cardinality(Unread(b, left)) - n
  <1> DEFINE gone == {i} \X (left[i] - n + 1 .. left[i])
  <1>0. left[i] \in 0..b
    OBVIOUS
  <1>1. next \in [Workers -> 0..b]
    BY <1>0
  <1>2. \A j \in Workers : next[j] = IF j = i THEN left[i] - n ELSE left[j]
    OBVIOUS
  <1>3. Unread(b, next) = Unread(b, left) \ gone
    <2>1. ASSUME NEW w \in Workers \X (1..b)
          PROVE  w[2] <= next[w[1]] <=> w[2] <= left[w[1]] /\ w \notin gone
      <3>1. w[1] \in Workers /\ w[2] \in 1..b /\ w = <<w[1], w[2]>>
        OBVIOUS
      <3>2. w \in gone <=> w[1] = i /\ w[2] \in left[i] - n + 1 .. left[i]
        BY <3>1
      <3>3. CASE w[1] = i
        <4>1. next[w[1]] = left[i] - n /\ left[w[1]] = left[i]
          BY <1>2, <3>3
        <4>2. w[2] <= left[i] - n <=> w[2] <= left[i] /\ w[2] \notin left[i] - n + 1 .. left[i]
          BY <1>0, <3>1
        <4>3. QED
          BY <3>2, <3>3, <4>1, <4>2, Zenon
      <3>4. CASE w[1] # i
        <4>1. next[w[1]] = left[w[1]]
          BY <1>2, <3>1, <3>4
        <4>2. QED
          BY <3>2, <3>4, <4>1, Zenon
      <3>5. QED
        BY <3>3, <3>4
    <2> HIDE DEF gone
    <2>2. QED
      BY <2>1, Zenon DEF Unread
  <1>4. gone \subseteq Unread(b, left)
    <2> SUFFICES ASSUME NEW w \in gone PROVE w \in Unread(b, left)
      OBVIOUS
    <2>1. w[1] = i /\ w[2] \in left[i] - n + 1 .. left[i] /\ w = <<w[1], w[2]>>
      OBVIOUS
    <2>2. w[2] \in 1..b /\ w[2] <= left[w[1]]
      BY <1>0, <2>1
    <2>3. w \in Workers \X (1..b)
      BY <2>1, <2>2
    <2>4. QED
      BY <2>2, <2>3, Zenon DEF Unread
  <1>5. Cardinality(gone) = n
    <2>1. /\ IsFiniteSet(left[i] - n + 1 .. left[i])
          /\ Cardinality(left[i] - n + 1 .. left[i]) = n
      <3>1. /\ left[i] - n + 1 \in Int /\ left[i] \in Int /\ ~(left[i] - n + 1 > left[i])
            /\ left[i] - (left[i] - n + 1) + 1 = n
        BY <1>0
      <3>2. \A a, c \in Int : IsFiniteSet(a..c) /\ (~(a > c) => Cardinality(a..c) = c - a + 1)
        BY FS_Interval
      <3>3. QED
        BY <3>1, <3>2, Zenon
    <2>2. IsFiniteSet({i}) /\ Cardinality({i}) = 1
      BY FS_Singleton
    <2> DEFINE bytes == left[i] - n + 1 .. left[i]
    <2> HIDE DEF bytes
    <2>3. Cardinality({i} \X bytes) = Cardinality({i}) * Cardinality(bytes)
      BY <2>1, <2>2, FS_Product DEF bytes
    <2>4. QED
      BY <2>1, <2>2, <2>3 DEF bytes
  <1>6. Unread(b, left) \cap gone = gone
    BY <1>4
  <1>7. Cardinality(Unread(b, next)) = Cardinality(Unread(b, left)) - n
    <2> HIDE DEF gone
    <2>1. IsFiniteSet(Unread(b, left))
      BY UnreadFinite
    <2>2. Cardinality(Unread(b, left) \ gone)
            = Cardinality(Unread(b, left)) - Cardinality(Unread(b, left) \cap gone)
      BY <2>1, FS_Difference
    <2>3. QED
      BY <1>3, <1>5, <1>6, <2>2
  <1>8. QED
    BY <1>1, <1>7, Zenon

\* A measurement begins with nothing read.
LEMMA BeginInv ==
    /\ DownloadInit => DownloadInv
    /\ \A b \in ByteBudgets : Measure(b) => DownloadInv'
  <1>1. \A b \in ByteBudgets : b \in Nat
    BY DownloadAssumption
  <1>2. \A b \in ByteBudgets : [i \in Workers |-> Share(b, i)] \in [Workers -> Int]
    <2> SUFFICES ASSUME NEW b \in ByteBudgets, NEW i \in Workers PROVE Share(b, i) \in Int
      OBVIOUS
    <2>1. b \div Parallel \in Int
      BY <1>1, DownloadAssumption
    <2>2. QED
      BY <2>1 DEF Share
  <1>3. ASSUME DownloadInit PROVE DownloadInv
    <2>1. DownloadTypes
      BY <1>2, <1>3 DEF DownloadInit, DownloadTypes
    <2>2. BudgetInv
      BY <1>1, <1>3, SharesWhole DEF DownloadInit, BudgetInv
    <2>3. QED
      BY <1>3, <2>1, <2>2 DEF DownloadInit, DownloadInv, EndInv, VerdictInv
  <1>4. ASSUME NEW b \in ByteBudgets, Measure(b) PROVE DownloadInv'
    <2>1. DownloadTypes'
      BY <1>2, <1>4 DEF Measure, DownloadTypes
    <2>2. BudgetInv'
      BY <1>1, <1>4, SharesWhole DEF Measure, BudgetInv
    <2>3. QED
      BY <1>4, <2>1, <2>2 DEF Measure, DownloadInv, EndInv, VerdictInv
  <1>5. QED
    BY <1>3, <1>4

\* A read.
LEMMA ReadBodyInv ==
    ASSUME DownloadInv, NEW i \in Workers, NEW n \in 1..Chunk, ReadBody(i, n)
    PROVE  DownloadInv'
  <1>0. n \in Nat /\ n >= 1 /\ budget \in Nat
    BY DownloadAssumption DEF DownloadInv, DownloadTypes
  <1>1. /\ at[i] = "read" /\ (budget > 0 => n <= remaining[i])
        /\ count' = count + n
        /\ remaining' = [remaining EXCEPT ![i] = @ - n]
        /\ responseBytes' = [responseBytes EXCEPT ![i] = @ + n]
        /\ UNCHANGED <<budget, failures, at, over, cancelled, verdict, faulty>>
    BY DEF ReadBody
  <1>2. DownloadTypes'
    BY <1>0, <1>1 DEF DownloadInv, DownloadTypes
  <1>3. BudgetInv'
    <2> SUFFICES ASSUME budget > 0
                 PROVE  /\ remaining' \in [Workers -> 0..budget]
                        /\ count' + Cardinality(Unread(budget, remaining')) = budget
      BY <1>1 DEF BudgetInv
    <2>1. /\ remaining \in [Workers -> 0..budget] /\ count \in Nat
          /\ count + Cardinality(Unread(budget, remaining)) = budget
      BY DEF DownloadInv, DownloadTypes, BudgetInv
    <2>2. /\ remaining' \in [Workers -> 0..budget]
          /\ Cardinality(Unread(budget, remaining')) = Cardinality(Unread(budget, remaining)) - n
      <3>1. n <= remaining[i]
        BY <1>1
      <3>2. /\ remaining' \in [Workers -> Int]
            /\ \A j \in Workers : remaining'[j] = IF j = i THEN remaining[i] - n ELSE remaining[j]
        BY <1>0, <1>1 DEF DownloadInv, DownloadTypes
      <3>3. QED
        BY <1>0, <2>1, <3>1, <3>2, ReadShrinks, SMTT(30)
    <2>3. Cardinality(Unread(budget, remaining)) \in Nat
      BY <1>0, UnreadFinite
    <2>4. QED
      BY <1>0, <1>1, <2>1, <2>2, <2>3
  <1>4. EndInv'
    BY <1>1 DEF DownloadInv, DownloadTypes, EndInv
  <1>5. verdict = "none"
    BY <1>1 DEF DownloadInv, VerdictInv
  <1>6. VerdictInv'
    BY <1>1, <1>5 DEF VerdictInv
  <1>7. QED
    BY <1>2, <1>3, <1>4, <1>6 DEF DownloadInv

\* A step of a worker's loop that reads nothing.
LEMMA WorkerInv ==
    ASSUME DownloadInv, NEW i \in Workers,
           \/ FetchOrEnd(i) \/ NoAnswer(i) \/ BadStatus(i) \/ Answer(i)
           \/ \E broken \in BOOLEAN : EndBody(i, broken)
    PROVE  DownloadInv'
  <1>1. UNCHANGED <<budget, count, remaining, over, cancelled, verdict>> /\ at[i] # "done"
    BY DEF FetchOrEnd, NoAnswer, BadStatus, Answer, EndBody, Moves
  <1>2. PICK to \in {"loop", "request", "read", "done"} : at' = [at EXCEPT ![i] = to]
    BY DEF FetchOrEnd, NoAnswer, BadStatus, Answer, EndBody, Moves
  <1>3. /\ failures' \in Nat /\ responseBytes' \in [Workers -> Nat] /\ faulty' \in BOOLEAN
        /\ faulty' <=> failures' > 0
        /\ faulty => faulty'
    <2>1. failures \in Nat /\ (faulty <=> failures > 0) /\ faulty \in BOOLEAN /\ over \in BOOLEAN
          /\ responseBytes \in [Workers -> Nat]
      BY DEF DownloadInv, DownloadTypes, EndInv
    <2>2. CASE FetchOrEnd(i) \/ Answer(i)
      BY <2>1, <2>2 DEF FetchOrEnd, Answer
    <2>3. CASE NoAnswer(i)
      <3>1. CASE over
        BY <2>1, <2>3, <3>1 DEF NoAnswer, Fails
      <3>2. CASE ~over
        <4>1. failures' = failures + 1 /\ faulty' = TRUE /\ responseBytes' = responseBytes
          BY <2>3, <3>2 DEF NoAnswer, Fails
        <4>2. QED
          BY <2>1, <4>1
      <3>3. QED
        BY <3>1, <3>2
    <2>4. CASE BadStatus(i)
      BY <2>1, <2>4 DEF BadStatus, Fails
    <2>5. ASSUME NEW broken \in BOOLEAN, EndBody(i, broken)
          PROVE  /\ failures' \in Nat /\ responseBytes' \in [Workers -> Nat] /\ faulty' \in BOOLEAN
                 /\ faulty' <=> failures' > 0
                 /\ faulty => faulty'
      <3>1. PICK m, n \in {0, 1} :
              /\ m = 1 <=> broken /\ ~over
              /\ n = 1 <=> responseBytes[i] = 0
              /\ failures' = failures + (m + n)
              /\ UNCHANGED responseBytes
              /\ faulty' = (faulty \/ n = 1 \/ m = 1)
        BY <2>5 DEF EndBody, Fails
      <3>2. failures + (m + n) \in Nat /\ (failures + (m + n) > 0 <=> failures > 0 \/ n = 1 \/ m = 1)
        BY <2>1
      <3>3. faulty' <=> faulty \/ n = 1 \/ m = 1
        BY <3>1
      <3>4. QED
        BY <2>1, <3>1, <3>2, <3>3, Zenon
    <2>6. QED
      BY <2>2, <2>3, <2>4, <2>5
  <1>4. at'[i] = "done" /\ ~over /\ ~faulty' => budget > 0 /\ remaining[i] = 0
    <2>0. budget \in Nat
      BY DownloadAssumption DEF DownloadInv, DownloadTypes
    <2>1. /\ budget \in Nat /\ (budget > 0 => remaining[i] \in Nat)
          /\ at \in [Workers -> {"loop", "request", "read", "done"}]
      BY <2>0 DEF DownloadInv, DownloadTypes, BudgetInv
    <2>2. CASE FetchOrEnd(i)
      BY <2>1, <2>2 DEF FetchOrEnd, Moves, Wanting
    <2>3. CASE NoAnswer(i) \/ BadStatus(i)
      BY <2>3 DEF NoAnswer, BadStatus
    <2>4. CASE Answer(i)
      BY <2>1, <2>4 DEF Answer, Moves
    <2>5. CASE \E broken \in BOOLEAN : EndBody(i, broken)
      BY <2>1, <2>5 DEF EndBody, Moves
    <2>6. QED
      BY <2>2, <2>3, <2>4, <2>5
  <1>5. DownloadTypes'
    BY <1>1, <1>2, <1>3 DEF DownloadInv, DownloadTypes
  <1>6. BudgetInv'
    BY <1>1 DEF DownloadInv, BudgetInv
  <1>7. EndInv'
    BY <1>1, <1>2, <1>3, <1>4 DEF DownloadInv, DownloadTypes, EndInv
  <1>8. VerdictInv'
    BY <1>1 DEF DownloadInv, VerdictInv
  <1>9. QED
    BY <1>5, <1>6, <1>7, <1>8 DEF DownloadInv

\* The end of the time.
LEMMA TimeOverInv ==
    ASSUME DownloadInv, NEW parent \in BOOLEAN, TimeOver(parent)
    PROVE  DownloadInv'
  BY DEF TimeOver, DownloadInv, DownloadTypes, BudgetInv, EndInv, VerdictInv

\* The verdict: with every worker ended in time and without a fault nothing is
\* left unread.
LEMMA ConcludeInv ==
    ASSUME DownloadInv, Conclude
    PROVE  DownloadInv'
  <1>1. /\ \A i \in Workers : at[i] = "done"
        /\ verdict' = IF cancelled THEN "cancelled"
                      ELSE IF count = 0 \/ failures > 0 \/ (budget > 0 /\ count < budget)
                           THEN "unclean" ELSE "clean"
        /\ UNCHANGED <<budget, count, failures, remaining, responseBytes, at, over, cancelled, faulty>>
    BY DEF Conclude
  <1>2. DownloadTypes' /\ BudgetInv' /\ EndInv'
    BY <1>1 DEF DownloadInv, DownloadTypes, BudgetInv, EndInv
  <1>3. budget \in Nat /\ count \in Nat /\ failures \in Nat
    BY DownloadAssumption DEF DownloadInv, DownloadTypes
  <1>4. budget > 0 => count <= budget
    BY <1>3, UnreadFinite DEF DownloadInv, BudgetInv
  <1>5. ~over /\ ~faulty => budget > 0 /\ count = budget
    <2> SUFFICES ASSUME ~over, ~faulty PROVE budget > 0 /\ count = budget
      OBVIOUS
    <2>1. budget > 0 /\ \A i \in Workers : remaining[i] = 0
      <3>1. 0 \in Workers
        BY DownloadAssumption DEF Workers
      <3>2. QED
        BY <1>1, <3>1 DEF DownloadInv, EndInv
    <2>2. Unread(budget, remaining) = {}
      BY <1>3, <2>1 DEF Unread
    <2>3. QED
      BY <1>3, <2>1, <2>2, FS_EmptySet DEF DownloadInv, BudgetInv
  <1>6. VerdictInv'
    <2>1. faulty <=> failures > 0
      BY DEF DownloadInv, EndInv
    <2>2. verdict' = "unclean" => faulty \/ over
      BY <1>1, <1>3, <1>5, <2>1
    <2>3. verdict' = "clean" => ~ faulty /\ (budget > 0 => count = budget)
      BY <1>1, <1>3, <1>4, <2>1
    <2>4. QED
      BY <1>1, <2>2, <2>3 DEF VerdictInv
  <1>7. QED
    BY <1>2, <1>6 DEF DownloadInv

\* The invariant holds in every reachable state.
LEMMA DownloadInvariance == DownloadSpec => []DownloadInv
  <1>1. DownloadInv /\ [DownloadNext]_downloadVars => DownloadInv'
    <2> SUFFICES ASSUME DownloadInv, [DownloadNext]_downloadVars PROVE DownloadInv'
      OBVIOUS
    <2>1. CASE UNCHANGED downloadVars
      BY <2>1 DEF downloadVars, DownloadInv, DownloadTypes, BudgetInv, EndInv, VerdictInv
    <2>2. QED
      BY <2>1, BeginInv, ReadBodyInv, WorkerInv, TimeOverInv, ConcludeInv, Zenon DEF DownloadNext
  <1>2. QED
    BY <1>1, BeginInv, PTL DEF DownloadSpec

\* The workers together never read more than the budget, and the verdict is
\* true of what happened, for any number of workers and any budget that they
\* share evenly.
THEOREM TrueDownload == DownloadSpec => []DownloadTrue
  <1>1. DownloadInv => DownloadTrue
    <2> SUFFICES ASSUME DownloadInv PROVE DownloadTrue
      OBVIOUS
    <2>1. budget \in Nat /\ count \in Nat
      BY DownloadAssumption DEF DownloadInv, DownloadTypes
    <2>2. budget > 0 => count <= budget
      BY <2>1, UnreadFinite DEF DownloadInv, BudgetInv
    <2>3. QED
      BY <2>2 DEF DownloadInv, VerdictInv, DownloadTrue
  <1>2. QED
    BY <1>1, DownloadInvariance, PTL

-----------------------------------------------------------------------------
(* Numbers. *)

\* A set of numbers that is not empty has a smallest member.
LEMMA LeastNumber ==
    ASSUME NEW S \in SUBSET Nat, S # {}
    PROVE  \E n \in S : \A m \in Nat : m < n => m \notin S
  <1>1. PICK n \in S : \A m \in S : ~ (<<m, n>> \in OpToRel(<, Nat))
    BY NatLessThanWellFounded, WFMin
  <1>2. \A m \in S : ~(m < n)
    BY <1>1 DEF OpToRel
  <1>3. QED
    BY <1>2

-----------------------------------------------------------------------------
(* Log files. *)

Record == [id : Nat, len : Nat]

\* A file in which every record is newer than the one before it.
Rising(file) == \A i, j \in 1..Len(file) : i < j => file[i].id < file[j].id

\* Such files, each newer than the one before it, and their records.
Chain(list) ==
    /\ list \in Seq(Seq(Record))
    /\ \A i \in 1..Len(list) : Rising(list[i])
    /\ \A i, j \in 1..Len(list) : i < j =>
         \A r \in Range(list[i]), s \in Range(list[j]) : r.id < s.id
Held(list) == UNION {Range(list[i]) : i \in 1..Len(list)}

\* No record of all that is newer than one of part is missing in part.
Newer(part, all) == \A r \in all, s \in part : r.id > s.id => r \in part

\* Two lists of files, one after the other.
LEMMA ConcatAt ==
    ASSUME NEW a \in Seq(Seq(Record)), NEW b \in Seq(Seq(Record))
    PROVE  /\ a \o b \in Seq(Seq(Record)) /\ Len(a \o b) = Len(a) + Len(b)
           /\ \A i \in 1..Len(a) : (a \o b)[i] = a[i]
           /\ \A i \in 1..Len(b) : (a \o b)[Len(a) + i] = b[i]
  <1> DEFINE S == Seq(Record)
  <1>1. a \in Seq(S) /\ b \in Seq(S)
    OBVIOUS
  <1> HIDE DEF S
  <1>2. a \o b \in Seq(S) /\ Len(a \o b) = Len(a) + Len(b)
    BY <1>1
  <1>3. ASSUME NEW i \in 1..Len(a) PROVE (a \o b)[i] = a[i]
    BY <1>1
  <1>4. ASSUME NEW i \in 1..Len(b) PROVE (a \o b)[Len(a) + i] = b[i]
    BY <1>1
  <1>5. QED
    BY <1>2, <1>3, <1>4, Zenon DEF S

\* Records of a file.
LEMMA RecordsOf ==
    ASSUME NEW file \in Seq(Record)
    PROVE  /\ \A r \in Range(file) : r \in Record /\ r.id \in Nat
           /\ Range(file) = {file[i] : i \in 1..Len(file)}
  <1>1. DOMAIN file = 1..Len(file) /\ \A i \in 1..Len(file) : file[i] \in Record
    OBVIOUS
  <1>2. Range(file) = {file[i] : i \in 1..Len(file)}
    BY <1>1, Zenon DEF Range
  <1>3. \A r \in Record : r.id \in Nat
    BY DEF Record
  <1>4. QED
    BY <1>1, <1>2, <1>3, Zenon

\* Some of the files of a chain, in their order, are a chain.
LEMMA SubChain ==
    ASSUME NEW list, Chain(list), NEW some \in Seq(Seq(Record)), NEW m \in [1..Len(some) -> 1..Len(list)],
           \A i \in 1..Len(some) : some[i] = list[m[i]],
           \A i, j \in 1..Len(some) : i < j => m[i] < m[j]
    PROVE  Chain(some) /\ Held(some) \subseteq Held(list)
  <1>1. \A i \in 1..Len(some) : m[i] \in 1..Len(list)
    OBVIOUS
  <1>2. \A i \in 1..Len(some) : Rising(some[i])
    BY <1>1, Zenon DEF Chain
  <1>3. ASSUME NEW i \in 1..Len(some), NEW j \in 1..Len(some), i < j,
               NEW r \in Range(some[i]), NEW s \in Range(some[j])
        PROVE  r.id < s.id
    <2>1. m[i] < m[j] /\ some[i] = list[m[i]] /\ some[j] = list[m[j]]
      BY <1>3, Zenon
    <2>2. QED
      BY <1>1, <1>3, <2>1, Zenon DEF Chain
  <1>4. Held(some) \subseteq Held(list)
    BY <1>1, Zenon DEF Held
  <1>5. QED
    BY <1>2, <1>3, <1>4, Zenon DEF Chain

\* A file that is newer than all of a chain continues it.
LEMMA ChainAppend ==
    ASSUME NEW list, Chain(list), NEW file \in Seq(Record), Rising(file),
           \A r \in Held(list), s \in Range(file) : r.id < s.id
    PROVE  Chain(Append(list, file)) /\ Held(Append(list, file)) = Held(list) \cup Range(file)
  <1> DEFINE n == Len(list)
             more == Append(list, file)
  <1>1. list \in Seq(Seq(Record)) /\ n \in Nat
    BY DEF Chain
  <1>2. more \in Seq(Seq(Record)) /\ Len(more) = n + 1 /\ more[n + 1] = file
    BY <1>1
  <1>3. \A i \in 1..n : more[i] = list[i]
    BY <1>1
  <1>4. 1..n + 1 = 1..n \cup {n + 1}
    BY <1>1
  <1>5. Held(more) = Held(list) \cup Range(file)
    <2> HIDE DEF more
    <2>1. Held(more) = UNION {Range(more[i]) : i \in 1..n \cup {n + 1}}
      BY <1>2, <1>4, Zenon DEF Held
    <2>2. QED
      BY <1>2, <1>3, <2>1, Zenon DEF Held
  <1>6. \A i \in 1..n + 1 : Rising(more[i])
    <2> HIDE DEF more
    <2>1. QED
      BY <1>2, <1>3, <1>4, Zenon DEF Chain
  <1>7. ASSUME NEW i \in 1..n + 1, NEW j \in 1..n + 1, i < j
        PROVE  \A r \in Range(more[i]), s \in Range(more[j]) : r.id < s.id
    <2>1. i \in 1..n /\ (j \in 1..n \/ j = n + 1)
      BY <1>1, <1>7
    <2> HIDE DEF more
    <2>2. CASE j \in 1..n
      BY <1>3, <1>7, <2>1, <2>2, Zenon DEF Chain
    <2>3. CASE j = n + 1
      BY <1>2, <1>3, <2>1, <2>3, Zenon DEF Held
    <2>4. QED
      BY <2>1, <2>2, <2>3
  <1>8. QED
    <2> HIDE DEF more, n
    <2>1. Chain(more)
      BY <1>2, <1>6, <1>7, Zenon DEF Chain
    <2>2. QED
      BY <1>5, <2>1 DEF more

\* Two files of a chain have no record in common.
LEMMA ChainDisjoint ==
    ASSUME NEW list, Chain(list), NEW i \in 1..Len(list), NEW j \in 1..Len(list), i # j
    PROVE  Range(list[i]) \cap Range(list[j]) = {}
  <1> SUFFICES ASSUME NEW r, r \in Range(list[i]), r \in Range(list[j]) PROVE FALSE
    BY Zenon
  <1>1. list[i] \in Seq(Record) /\ Len(list) \in Nat
    BY DEF Chain
  <1>2. r.id \in Nat
    BY <1>1, RecordsOf, Zenon
  <1>3. i < j \/ j < i
    BY <1>1
  <1>4. r.id < r.id
    BY <1>3, Zenon DEF Chain
  <1>5. QED
    BY <1>2, <1>4

\* prune keeps the newest files of a chain.
LEMMA NewestChain ==
    ASSUME NEW list, Chain(list)
    PROVE  Chain(Newest(list)) /\ Held(Newest(list)) \subseteq Held(list) /\ Newer(Held(Newest(list)), Held(list))
  <1> DEFINE n == Len(list)
             e == Excess(list)
             some == Newest(list)
             m == [i \in 1..Len(some) |-> e + i]
  <1>1. list \in Seq(Seq(Record)) /\ n \in Nat
    BY DEF Chain
  <1>2. e \in 0..n
    BY <1>1, LogsAssumption DEF Excess
  <1> HIDE DEF e
  <1>3. /\ some \in Seq(Seq(Record)) /\ Len(some) = n - e
        /\ \A i \in 1..n - e : some[i] = list[e + i]
    <2>1. some = SubSeq(list, e + 1, n)
      BY Zenon DEF Newest, e
    <2> HIDE DEF some
    <2>2. QED
      BY <1>1, <1>2, <2>1
  <1> HIDE DEF some
  <1>4. m \in [1..Len(some) -> 1..n] /\ \A i, j \in 1..Len(some) : i < j => m[i] < m[j]
    <2>1. n \in Nat /\ Len(some) = n - e
      BY <1>1, <1>3, Zenon
    <2> HIDE DEF n
    <2>2. QED
      BY <1>2, <2>1
  <1>5. \A i \in 1..Len(some) : some[i] = list[m[i]]
    BY <1>3
  <1>6. Chain(some) /\ Held(some) \subseteq Held(list)
    <2> HIDE DEF m
    <2>1. QED
      BY <1>3, <1>4, <1>5, SubChain
  <1>7. ASSUME NEW r \in Held(list), NEW s \in Held(some), r.id > s.id
        PROVE  r \in Held(some)
    <2>1. PICK k \in 1..n : r \in Range(list[k])
      BY Zenon DEF Held
    <2>2. PICK i \in 1..Len(some) : s \in Range(some[i])
      BY Zenon DEF Held
    <2>3. m[i] \in 1..n /\ m[i] > e /\ s \in Range(list[m[i]])
      BY <1>2, <1>3, <1>4, <1>5, <2>2
    <2>4. r.id \in Nat /\ s.id \in Nat
      <3>1. list[k] \in Seq(Record) /\ list[m[i]] \in Seq(Record)
        BY <1>1, <2>3
      <3>2. QED
        BY <2>1, <2>3, <3>1, RecordsOf, Zenon
    <2>5. ~ k < m[i]
      <3>1. k < m[i] => r.id < s.id
        BY <2>1, <2>3, Zenon DEF Chain
      <3>2. QED
        BY <1>7, <2>4, <3>1
    <2>6. k - e \in 1..Len(some) /\ some[k - e] = list[k]
      BY <1>2, <1>3, <2>3, <2>5
    <2>7. QED
      BY <2>1, <2>6, Zenon DEF Held
  <1>8. QED
    BY <1>6, <1>7, Zenon DEF Newer, some

\* What a failed prune leaves is a chain.
LEMMA PruneChain ==
    ASSUME NEW list, Chain(list), NEW k \in 1..Excess(list)
    PROVE  /\ Chain(SubSeq(list, 1, k) \o Newest(list))
           /\ Held(SubSeq(list, 1, k) \o Newest(list)) \subseteq Held(list)
  <1> DEFINE n == Len(list)
             e == Excess(list)
             some == SubSeq(list, 1, k) \o Newest(list)
             m == [i \in 1..Len(some) |-> IF i <= k THEN i ELSE e - k + i]
  <1>1. list \in Seq(Seq(Record)) /\ n \in Nat
    BY DEF Chain
  <1>2. e \in 0..n /\ k \in 1..n /\ k <= e
    BY <1>1, LogsAssumption DEF Excess
  <1>3. /\ SubSeq(list, 1, k) \in Seq(Seq(Record)) /\ Len(SubSeq(list, 1, k)) = k
        /\ \A i \in 1..k : SubSeq(list, 1, k)[i] = list[i]
    BY <1>1, <1>2
  <1> HIDE DEF e
  <1>4. /\ Newest(list) \in Seq(Seq(Record)) /\ Len(Newest(list)) = n - e
        /\ \A i \in 1..n - e : Newest(list)[i] = list[e + i]
    <2>1. Newest(list) = SubSeq(list, e + 1, n)
      BY Zenon DEF Newest, e
    <2>2. QED
      BY <1>1, <1>2, <2>1
  <1>5. /\ some \in Seq(Seq(Record)) /\ Len(some) = k + n - e
        /\ \A i \in 1..k + n - e : some[i] = IF i <= k THEN list[i] ELSE list[e - k + i]
    <2> DEFINE a == SubSeq(list, 1, k)
               b == Newest(list)
    <2>1. a \in Seq(Seq(Record)) /\ b \in Seq(Seq(Record)) /\ Len(a) = k /\ Len(b) = n - e
      BY <1>3, <1>4, Zenon
    <2>2. \A i \in 1..k : a[i] = list[i]
      BY <1>3
    <2>3. \A i \in 1..n - e : b[i] = list[e + i]
      BY <1>4
    <2> HIDE DEF a, b
    <2>4. /\ a \o b \in Seq(Seq(Record)) /\ Len(a \o b) = k + (n - e)
          /\ \A i \in 1..k : (a \o b)[i] = a[i]
          /\ \A i \in 1..n - e : (a \o b)[k + i] = b[i]
      <3>1. a \in Seq(Seq(Record)) /\ b \in Seq(Seq(Record))
        BY <2>1, Zenon
      <3>2. a \o b \in Seq(Seq(Record))
        BY <3>1, ConcatAt, Zenon
      <3>3. /\ Len(a \o b) = Len(a) + Len(b)
            /\ \A i \in 1..Len(a) : (a \o b)[i] = a[i]
            /\ \A i \in 1..Len(b) : (a \o b)[Len(a) + i] = b[i]
        BY <3>1, ConcatAt, Zenon
      <3>4. Len(a) = k /\ Len(b) = n - e
        BY <2>1, Zenon
      <3>5. QED
        BY <3>2, <3>3, <3>4
    <2>5. ASSUME NEW i \in 1..k + n - e
          PROVE  (a \o b)[i] = IF i <= k THEN list[i] ELSE list[e - k + i]
      <3>1. CASE i <= k
        <4>1. i \in 1..k
          BY <3>1
        <4>2. QED
          BY <2>2, <2>4, <3>1, <4>1
      <3>2. CASE ~ i <= k
        <4>1. i - k \in 1..n - e /\ k + (i - k) = i /\ e + (i - k) = e - k + i
          BY <1>1, <1>2, <3>2
        <4>2. (a \o b)[k + (i - k)] = list[e + (i - k)]
          BY <2>3, <2>4, <4>1, Zenon
        <4>3. QED
          BY <3>2, <4>1, <4>2
      <3>3. QED
        BY <3>1, <3>2
    <2>6. k + (n - e) = k + n - e
      BY <1>1, <1>2
    <2>7. QED
      BY <2>4, <2>5, <2>6 DEF a, b
  <1> HIDE DEF some
  <1>6. m \in [1..Len(some) -> 1..n] /\ \A i, j \in 1..Len(some) : i < j => m[i] < m[j]
    <2>1. n \in Nat /\ Len(some) = k + n - e
      BY <1>1, <1>5, Zenon
    <2> HIDE DEF n
    <2>2. QED
      BY <1>2, <2>1
  <1>7. \A i \in 1..Len(some) : some[i] = list[m[i]]
    BY <1>5
  <1>8. Chain(some) /\ Held(some) \subseteq Held(list)
    <2> HIDE DEF m
    <2>1. QED
      BY <1>5, <1>6, <1>7, SubChain
  <1>9. QED
    BY <1>8 DEF some

\* Clear keeps the oldest files of a chain and nothing of the others.
LEMMA PrefixChain ==
    ASSUME NEW list, Chain(list), NEW k \in 0..Len(list)
    PROVE  LET some == SubSeq(list, 1, k)
               gone == UNION {Range(list[i]) : i \in k + 1..Len(list)}
           IN Chain(some) /\ Held(list) = Held(some) \cup gone /\ Held(some) \cap gone = {}
  <1> DEFINE n == Len(list)
             some == SubSeq(list, 1, k)
             gone == UNION {Range(list[i]) : i \in k + 1..n}
             m == [i \in 1..Len(some) |-> i]
  <1>1. list \in Seq(Seq(Record)) /\ n \in Nat
    BY DEF Chain
  <1>2. /\ some \in Seq(Seq(Record)) /\ Len(some) = k
        /\ \A i \in 1..k : some[i] = list[i]
    BY <1>1
  <1> HIDE DEF some
  <1>3. Chain(some)
    <2>1. m \in [1..Len(some) -> 1..n] /\ \A i, j \in 1..Len(some) : i < j => m[i] < m[j]
      BY <1>1, <1>2
    <2>2. \A i \in 1..Len(some) : some[i] = list[m[i]]
      BY <1>2
    <2> HIDE DEF m
    <2>3. QED
      BY <1>2, <2>1, <2>2, SubChain
  <1>4. Held(some) = UNION {Range(list[i]) : i \in 1..k}
    BY <1>2, Zenon DEF Held
  <1>5. 1..n = 1..k \cup (k + 1..n)
    BY <1>1
  <1>6. Held(list) = Held(some) \cup gone
    BY <1>4, <1>5, Zenon DEF Held
  <1>7. Held(some) \cap gone = {}
    <2> SUFFICES ASSUME NEW r, r \in Held(some), r \in gone PROVE FALSE
      BY Zenon
    <2>1. PICK i \in 1..k : r \in Range(list[i])
      BY <1>4, Zenon
    <2>2. PICK j \in k + 1..n : r \in Range(list[j])
      BY Zenon
    <2>3. i \in 1..n /\ j \in 1..n /\ i # j
      BY <1>1
    <2>4. QED
      BY <2>1, <2>2, <2>3, ChainDisjoint, Zenon
  <1>8. QED
    BY <1>3, <1>6, <1>7, Zenon DEF some

\* Without one of its files a chain is a chain, and has nothing of that file.
LEMMA DropChain ==
    ASSUME NEW list, Chain(list), NEW k \in 1..Len(list)
    PROVE  LET some == SubSeq(list, 1, k - 1) \o SubSeq(list, k + 1, Len(list))
           IN Chain(some) /\ Held(list) = Held(some) \cup Range(list[k]) /\ Held(some) \cap Range(list[k]) = {}
  <1> DEFINE n == Len(list)
             a == SubSeq(list, 1, k - 1)
             b == SubSeq(list, k + 1, n)
             some == a \o b
             m == [i \in 1..Len(some) |-> IF i < k THEN i ELSE i + 1]
  <1>1. list \in Seq(Seq(Record)) /\ n \in Nat /\ k \in Nat
    BY DEF Chain
  <1>2. /\ a \in Seq(Seq(Record)) /\ Len(a) = k - 1
        /\ \A i \in 1..k - 1 : a[i] = list[i]
    BY <1>1
  <1>3. /\ b \in Seq(Seq(Record)) /\ Len(b) = n - k
        /\ \A i \in 1..n - k : b[i] = list[k + i]
    BY <1>1
  <1> HIDE DEF a, b
  <1>4. /\ some \in Seq(Seq(Record)) /\ Len(some) = n - 1
        /\ \A i \in 1..k - 1 : some[i] = a[i]
        /\ \A i \in 1..n - k : some[(k - 1) + i] = b[i]
    <2>1. (k - 1) + (n - k) = n - 1
      BY <1>1
    <2>2. a \in Seq(Seq(Record)) /\ b \in Seq(Seq(Record))
      BY <1>2, <1>3, Zenon
    <2>3. some \in Seq(Seq(Record))
      BY <2>2, ConcatAt, Zenon
    <2>4. /\ Len(some) = Len(a) + Len(b)
          /\ \A i \in 1..Len(a) : some[i] = a[i]
          /\ \A i \in 1..Len(b) : some[Len(a) + i] = b[i]
      BY <2>2, ConcatAt, Zenon
    <2>5. Len(a) = k - 1 /\ Len(b) = n - k
      BY <1>2, <1>3, Zenon
    <2> HIDE DEF some
    <2>6. QED
      BY <2>1, <2>3, <2>4, <2>5
  <1> HIDE DEF some
  <1>5. \A i \in 1..n - 1 : some[i] = IF i < k THEN list[i] ELSE list[i + 1]
    <2> SUFFICES ASSUME NEW i \in 1..n - 1
                 PROVE  some[i] = IF i < k THEN list[i] ELSE list[i + 1]
      OBVIOUS
    <2>1. CASE i < k
      <3>1. i \in 1..k - 1
        BY <1>1, <2>1
      <3>2. QED
        BY <1>2, <1>4, <2>1, <3>1
    <2>2. CASE ~ i < k
      <3>1. i - (k - 1) \in 1..n - k /\ k + (i - (k - 1)) = i + 1 /\ (k - 1) + (i - (k - 1)) = i
        BY <1>1, <2>2
      <3>2. some[(k - 1) + (i - (k - 1))] = list[k + (i - (k - 1))]
        BY <1>3, <1>4, <3>1, Zenon
      <3>3. QED
        BY <2>2, <3>1, <3>2
    <2>3. QED
      BY <2>1, <2>2
  <1>6. m \in [1..Len(some) -> 1..n] /\ \A i, j \in 1..Len(some) : i < j => m[i] < m[j]
    <2>1. n \in Nat /\ k \in 1..n /\ Len(some) = n - 1
      BY <1>1, <1>4, Zenon
    <2> HIDE DEF n
    <2>2. QED
      BY <2>1
  <1>7. \A i \in 1..Len(some) : some[i] = list[m[i]] /\ m[i] # k
    <2>1. n \in Nat /\ k \in 1..n /\ Len(some) = n - 1
      BY <1>1, <1>4, Zenon
    <2> HIDE DEF n
    <2>2. QED
      BY <1>5, <2>1
  <1>8. \A i \in 1..n : i # k => \E j \in 1..Len(some) : m[j] = i
    <2> SUFFICES ASSUME NEW i \in 1..n, i # k PROVE \E j \in 1..Len(some) : m[j] = i
      OBVIOUS
    <2>1. CASE i < k
      <3>1. i \in 1..Len(some) /\ m[i] = i
        BY <1>1, <1>4, <2>1
      <3>2. QED
        BY <3>1
    <2>2. CASE i > k
      <3>1. i - 1 \in 1..Len(some) /\ m[i - 1] = i
        BY <1>1, <1>4, <2>2
      <3>2. QED
        BY <3>1
    <2>3. QED
      BY <1>1, <2>1, <2>2
  <1> HIDE DEF m
  <1>9. Chain(some) /\ Held(some) \subseteq Held(list)
    BY <1>4, <1>6, <1>7, SubChain
  <1>10. Held(list) = Held(some) \cup Range(list[k])
    <2>1. ASSUME NEW i \in 1..n, i # k PROVE Range(list[i]) \subseteq Held(some)
      <3>1. PICK j \in 1..Len(some) : m[j] = i
        BY <1>8, <2>1, Zenon
      <3>2. some[j] = list[i]
        BY <1>7, <3>1
      <3>3. QED
        BY <3>2, Zenon DEF Held
    <2>2. Range(list[k]) \subseteq Held(list)
      BY Zenon DEF Held
    <2>3. QED
      BY <1>9, <2>1, <2>2, Zenon DEF Held
  <1>11. Held(some) \cap Range(list[k]) = {}
    <2> SUFFICES ASSUME NEW r, r \in Held(some), r \in Range(list[k]) PROVE FALSE
      BY Zenon
    <2>1. PICK i \in 1..Len(some) : r \in Range(some[i])
      BY Zenon DEF Held
    <2>2. m[i] \in 1..n /\ m[i] # k /\ some[i] = list[m[i]]
      BY <1>6, <1>7
    <2>3. QED
      BY <2>1, <2>2, ChainDisjoint
  <1>12. QED
    BY <1>9, <1>10, <1>11, Zenon DEF some, a, b

-----------------------------------------------------------------------------
\* The records there are.
Kept(list, file) == Held(list) \cup Range(file)

\* The archives and the active file are a chain of accepted records, and unless
\* a removal failed no accepted record is missing that is newer than one of
\* them.
LogsInv ==
    /\ written \in Nat /\ \A r \in accepted : r.id \in Nat /\ r.id <= written
    /\ Chain(archive) /\ current \in Seq(Record) /\ Rising(current)
    /\ \A r \in Held(archive), s \in Range(current) : r.id < s.id
    /\ Kept(archive, current) \subseteq accepted
    /\ ~ stuck => Newer(Kept(archive, current), accepted)

\* An empty file has no records, and no files have none.
LEMMA NoRecords ==
    /\ <<>> \in Seq(Record) /\ Rising(<<>>) /\ Range(<<>>) = {}
    /\ Chain(<<>>) /\ Held(<<>>) = {}
  <1>1. Len(<<>>) = 0 /\ 1..0 = {} /\ DOMAIN <<>> = {}
    OBVIOUS
  <1>2. <<>> \in Seq(Record) /\ <<>> \in Seq(Seq(Record))
    OBVIOUS
  <1>3. QED
    BY <1>1, <1>2 DEF Rising, Range, Chain, Held

\* A record written after all others.
LEMMA RecordAppended ==
    ASSUME NEW file \in Seq(Record), Rising(file), NEW r \in Record, \A s \in Range(file) : s.id < r.id
    PROVE  /\ Append(file, r) \in Seq(Record) /\ Rising(Append(file, r))
           /\ Range(Append(file, r)) = Range(file) \cup {r}
  <1> DEFINE n == Len(file)
             more == Append(file, r)
  <1>1. n \in Nat /\ more \in Seq(Record) /\ Len(more) = n + 1 /\ more[n + 1] = r
    OBVIOUS
  <1>2. \A i \in 1..n : more[i] = file[i]
    OBVIOUS
  <1>3. Range(file) = {file[i] : i \in 1..n} /\ Range(more) = {more[i] : i \in 1..n + 1}
    BY <1>1, RecordsOf
  <1>4. 1..n + 1 = 1..n \cup {n + 1}
    BY <1>1
  <1> HIDE DEF more
  <1>5. Range(more) = Range(file) \cup {r}
    <2>1. Range(more) = {more[i] : i \in 1..n} \cup {more[n + 1]}
      BY <1>3, <1>4
    <2>2. QED
      BY <1>1, <1>2, <1>3, <2>1
  <1>6. ASSUME NEW i \in 1..n + 1, NEW j \in 1..n + 1, i < j PROVE more[i].id < more[j].id
    <2>1. i \in 1..n /\ (j \in 1..n \/ j = n + 1)
      BY <1>1, <1>6
    <2>2. CASE j \in 1..n
      BY <1>2, <1>6, <2>1, <2>2, Zenon DEF Rising
    <2>3. CASE j = n + 1
      BY <1>1, <1>2, <1>3, <2>1, <2>3, Zenon
    <2>4. QED
      BY <2>1, <2>2, <2>3
  <1>7. Rising(more)
    BY <1>1, <1>6, Zenon DEF Rising
  <1>8. QED
    BY <1>1, <1>5, <1>7 DEF more

\* A file of one record.
LEMMA OneRecord ==
    ASSUME NEW r \in Record
    PROVE  <<r>> \in Seq(Record) /\ Rising(<<r>>) /\ Range(<<r>>) = {r}
  <1>1. <<r>> \in Seq(Record) /\ Len(<<r>>) = 1 /\ <<r>>[1] = r /\ 1..1 = {1}
    OBVIOUS
  <1>2. Range(<<r>>) = {<<r>>[i] : i \in 1..1}
    BY <1>1, RecordsOf
  <1>3. Rising(<<r>>)
    BY <1>1 DEF Rising
  <1>4. QED
    BY <1>1, <1>2, <1>3

\* The chain of all files, as a rotation makes it.
LEMMA AllFiles ==
    ASSUME LogsInv
    PROVE  Chain(Append(archive, current)) /\ Held(Append(archive, current)) = Kept(archive, current)
  BY ChainAppend, Zenon DEF LogsInv, Kept

-----------------------------------------------------------------------------
\* The invariant holds initially.
LEMMA LogsInitInv == LogsInit => LogsInv
  <1> SUFFICES ASSUME LogsInit PROVE LogsInv
    OBVIOUS
  <1>1. current = <<>> /\ archive = <<>> /\ written = 0 /\ accepted = {}
    BY DEF LogsInit
  <1>2. Kept(archive, current) = {}
    BY <1>1, NoRecords DEF Kept
  <1>3. QED
    BY <1>1, <1>2, NoRecords DEF LogsInv, Newer

\* A record that fits is appended.
LEMMA WriteRecordInv ==
    ASSUME LogsInv, NEW r \in Record, r.id = written + 1, WriteRecord(r), written' = written + 1
    PROVE  LogsInv'
  <1>1. /\ current' = Append(current, r) /\ archive' = archive /\ stuck' = stuck
        /\ accepted' = accepted \cup {r}
    BY DEF WriteRecord
  <1>2. written' \in Nat /\ \A s \in accepted' : s.id \in Nat /\ s.id <= written'
    BY <1>1 DEF LogsInv
  <1>3. \A s \in Kept(archive, current) : s.id < r.id
    BY DEF LogsInv
  <1>4. /\ current' \in Seq(Record) /\ Rising(current') /\ Range(current') = Range(current) \cup {r}
    BY <1>1, <1>3, RecordAppended, Zenon DEF LogsInv, Kept
  <1>5. \A s \in Held(archive'), t \in Range(current') : s.id < t.id
    BY <1>1, <1>3, <1>4, Zenon DEF LogsInv, Kept
  <1>6. Kept(archive', current') = Kept(archive, current) \cup {r}
    BY <1>1, <1>4, Zenon DEF Kept
  <1>7. ~ stuck' => Newer(Kept(archive', current'), accepted')
    <2> SUFFICES ASSUME ~ stuck, NEW s \in accepted \cup {r}, NEW t \in Kept(archive, current) \cup {r}, s.id > t.id
                 PROVE  s \in Kept(archive, current) \cup {r}
      BY <1>1, <1>6, Zenon DEF Newer
    <2>1. CASE t = r
      <3>1. s.id <= r.id /\ s.id \in Nat /\ r.id \in Nat
        BY DEF LogsInv
      <3>2. QED
        BY <2>1, <3>1
    <2>2. CASE t # r
      BY <2>2, Zenon DEF LogsInv, Newer
    <2>3. QED
      BY <2>1, <2>2
  <1>8. Chain(archive') /\ Kept(archive', current') \subseteq accepted'
    BY <1>1, <1>6, Zenon DEF LogsInv
  <1>9. QED
    BY <1>2, <1>4, <1>5, <1>7, <1>8, Zenon DEF LogsInv

\* A rotation, whichever of its operations fails.
LEMMA RotateRecordInv ==
    ASSUME LogsInv, NEW r \in Record, r.id = written + 1, RotateRecord(r), written' = written + 1
    PROVE  LogsInv'
  <1> DEFINE all == Append(archive, current)
  <1>1. Chain(all) /\ Held(all) = Kept(archive, current)
    BY AllFiles
  <1>2. \A s \in accepted : s.id \in Nat /\ s.id <= written' /\ s.id < r.id
    BY DEF LogsInv
  <1>3. written' \in Nat /\ Held(all) \subseteq accepted /\ (~ stuck => Newer(Held(all), accepted))
    BY <1>1 DEF LogsInv
  <1> HIDE DEF all
  <1>4. CASE /\ archive' = Newest(all) /\ current' = <<r>>
             /\ accepted' = accepted \cup {r} /\ stuck' = stuck
    <2>1. Chain(archive') /\ Held(archive') \subseteq Held(all) /\ Newer(Held(archive'), Held(all))
      BY <1>1, <1>4, NewestChain
    <2>2. current' \in Seq(Record) /\ Rising(current') /\ Range(current') = {r}
      BY <1>4, OneRecord
    <2>3. \A s \in accepted' : s.id \in Nat /\ s.id <= written'
      BY <1>2, <1>4 DEF LogsInv
    <2>4. \A s \in Held(archive'), t \in Range(current') : s.id < t.id
      BY <1>2, <1>3, <2>1, <2>2, Zenon
    <2>5. Kept(archive', current') = Held(archive') \cup {r}
      BY <2>2, Zenon DEF Kept
    <2>6. Kept(archive', current') \subseteq accepted'
      BY <1>3, <1>4, <2>1, <2>5, Zenon
    <2>7. ~ stuck' => Newer(Kept(archive', current'), accepted')
      <3> SUFFICES ASSUME ~ stuck, NEW s \in accepted \cup {r}, NEW t \in Held(archive') \cup {r}, s.id > t.id
                   PROVE  s \in Held(archive') \cup {r}
        BY <1>4, <2>5, Zenon DEF Newer
      <3>1. CASE t = r
        <4>1. s.id <= r.id /\ s.id \in Nat /\ r.id \in Nat
          BY <1>2 DEF LogsInv
        <4>2. QED
          BY <3>1, <4>1
      <3>2. CASE t # r /\ s # r
        BY <1>3, <2>1, <3>2, Zenon DEF Newer
      <3>3. QED
        BY <3>1, <3>2
    <2>8. QED
      BY <1>3, <2>1, <2>2, <2>3, <2>4, <2>6, <2>7, Zenon DEF LogsInv
  <1>5. CASE UNCHANGED <<current, archive, accepted, stuck>>
    BY <1>2, <1>3, <1>5 DEF LogsInv
  <1>6. ASSUME Chain(archive'), Held(archive') \subseteq Held(all), current' = <<>>, accepted' = accepted,
               ~ stuck' => stuck' = stuck /\ archive' = all
        PROVE  LogsInv'
    <2>1. current' \in Seq(Record) /\ Rising(current') /\ Range(current') = {}
      BY <1>6, NoRecords
    <2>2. Kept(archive', current') = Held(archive')
      BY <2>1, Zenon DEF Kept
    <2>3. ~ stuck' => Newer(Kept(archive', current'), accepted')
      BY <1>3, <1>6, <2>2
    <2>4. \A s \in accepted' : s.id \in Nat /\ s.id <= written'
      BY <1>2, <1>6, Zenon
    <2>5. Kept(archive', current') \subseteq accepted'
      BY <1>3, <1>6, <2>2, Zenon
    <2>6. QED
      BY <1>3, <1>6, <2>1, <2>3, <2>4, <2>5, Zenon DEF LogsInv
  <1>7. CASE archive' = all /\ current' = <<>> /\ accepted' = accepted /\ stuck' = stuck
    BY <1>1, <1>6, <1>7, Zenon
  <1>8. CASE PruneFails(all) /\ current' = <<>> /\ accepted' = accepted
    <2>1. PICK n \in 1..Excess(all) : archive' = SubSeq(all, 1, n) \o Newest(all)
      BY <1>8 DEF PruneFails
    <2>2. Chain(archive') /\ Held(archive') \subseteq Held(all)
      BY <1>1, <2>1, PruneChain
    <2>3. stuck' = TRUE
      BY <1>8 DEF PruneFails
    <2>4. QED
      BY <1>6, <1>8, <2>2, <2>3
  <1>9. QED
    BY <1>4, <1>5, <1>7, <1>8 DEF RotateRecord, all

\* Write keeps the invariant.
LEMMA WriteInv == ASSUME LogsInv, NEW len \in Lengths, Write(len) PROVE LogsInv'
  <1> DEFINE r == [id |-> written + 1, len |-> len]
  <1>1. r \in Record /\ r.id = written + 1
    BY LogsAssumption DEF LogsInv, Record
  <1>2. written' = written + 1 /\ (RotateRecord(r) \/ WriteRecord(r))
    BY DEF Write
  <1> HIDE DEF r
  <1>3. QED
    BY <1>1, <1>2, WriteRecordInv, RotateRecordInv

\* A command that removes records of the files, and from the history with them.
LEMMA RemovalInv ==
    ASSUME LogsInv, NEW gone, written' = written, stuck' = stuck, accepted' = accepted \ gone,
           Chain(archive'), current' \in Seq(Record), Rising(current'),
           Held(archive') \subseteq Held(archive), Range(current') \subseteq Range(current),
           Kept(archive, current) \subseteq Kept(archive', current') \cup gone,
           Kept(archive', current') \cap gone = {}
    PROVE  LogsInv'
  <1>1. written' \in Nat /\ \A r \in accepted' : r.id \in Nat /\ r.id <= written'
    BY DEF LogsInv
  <1>2. \A r \in Held(archive'), s \in Range(current') : r.id < s.id
    BY Zenon DEF LogsInv
  <1>3. Kept(archive', current') \subseteq Kept(archive, current)
    BY Zenon DEF Kept
  <1>4. Kept(archive', current') \subseteq accepted'
    BY <1>3, Zenon DEF LogsInv
  <1>5. ~ stuck' => Newer(Kept(archive', current'), accepted')
    BY <1>3 DEF LogsInv, Newer
  <1>6. QED
    BY <1>1, <1>2, <1>4, <1>5, Zenon DEF LogsInv

\* The commands that remove files forget what was in them.
LEMMA DeleteCurrentInv == ASSUME LogsInv, DeleteCurrent PROVE LogsInv'
  <1> DEFINE gone == Range(current)
  <1>1. /\ current' = <<>> /\ archive' = archive /\ written' = written /\ stuck' = stuck
        /\ accepted' = accepted \ gone
    BY DEF DeleteCurrent, Forgotten
  <1>2. current' \in Seq(Record) /\ Rising(current') /\ Range(current') = {}
    BY <1>1, NoRecords
  <1>3. Kept(archive', current') = Held(archive) /\ Kept(archive, current) = Held(archive) \cup gone
    BY <1>1, <1>2, Zenon DEF Kept
  <1>4. Held(archive) \cap gone = {}
    <2> SUFFICES ASSUME NEW r \in Held(archive), r \in Range(current) PROVE FALSE
      BY Zenon
    <2>1. r.id < r.id /\ r.id \in Nat
      BY RecordsOf, Zenon DEF LogsInv
    <2>2. QED
      BY <2>1
  <1> HIDE DEF gone
  <1>5. Chain(archive') /\ Held(archive') \subseteq Held(archive) /\ Range(current') \subseteq Range(current)
    BY <1>1, <1>2, Zenon DEF LogsInv
  <1>6. QED
    BY <1>1, <1>2, <1>3, <1>4, <1>5, RemovalInv

\* An archive is removed from between the others.
LEMMA DeleteArchiveInv == ASSUME LogsInv, NEW i \in DOMAIN archive, DeleteArchive(i) PROVE LogsInv'
  <1> DEFINE gone == Range(archive[i])
  <1>1. /\ archive' = SubSeq(archive, 1, i - 1) \o SubSeq(archive, i + 1, Len(archive))
        /\ accepted' = accepted \ gone
        /\ current' = current /\ written' = written /\ stuck' = stuck
    BY DEF DeleteArchive, Forgotten
  <1>2. Chain(archive) /\ i \in 1..Len(archive)
    <2>1. Chain(archive)
      BY Zenon DEF LogsInv
    <2>2. archive \in Seq(Seq(Record))
      BY <2>1, Zenon DEF Chain
    <2>3. DOMAIN archive = 1..Len(archive)
      BY <2>2, LenProperties, Zenon
    <2>4. QED
      BY <2>1, <2>3, Zenon
  <1>3. Chain(archive') /\ Held(archive) = Held(archive') \cup gone /\ Held(archive') \cap gone = {}
    BY <1>1, <1>2, DropChain, Zenon
  <1> HIDE DEF gone
  <1>4. Range(current) \cap gone = {}
    <2> SUFFICES ASSUME NEW r \in gone, r \in Range(current) PROVE FALSE
      BY Zenon
    <2>1. r.id < r.id /\ r.id \in Nat
      BY <1>3, RecordsOf, Zenon DEF LogsInv
    <2>2. QED
      BY <2>1
  <1>5. /\ Kept(archive, current) \subseteq Kept(archive', current') \cup gone
        /\ Kept(archive', current') \cap gone = {}
    BY <1>1, <1>3, <1>4 DEF Kept
  <1>6. /\ current' \in Seq(Record) /\ Rising(current') /\ Range(current') \subseteq Range(current)
        /\ Held(archive') \subseteq Held(archive)
    BY <1>1, <1>3, Zenon DEF LogsInv
  <1>7. QED
    BY <1>1, <1>3, <1>5, <1>6, RemovalInv

\* Clear leaves the oldest archives.
LEMMA ClearInv == ASSUME LogsInv, NEW n \in 0..Len(archive), Clear(n) PROVE LogsInv'
  <1> DEFINE old == UNION {Range(archive[i]) : i \in n + 1..Len(archive)}
             gone == Range(current) \cup old
  <1>1. /\ archive' = SubSeq(archive, 1, n) /\ current' = <<>> /\ written' = written /\ stuck' = stuck
        /\ accepted' = accepted \ UNION {Range(f) : f \in {current} \cup {archive[i] : i \in n + 1..Len(archive)}}
    BY DEF Clear, Forgotten
  <1>2. UNION {Range(f) : f \in {current} \cup {archive[i] : i \in n + 1..Len(archive)}} = gone
    BY Zenon
  <1>3. accepted' = accepted \ gone
    BY <1>1, <1>2, Zenon
  <1>4. Chain(archive') /\ Held(archive) = Held(archive') \cup old /\ Held(archive') \cap old = {}
    BY <1>1, PrefixChain, Zenon DEF LogsInv
  <1>5. current' \in Seq(Record) /\ Rising(current') /\ Range(current') = {}
    BY <1>1, NoRecords
  <1> HIDE DEF old
  <1>6. Held(archive') \cap Range(current) = {}
    <2> SUFFICES ASSUME NEW r \in Held(archive'), r \in Range(current) PROVE FALSE
      BY Zenon
    <2>1. r.id < r.id /\ r.id \in Nat
      BY <1>4, RecordsOf, Zenon DEF LogsInv
    <2>2. QED
      BY <2>1
  <1>7. /\ Kept(archive, current) \subseteq Kept(archive', current') \cup gone
        /\ Kept(archive', current') \cap gone = {}
    BY <1>4, <1>5, <1>6 DEF Kept
  <1>8. Held(archive') \subseteq Held(archive) /\ Range(current') \subseteq Range(current)
    BY <1>4, <1>5, Zenon
  <1> HIDE DEF gone
  <1>9. QED
    BY <1>1, <1>3, <1>4, <1>5, <1>7, <1>8, RemovalInv

\* OpenNamed prunes, or fails to.
LEMMA OpenLogsInv == ASSUME LogsInv, OpenLogs PROVE LogsInv'
  <1>1. current' = current /\ written' = written /\ accepted' = accepted
    BY DEF OpenLogs
  <1>2. ASSUME Chain(archive'), Held(archive') \subseteq Held(archive),
               ~ stuck' => stuck' = stuck /\ Newer(Held(archive'), Held(archive))
        PROVE  LogsInv'
    <2>1. /\ written' \in Nat /\ \A r \in accepted' : r.id \in Nat /\ r.id <= written'
          /\ current' \in Seq(Record) /\ Rising(current')
      BY <1>1 DEF LogsInv
    <2>2. \A r \in Held(archive'), s \in Range(current') : r.id < s.id
      BY <1>1, <1>2 DEF LogsInv
    <2>3. Kept(archive', current') \subseteq Kept(archive, current)
      BY <1>1, <1>2 DEF Kept
    <2>4. Kept(archive', current') \subseteq accepted'
      BY <1>1, <2>3 DEF LogsInv
    <2>5. ASSUME ~ stuck', NEW r \in accepted, NEW s \in Kept(archive', current'), r.id > s.id
          PROVE  r \in Kept(archive', current')
      <3>1. r \in Kept(archive, current)
        BY <1>2, <2>3, <2>5 DEF LogsInv, Newer
      <3>2. CASE r \in Range(current)
        BY <1>1, <3>2, Zenon DEF Kept
      <3>3. CASE r \in Held(archive) /\ s \in Held(archive')
        BY <1>2, <2>5, <3>3, Zenon DEF Newer, Kept
      <3>4. CASE r \in Held(archive) /\ s \in Range(current)
        <4>1. r.id < s.id /\ r.id \in Nat /\ s.id \in Nat
          BY <2>1, <2>4, <2>5, <1>1, <3>4 DEF LogsInv
        <4>2. QED
          BY <2>5, <4>1
      <3>5. QED
        BY <1>1, <2>5, <3>1, <3>2, <3>3, <3>4, Zenon DEF Kept
    <2>6. ~ stuck' => Newer(Kept(archive', current'), accepted')
      BY <1>1, <2>5 DEF Newer
    <2>7. QED
      BY <1>2, <2>1, <2>2, <2>4, <2>6, Zenon DEF LogsInv
  <1>3. CASE archive' = Newest(archive) /\ stuck' = stuck
    BY <1>2, <1>3, NewestChain DEF LogsInv
  <1>4. CASE PruneFails(archive)
    <2>1. PICK n \in 1..Excess(archive) : archive' = SubSeq(archive, 1, n) \o Newest(archive)
      BY <1>4 DEF PruneFails
    <2>2. Chain(archive') /\ Held(archive') \subseteq Held(archive)
      BY <2>1, PruneChain DEF LogsInv
    <2>3. stuck' = TRUE
      BY <1>4 DEF PruneFails
    <2>4. QED
      BY <1>2, <2>2, <2>3
  <1>5. QED
    BY <1>3, <1>4 DEF OpenLogs

\* Every step keeps the invariant.
LEMMA LogsStep == LogsInv /\ [LogsNext]_logVars => LogsInv'
  <1> SUFFICES ASSUME LogsInv, [LogsNext]_logVars PROVE LogsInv'
    OBVIOUS
  <1>1. ASSUME NEW len \in Lengths, Write(len) PROVE LogsInv'
    BY <1>1, WriteInv
  <1>2. CASE DeleteCurrent
    BY <1>2, DeleteCurrentInv
  <1>3. ASSUME NEW i \in DOMAIN archive, DeleteArchive(i) PROVE LogsInv'
    BY <1>3, DeleteArchiveInv
  <1>4. ASSUME NEW n \in 0..Len(archive), Clear(n) PROVE LogsInv'
    BY <1>4, ClearInv
  <1>5. CASE OpenLogs
    BY <1>5, OpenLogsInv
  <1>6. CASE UNCHANGED <<current, archive, written, accepted, stuck>>
    BY <1>6, ZenonT(60) DEF LogsInv
  <1>7. CASE CloseLogs
    BY <1>6, <1>7 DEF CloseLogs
  <1>8. CASE UNCHANGED logVars
    BY <1>6, <1>8 DEF logVars
  <1>9. QED
    BY <1>1, <1>2, <1>3, <1>4, <1>5, <1>7, <1>8, Zenon DEF LogsNext

-----------------------------------------------------------------------------
(* Read. *)

\* The recursion over a file's records yields their bytes.
LEMMA SizeNat ==
    ASSUME NEW file \in Seq(Record)
    PROVE  Size(file) \in Nat
  <1> DEFINE N == Len(file)
             Step(f, n) == IF n = 0 THEN 0 ELSE f[n - 1] + file[n].len
             Upto(f, k) == f = [n \in 0..k |-> Step(f, n)]
             upto == CHOOSE f : Upto(f, N)
  <1>1. N \in Nat /\ \A n \in 1..N : file[n].len \in Nat
    <2>1. N \in Nat /\ \A n \in 1..N : file[n] \in Record
      OBVIOUS
    <2>2. \A r \in Record : r.len \in Nat
      BY DEF Record
    <2>3. QED
      BY <2>1, <2>2, Zenon
  <1>2. \A k \in Nat : k <= N => \E f : Upto(f, k)
    <2> DEFINE Bad == {k \in Nat : k <= N /\ ~ \E f : Upto(f, k)}
    <2> SUFFICES ASSUME Bad # {} PROVE FALSE
      OBVIOUS
    <2>1. PICK k \in Bad : \A m \in Nat : m < k => m \notin Bad
      <3>1. Bad \in SUBSET Nat
        OBVIOUS
      <3> HIDE DEF Bad
      <3>2. QED
        BY <3>1, LeastNumber
    <2>2. k # 0
      <3>1. Upto([n \in 0..0 |-> 0], 0)
        OBVIOUS
      <3>2. QED
        BY <3>1
    <2>3. PICK f : Upto(f, k - 1)
      <3>1. k - 1 \in Nat /\ k - 1 < k /\ k - 1 <= N
        BY <1>1, <2>2
      <3>2. QED
        BY <2>1, <3>1
    <2> DEFINE g == [n \in 0..k |-> IF n = k THEN Step(f, k) ELSE f[n]]
    <2>4. \A n \in 0..k : g[n] = Step(g, n)
      <3> SUFFICES ASSUME NEW n \in 0..k PROVE g[n] = Step(g, n)
        OBVIOUS
      <3> HIDE DEF Step
      <3>1. n # 0 => g[n - 1] = f[n - 1]
        BY <2>2
      <3>2. n # k => f[n] = Step(f, n)
        <4>1. n # k => n \in 0..k - 1
          BY <2>2
        <4>2. QED
          BY <2>3, <4>1
      <3>3. g[n] = IF n = k THEN Step(f, k) ELSE f[n]
        BY Zenon
      <3> HIDE DEF g
      <3>4. Step(g, n) = Step(f, n)
        BY <3>1 DEF Step
      <3>5. QED
        BY <3>2, <3>3, <3>4, Zenon
    <2>5. Upto(g, k)
      BY <2>4
    <2>6. QED
      BY <2>5
  <1>3. Upto(upto, N)
    <2>1. \E f : Upto(f, N)
      <3> HIDE DEF Upto
      <3>1. QED
        BY <1>1, <1>2
    <2> HIDE DEF Upto
    <2>2. QED
      BY <2>1, Zenon
  <1>4. Size(file) = upto[N]
    BY Zenon DEF Size
  <1> HIDE DEF upto
  <1>5. \A n \in 0..N : upto[n] = Step(upto, n)
    BY <1>3
  <1>6. \A n \in Nat : n <= N => upto[n] \in Nat
    <2> DEFINE Bad == {n \in Nat : n <= N /\ upto[n] \notin Nat}
    <2> SUFFICES ASSUME Bad # {} PROVE FALSE
      OBVIOUS
    <2>1. PICK n \in Bad : \A m \in Nat : m < n => m \notin Bad
      <3>1. Bad \in SUBSET Nat
        OBVIOUS
      <3> HIDE DEF Bad
      <3>2. QED
        BY <3>1, LeastNumber
    <2>2. n # 0
      <3>1. upto[0] = 0
        BY <1>1, <1>5
      <3>2. QED
        BY <2>1, <3>1
    <2>3. n - 1 \in Nat /\ n \in 1..N /\ upto[n - 1] \in Nat
      <3>1. n - 1 \in Nat /\ n - 1 < n /\ n - 1 <= N /\ n \in 1..N
        BY <1>1, <2>1, <2>2
      <3>2. QED
        BY <2>1, <3>1
    <2>4. upto[n] = upto[n - 1] + file[n].len
      BY <1>5, <2>3
    <2>5. QED
      BY <1>1, <2>1, <2>3, <2>4
  <1>7. QED
    BY <1>1, <1>4, <1>6

\* The newest n records of a file, and the newest m of those.
LEMMA LastFacts ==
    ASSUME NEW file \in Seq(Record), NEW n \in 0..Len(file)
    PROVE  /\ Last(file, n) \in Seq(Record) /\ Len(Last(file, n)) = n
           /\ \A i \in 1..n : Last(file, n)[i] = file[Len(file) + 1 - i]
           /\ \A m \in 0..n : SubSeq(Last(file, n), 1, m) = Last(file, m)
  <1>1. ASSUME NEW m \in 0..Len(file)
        PROVE  Last(file, m) \in Seq(Record) /\ Len(Last(file, m)) = m
    <2>1. \A i \in 1..m : file[Len(file) + 1 - i] \in Record
      OBVIOUS
    <2>2. QED
      BY <2>1 DEF Last
  <1>2. ASSUME NEW m \in 0..Len(file), NEW i \in 1..m PROVE Last(file, m)[i] = file[Len(file) + 1 - i]
    BY Zenon DEF Last
  <1>3. ASSUME NEW m \in 0..n
        PROVE  SubSeq(Last(file, n), 1, m) = Last(file, m)
    <2> DEFINE a == Last(file, n)
               b == Last(file, m)
    <2>1. m \in 0..Len(file) /\ m \in Nat /\ n \in Nat /\ m <= n
      OBVIOUS
    <2>2. a \in Seq(Record) /\ Len(a) = n /\ b \in Seq(Record) /\ Len(b) = m
      BY <1>1, <2>1
    <2>3. \A i \in 1..m : a[i] = b[i]
      <3> SUFFICES ASSUME NEW i \in 1..m PROVE a[i] = b[i]
        OBVIOUS
      <3>1. i \in 1..n
        BY <2>1
      <3>2. QED
        BY <1>2, <2>1, <3>1, Zenon
    <2> HIDE DEF a, b
    <2>4. SubSeq(a, 1, m) \in Seq(Record) /\ Len(SubSeq(a, 1, m)) = m
      BY <2>1, <2>2
    <2>5. \A i \in 1..m : SubSeq(a, 1, m)[i] = b[i]
      BY <2>1, <2>2, <2>3
    <2>6. QED
      BY <2>2, <2>4, <2>5, SeqEqual DEF a, b
  <1>4. QED
    BY <1>1, <1>2, <1>3, Zenon

\* A file read from byte start on: its newest lines, all of them from byte 0.
LEMMA LinesFromLast ==
    ASSUME NEW file \in Seq(Record), NEW start \in Nat
    PROVE  \E c \in 0..Len(file) :
             LinesFrom(file, start) = Last(file, c) /\ (start = 0 => c = Len(file))
  <1> DEFINE cut == {i \in DOMAIN file : start > 0 /\ Size(SubSeq(file, 1, i - 1)) <= start}
  <1>1. DOMAIN file = 1..Len(file) /\ Len(file) \in Nat
    OBVIOUS
  <1>2. IsFiniteSet(1..Len(file)) /\ Cardinality(1..Len(file)) = Len(file)
    <2>1. 1 \in Int /\ Len(file) \in Int
      BY <1>1
    <2>2. /\ IsFiniteSet(1..Len(file))
          /\ Cardinality(1..Len(file)) = IF 1 > Len(file) THEN 0 ELSE Len(file) - 1 + 1
      BY <2>1, FS_Interval, Zenon
    <2>3. (IF 1 > Len(file) THEN 0 ELSE Len(file) - 1 + 1) = Len(file)
      BY <1>1
    <2>4. QED
      BY <2>2, <2>3
  <1>3. cut \subseteq 1..Len(file)
    BY <1>1
  <1>4. LinesFrom(file, start) = Last(file, Len(file) - Cardinality(cut))
    BY Zenon DEF LinesFrom
  <1>5. start = 0 => cut = {}
    OBVIOUS
  <1> HIDE DEF cut
  <1>6. Cardinality(cut) \in Nat /\ Cardinality(cut) <= Len(file)
    BY <1>2, <1>3, FS_Subset, FS_CardinalityType
  <1>7. start = 0 => Cardinality(cut) = 0
    BY <1>5, FS_EmptySet
  <1>8. Len(file) - Cardinality(cut) \in 0..Len(file) /\ (start = 0 => Len(file) - Cardinality(cut) = Len(file))
    BY <1>1, <1>6, <1>7
  <1>9. QED
    BY <1>4, <1>8, Zenon

\* What one file of Read does, when the limit is not reached: the newest
\* records of the file join what there is; all of them, unless the result says
\* it is truncated; and when there is no more to read, it is truncated or the
\* file was the last one.
FileRead(next, out, file, last, limit) ==
    /\ next.budget \in Nat /\ next.done \in BOOLEAN /\ next.truncated \in BOOLEAN
    /\ ~ next.done => ~ next.truncated
    /\ \E c \in 0..Len(file) :
         /\ next.lines = out.lines \o Last(file, c)
         /\ Len(out.lines) + c <= limit
         /\ ~ next.done => Len(out.lines) + c < limit
         /\ ~ next.truncated => c = Len(file)
    /\ next.done /\ ~ next.truncated => last

\* One round of the loop of Read returns the newest records of its file.
LEMMA ReadFileFacts ==
    ASSUME NEW out, out.lines \in Seq(Record), out.budget \in Nat, out.done = FALSE, out.truncated = FALSE,
           NEW file \in Seq(Record), NEW last \in BOOLEAN, NEW limit \in Nat, Len(out.lines) < limit,
           NEW next, next = ReadFile(out, file, last, limit)
    PROVE  FileRead(next, out, file, last, limit)
  <1> DEFINE size == Size(file)
             start == IF size > out.budget THEN size - out.budget ELSE 0
             lines == LinesFrom(file, start)
             had == Len(out.lines)
             room == limit - had
             left == out.budget - (size - start)
             found == Len(lines)
             all == Len(file)
  <1>1. size \in Nat
    BY SizeNat
  <1> HIDE DEF size
  <1>2. start \in Nat /\ left \in Nat /\ (start > 0 => left = 0)
    BY <1>1
  <1>3. PICK c \in 0..all : lines = Last(file, c) /\ (start = 0 => c = all)
    <2> HIDE DEF start
    <2>1. QED
      BY <1>2, LinesFromLast, Zenon
  <1>4. all \in Nat /\ had \in Nat /\ had < limit
    OBVIOUS
  <1>5. found = c /\ (lines = <<>> => c = 0)
    <2>1. found = c
      BY <1>3, LastFacts, Zenon
    <2> HIDE DEF lines
    <2>2. QED
      BY <2>1
  <1>6. next = IF lines # <<>> /\ found >= room
               THEN [lines |-> out.lines \o SubSeq(lines, 1, room), budget |-> left, done |-> TRUE,
                     truncated |-> found > room \/ start > 0 \/ ~ last]
               ELSE [lines |-> out.lines \o lines, budget |-> left, done |-> left = 0,
                     truncated |-> out.truncated \/ start > 0 \/ left = 0]
    BY Zenon DEF ReadFile, size
  <1> HIDE DEF start, left, lines, found, all, had
  <1>7. room \in Nat \ {0} /\ had + room = limit
    BY <1>4
  <1> HIDE DEF room
  <1> DEFINE Taken(k) == /\ next.lines = out.lines \o Last(file, k) /\ next.budget = left
                         /\ next.done \in BOOLEAN /\ next.truncated \in BOOLEAN /\ had + k <= limit
                         /\ ~ next.done => ~ next.truncated /\ had + k < limit
                         /\ ~ next.truncated => k = all
                         /\ next.done /\ ~ next.truncated => last
  <1>8. ASSUME lines # <<>> /\ found >= room
        PROVE  \E k \in 0..all : Taken(k)
    <2>1. room \in 0..c /\ room \in 0..all
      BY <1>4, <1>5, <1>7, <1>8
    <2>2. SubSeq(lines, 1, room) = Last(file, room)
      BY <1>3, <2>1, LastFacts, Zenon DEF all
    <2>3. /\ next.lines = out.lines \o Last(file, room) /\ next.budget = left /\ next.done = TRUE
          /\ next.truncated = (found > room \/ start > 0 \/ ~ last)
      <3> DEFINE joined == out.lines \o Last(file, room)
                 flag == found > room \/ start > 0 \/ ~ last
      <3>1. next = [lines |-> joined, budget |-> left, done |-> TRUE, truncated |-> flag]
        BY <1>6, <1>8, <2>2, Zenon
      <3> HIDE DEF joined, flag
      <3>2. next.lines = joined /\ next.budget = left /\ next.done = TRUE /\ next.truncated = flag
        BY <3>1
      <3>3. QED
        BY <3>2, Zenon DEF joined, flag
    <2>4. ~ next.truncated => room = all /\ last
      <3>1. (start = 0 => c = all) /\ found >= room /\ found = c
        BY <1>3, <1>5, <1>8, Zenon
      <3>2. ~ (found > room) /\ ~ (start > 0) => room = all
        BY <1>2, <1>4, <1>7, <3>1
      <3>3. QED
        BY <2>3, <3>2, Zenon
    <2>5. next.done /\ next.done \in BOOLEAN /\ next.truncated \in BOOLEAN /\ had + room <= limit
      <3>1. had + room <= limit
        BY <1>4, <1>7
      <3>2. QED
        BY <2>3, <3>1, Zenon
    <2>6. Taken(room)
      BY <2>3, <2>4, <2>5, Zenon
    <2> HIDE DEF Taken
    <2>7. QED
      BY <2>1, <2>6, Zenon
  <1>9. ASSUME ~ (lines # <<>> /\ found >= room)
        PROVE  \E k \in 0..all : Taken(k)
    <2>1. had + c < limit
      BY <1>4, <1>5, <1>7, <1>9
    <2>2. /\ next.lines = out.lines \o Last(file, c) /\ next.budget = left /\ next.done = (left = 0)
          /\ next.truncated = (start > 0 \/ left = 0)
      <3> DEFINE joined == out.lines \o Last(file, c)
                 flag == out.truncated \/ start > 0 \/ left = 0
                 end == left = 0
      <3>1. next = [lines |-> joined, budget |-> left, done |-> end, truncated |-> flag]
        BY <1>3, <1>6, <1>9, Zenon
      <3> HIDE DEF joined, flag, end
      <3>2. next.lines = joined /\ next.budget = left /\ next.done = end /\ next.truncated = flag
        BY <3>1
      <3>3. QED
        BY <3>2, Zenon DEF joined, flag, end
    <2>3. /\ ~ next.truncated => c = all /\ ~ next.done
          /\ ~ next.done => ~ next.truncated
      <3>1. start = 0 => c = all
        BY <1>3, Zenon
      <3>2. (~ (start > 0) => c = all) /\ (start > 0 => left = 0)
        BY <1>2, <3>1
      <3>3. QED
        BY <2>2, <3>2, Zenon
    <2>4. next.truncated \in BOOLEAN /\ next.done \in BOOLEAN /\ had + c <= limit
      <3>1. had + c <= limit
        BY <1>4, <2>1
      <3>2. QED
        BY <2>2, <3>1, Zenon
    <2>5. Taken(c)
      BY <2>1, <2>2, <2>3, <2>4, Zenon
    <2> HIDE DEF Taken
    <2>6. QED
      BY <2>5, Zenon
  <1>10. PICK k \in 0..all : Taken(k)
    BY <1>8, <1>9, Zenon
  <1>11. QED
    BY <1>2, <1>10, Zenon DEF all, had, FileRead

\* Lines of which each is older than the one before it.
Falling(lines) == \A i, j \in 1..Len(lines) : i < j => lines[i].id > lines[j].id

\* The newest records of a file, the newest first.
LEMMA LastLines ==
    ASSUME NEW file \in Seq(Record), Rising(file), NEW c \in 0..Len(file)
    PROVE  /\ Falling(Last(file, c)) /\ Range(Last(file, c)) \subseteq Range(file)
           /\ Newer(Range(Last(file, c)), Range(file))
           /\ c = Len(file) => Range(Last(file, c)) = Range(file)
  <1> DEFINE n == Len(file)
             last == Last(file, c)
  <1>1. /\ n \in Nat /\ last \in Seq(Record) /\ Len(last) = c
        /\ \A i \in 1..c : last[i] = file[n + 1 - i]
    <2>1. n \in Nat
      BY LenProperties, Zenon
    <2>2. QED
      BY <2>1, LastFacts, Zenon
  <1>2. Range(last) = {last[i] : i \in 1..c} /\ Range(file) = {file[i] : i \in 1..n}
    BY <1>1, RecordsOf
  <1>3. \A i \in 1..c : n + 1 - i \in 1..n
    BY <1>1
  <1>4. \A i \in 1..n : file[i].id \in Nat
    BY <1>2, RecordsOf
  <1> HIDE DEF n, last
  <1>5. Falling(last)
    <2> SUFFICES ASSUME NEW i \in 1..c, NEW j \in 1..c, i < j PROVE last[i].id > last[j].id
      BY <1>1, Zenon DEF Falling
    <2>1. n + 1 - j < n + 1 - i
      BY <1>1
    <2>2. file[n + 1 - j].id < file[n + 1 - i].id
      BY <1>3, <2>1, Zenon DEF Rising, n
    <2>3. last[i].id \in Nat /\ last[j].id \in Nat /\ last[j].id < last[i].id
      BY <1>1, <1>3, <1>4, <2>2, Zenon
    <2>4. QED
      BY <2>3
  <1>6. Range(last) \subseteq Range(file)
    BY <1>1, <1>2, <1>3, Zenon
  <1>7. ASSUME NEW k \in 1..n, NEW i \in 1..c, file[k].id > last[i].id
        PROVE  file[k] \in Range(last)
    <2>1. last[i] = file[n + 1 - i] /\ n + 1 - i \in 1..n
      BY <1>1, <1>3, Zenon
    <2>2. ~ k < n + 1 - i
      <3>1. k < n + 1 - i => file[k].id < file[n + 1 - i].id
        BY <2>1, Zenon DEF Rising, n
      <3>2. file[k].id \in Nat /\ file[n + 1 - i].id \in Nat
        BY <1>4, <2>1, Zenon
      <3>3. QED
        BY <1>7, <2>1, <3>1, <3>2
    <2>3. n + 1 - k \in 1..c /\ n + 1 - (n + 1 - k) = k
      BY <1>1, <2>2
    <2>4. last[n + 1 - k] = file[k]
      <3>1. last[n + 1 - k] = file[n + 1 - (n + 1 - k)]
        BY <1>1, <2>3, Zenon
      <3>2. QED
        BY <2>3, <3>1
    <2>5. QED
      BY <1>2, <2>3, <2>4, Zenon
  <1>8. Newer(Range(last), Range(file))
    BY <1>2, <1>7, Zenon DEF Newer
  <1>9. ASSUME c = n, NEW k \in 1..n PROVE file[k] \in Range(last)
    <2>1. n + 1 - k \in 1..c /\ n + 1 - (n + 1 - k) = k
      BY <1>1, <1>9
    <2>2. last[n + 1 - k] = file[n + 1 - (n + 1 - k)]
      BY <1>1, <2>1, Zenon
    <2>3. last[n + 1 - k] = file[k]
      BY <2>1, <2>2
    <2>4. QED
      BY <1>2, <2>1, <2>3, Zenon
  <1>10. c = n => Range(last) = Range(file)
    BY <1>2, <1>6, <1>9, Zenon
  <1>11. QED
    BY <1>5, <1>6, <1>8, <1>10 DEF n, last

\* Older lines after newer ones.
LEMMA LinesJoined ==
    ASSUME NEW a \in Seq(Record), NEW b \in Seq(Record), Falling(a), Falling(b),
           \A r \in Range(a), s \in Range(b) : s.id < r.id
    PROVE  /\ a \o b \in Seq(Record) /\ Len(a \o b) = Len(a) + Len(b)
           /\ Falling(a \o b) /\ Range(a \o b) = Range(a) \cup Range(b)
  <1> DEFINE m == Len(a)
             n == Len(b)
             both == a \o b
  <1>1. m \in Nat /\ n \in Nat /\ both \in Seq(Record) /\ Len(both) = m + n
    OBVIOUS
  <1>2. \A i \in 1..m : both[i] = a[i]
    OBVIOUS
  <1>3. \A i \in 1..n : both[m + i] = b[i]
    OBVIOUS
  <1>4. /\ Range(a) = {a[i] : i \in 1..m} /\ Range(b) = {b[i] : i \in 1..n}
        /\ Range(both) = {both[i] : i \in 1..m + n}
    BY <1>1, RecordsOf
  <1>5. \A i \in 1..m : a[i].id \in Nat
    BY <1>4, RecordsOf
  <1>6. \A i \in 1..n : b[i].id \in Nat
    BY <1>4, RecordsOf
  <1> HIDE DEF m, n, both
  <1>7. \A i \in 1..m + n : i \in 1..m \/ \E j \in 1..n : i = m + j
    <2> SUFFICES ASSUME NEW i \in 1..m + n, i \notin 1..m PROVE \E j \in 1..n : i = m + j
      OBVIOUS
    <2>1. i - m \in 1..n /\ i = m + (i - m)
      BY <1>1
    <2>2. QED
      BY <2>1, Zenon
  <1>8. (\A i \in 1..m : i \in 1..m + n) /\ \A i \in 1..n : m + i \in 1..m + n
    BY <1>1
  <1>9. Range(both) = Range(a) \cup Range(b)
    <2>1. Range(both) \subseteq Range(a) \cup Range(b)
      <3> SUFFICES ASSUME NEW i \in 1..m + n PROVE both[i] \in Range(a) \cup Range(b)
        BY <1>4, Zenon
      <3>1. CASE i \in 1..m
        BY <1>2, <1>4, <3>1, Zenon
      <3>2. CASE i \notin 1..m
        BY <1>3, <1>4, <1>7, <3>2, Zenon
      <3>3. QED
        BY <3>1, <3>2
    <2>2. Range(a) \subseteq Range(both) /\ Range(b) \subseteq Range(both)
      BY <1>2, <1>3, <1>4, <1>8, Zenon
    <2>3. QED
      BY <2>1, <2>2, Zenon
  <1>10. ASSUME NEW i \in 1..m + n, NEW j \in 1..m + n, i < j PROVE both[i].id > both[j].id
    <2>1. CASE i \in 1..m /\ j \in 1..m
      BY <1>2, <1>10, <2>1, Zenon DEF Falling, m
    <2>2. CASE i \in 1..m /\ j \notin 1..m
      <3>1. PICK k \in 1..n : j = m + k
        BY <1>7, <2>2, Zenon
      <3>2. both[i] = a[i] /\ both[j] = b[k] /\ b[k].id < a[i].id
        BY <1>2, <1>3, <1>4, <2>2, <3>1, Zenon
      <3>3. a[i].id \in Nat /\ b[k].id \in Nat
        BY <1>5, <1>6, <2>2, Zenon
      <3>4. QED
        BY <3>2, <3>3
    <2>3. CASE i \notin 1..m
      <3>1. PICK k \in 1..n : i = m + k
        BY <1>7, <2>3, Zenon
      <3>2. j \notin 1..m
        BY <1>1, <1>10, <2>3
      <3>3. PICK l \in 1..n : j = m + l
        BY <1>7, <3>2, Zenon
      <3>4. k < l
        BY <1>1, <1>10, <3>1, <3>3
      <3>5. QED
        BY <1>3, <3>1, <3>3, <3>4, Zenon DEF Falling, n
    <2>4. QED
      BY <2>1, <2>2, <2>3
  <1>11. Falling(both)
    BY <1>1, <1>10, Zenon DEF Falling
  <1>12. QED
    BY <1>1, <1>9, <1>11 DEF m, n, both

\* The files, the newest first.
LEMMA FilesFacts ==
    ASSUME LogsInv
    PROVE  /\ Len(Files) \in Nat \ {0} /\ Files \in Seq(Seq(Record))
           /\ \A i \in 1..Len(Files) : Files[i] \in Seq(Record) /\ Rising(Files[i])
           /\ \A i, j \in 1..Len(Files) : i < j =>
                \A r \in Range(Files[i]), s \in Range(Files[j]) : s.id < r.id
           /\ Held(Files) = Kept(archive, current)
  <1> DEFINE n == Len(archive)
  <1>1. /\ archive \in Seq(Seq(Record)) /\ n \in Nat /\ current \in Seq(Record)
        /\ \A i \in 1..n : archive[i] \in Seq(Record)
    BY DEF LogsInv, Chain
  <1>2. /\ Files \in Seq(Seq(Record)) /\ Len(Files) = n + 1
    <2>1. \A i \in 1..n + 1 : (IF i = 1 THEN current ELSE archive[n + 2 - i]) \in Seq(Record)
      <3> SUFFICES ASSUME NEW i \in 1..n + 1, i # 1 PROVE archive[n + 2 - i] \in Seq(Record)
        BY <1>1
      <3>1. n + 2 - i \in 1..n
        BY <1>1
      <3>2. QED
        BY <1>1, <3>1, Zenon
    <2> DEFINE T == Seq(Record)
    <2> HIDE DEF T, n
    <2>2. Files = [i \in 1..n + 1 |-> IF i = 1 THEN current ELSE archive[n + 2 - i]]
      BY Zenon DEF Files, n
    <2>3. Files \in Seq(T) /\ Len(Files) = n + 1
      BY <1>1, <2>1, <2>2 DEF T
    <2>4. QED
      BY <2>3 DEF T
  <1>3. Files[1] = current
    BY <1>1 DEF Files
  <1>4. \A i \in 2..n + 1 : n + 2 - i \in 1..n /\ Files[i] = archive[n + 2 - i]
    BY <1>1 DEF Files
  <1>5. 1..n + 1 = {1} \cup (2..n + 1)
    BY <1>1
  <1>6. \A i \in 1..n + 1 : Files[i] \in Seq(Record) /\ Rising(Files[i])
    BY <1>1, <1>3, <1>4, <1>5, Zenon DEF LogsInv, Chain
  <1>7. \A i \in 1..n : n + 2 - i \in 2..n + 1 /\ Files[n + 2 - i] = archive[i]
    <2> SUFFICES ASSUME NEW i \in 1..n PROVE n + 2 - i \in 2..n + 1 /\ Files[n + 2 - i] = archive[i]
      OBVIOUS
    <2>1. n + 2 - i \in 2..n + 1 /\ n + 2 - (n + 2 - i) = i
      BY <1>1
    <2>2. Files[n + 2 - i] = archive[n + 2 - (n + 2 - i)]
      BY <1>4, <2>1, Zenon
    <2>3. QED
      BY <2>1, <2>2
  <1>8. Held(Files) = Kept(archive, current)
    <2>1. Held(Files) = UNION {Range(Files[i]) : i \in {1} \cup (2..n + 1)}
      BY <1>2, <1>5, Zenon DEF Held
    <2>2. Held(Files) = Range(current) \cup UNION {Range(Files[i]) : i \in 2..n + 1}
      BY <1>3, <2>1, Zenon
    <2>3. UNION {Range(Files[i]) : i \in 2..n + 1} = UNION {Range(archive[i]) : i \in 1..n}
      BY <1>4, <1>7, Zenon
    <2>4. QED
      BY <2>2, <2>3, Zenon DEF Held, Kept
  <1>9. ASSUME NEW i \in 1..n + 1, NEW j \in 1..n + 1, i < j,
               NEW r \in Range(Files[i]), NEW s \in Range(Files[j])
        PROVE  s.id < r.id
    <2>1. j \in 2..n + 1 /\ n + 2 - j \in 1..n /\ Files[j] = archive[n + 2 - j]
      <3>1. j \in 2..n + 1
        BY <1>1, <1>9
      <3>2. QED
        BY <1>4, <3>1, Zenon
    <2>2. CASE i = 1
      BY <1>3, <2>1, <2>2, Zenon DEF LogsInv, Held
    <2>3. CASE i # 1
      <3>1. n + 2 - i \in 1..n /\ Files[i] = archive[n + 2 - i]
        BY <1>4, <1>5, <2>3, Zenon
      <3>2. n + 2 - j < n + 2 - i
        BY <1>1, <1>9
      <3>3. QED
        BY <2>1, <3>1, <3>2, Zenon DEF LogsInv, Chain
    <2>4. QED
      BY <2>2, <2>3
  <1>10. n + 1 \in Nat \ {0}
    BY <1>1
  <1>11. QED
    BY <1>2, <1>6, <1>8, <1>9, <1>10, Zenon

\* The records of the first n files, and what Read has made of them: lines that
\* fall, with no newer record of any file missing, all of the records unless it
\* is truncated; and before the last file it goes on only when it is not.
Upper(n) == UNION {Range(Files[i]) : i \in 1..n}
ReadGood(out, n, limit) ==
    /\ out.lines \in Seq(Record) /\ out.budget \in Nat /\ out.done \in BOOLEAN /\ out.truncated \in BOOLEAN
    /\ Len(out.lines) <= limit /\ (~ out.done => ~ out.truncated /\ Len(out.lines) < limit)
    /\ out.done /\ ~ out.truncated => n = Len(Files)
    /\ Falling(out.lines) /\ Range(out.lines) \subseteq Upper(n)
    /\ Newer(Range(out.lines), Held(Files))
    /\ ~ out.truncated => Range(out.lines) = Upper(n)

\* One file more.
LEMMA ReadStep ==
    ASSUME LogsInv, NEW limit \in Nat, NEW n \in 1..Len(Files), NEW out, ReadGood(out, n - 1, limit)
    PROVE  ReadGood(ReadFile(out, Files[n], n = Len(Files), limit), n, limit)
  <1> DEFINE N == Len(Files)
             file == Files[n]
             next == ReadFile(out, file, n = N, limit)
  <1>1. /\ N \in Nat \ {0} /\ file \in Seq(Record) /\ Rising(file)
        /\ \A i, j \in 1..N : i < j => \A r \in Range(Files[i]), s \in Range(Files[j]) : s.id < r.id
        /\ \A i \in 1..N : Files[i] \in Seq(Record)
    BY FilesFacts, Zenon
  <1>2. Upper(n) = Upper(n - 1) \cup Range(file)
    <2>1. 1..n = 1..n - 1 \cup {n}
      BY <1>1
    <2>2. QED
      BY <2>1, Zenon DEF Upper
  <1>3. CASE out.done
    <2>1. next = out
      BY <1>3, Zenon DEF ReadFile
    <2>2. out.truncated
      <3>1. n - 1 # N
        BY <1>1
      <3>2. QED
        BY <1>3, <3>1, Zenon DEF ReadGood
    <2>3. ReadGood(out, n, limit)
      BY <1>2, <1>3, <2>2, Zenon DEF ReadGood
    <2>4. QED
      BY <2>1, <2>3
  <1>4. CASE ~ out.done
    <2>1. /\ out.lines \in Seq(Record) /\ out.budget \in Nat /\ Len(out.lines) < limit /\ Falling(out.lines)
          /\ Range(out.lines) = Upper(n - 1) /\ Newer(Range(out.lines), Held(Files))
          /\ ~ out.truncated
      BY <1>4, Zenon DEF ReadGood
    <2>2. out.done = FALSE /\ out.truncated = FALSE
      BY <1>4, <2>1, Zenon DEF ReadGood
    <2> HIDE DEF N, file, next
    <2>3. /\ next.budget \in Nat /\ next.done \in BOOLEAN /\ next.truncated \in BOOLEAN
          /\ ~ next.done => ~ next.truncated
          /\ \E c \in 0..Len(file) :
               /\ next.lines = out.lines \o Last(file, c)
               /\ Len(out.lines) + c <= limit
               /\ ~ next.done => Len(out.lines) + c < limit
               /\ ~ next.truncated => c = Len(file)
          /\ next.done /\ ~ next.truncated => n = N
      <3> DEFINE last == n = N
      <3>1. last \in BOOLEAN /\ next = ReadFile(out, file, last, limit)
        BY DEF next
      <3> HIDE DEF last
      <3>2. FileRead(next, out, file, last, limit)
        BY <1>1, <2>1, <2>2, <3>1, ReadFileFacts, Zenon
      <3>3. QED
        BY <3>2, Zenon DEF last, FileRead
    <2>4. PICK c \in 0..Len(file) :
            /\ next.lines = out.lines \o Last(file, c)
            /\ Len(out.lines) + c <= limit
            /\ ~ next.done => Len(out.lines) + c < limit
            /\ ~ next.truncated => c = Len(file)
      BY <2>3, Zenon
    <2> DEFINE last == Last(file, c)
    <2>5. /\ last \in Seq(Record) /\ Len(last) = c /\ Falling(last) /\ Range(last) \subseteq Range(file)
          /\ Newer(Range(last), Range(file)) /\ (c = Len(file) => Range(last) = Range(file))
      BY <1>1, LastFacts, LastLines, Zenon
    <2> HIDE DEF last
    <2>6. \A r \in Range(out.lines), s \in Range(last) : s.id < r.id
      <3> SUFFICES ASSUME NEW r \in Range(out.lines), NEW s \in Range(last) PROVE s.id < r.id
        OBVIOUS
      <3>1. PICK i \in 1..n - 1 : r \in Range(Files[i])
        BY <2>1, Zenon DEF Upper
      <3>2. i \in 1..N /\ n \in 1..N /\ i < n
        BY <1>1 DEF N
      <3>3. QED
        BY <1>1, <2>5, <3>1, <3>2, Zenon DEF file
    <2>7. /\ next.lines \in Seq(Record) /\ Len(next.lines) = Len(out.lines) + c
          /\ Falling(next.lines) /\ Range(next.lines) = Range(out.lines) \cup Range(last)
      <3>1. /\ out.lines \o last \in Seq(Record) /\ Len(out.lines \o last) = Len(out.lines) + Len(last)
            /\ Falling(out.lines \o last) /\ Range(out.lines \o last) = Range(out.lines) \cup Range(last)
        BY <2>1, <2>5, <2>6, LinesJoined, Zenon
      <3>2. next.lines = out.lines \o last /\ Len(last) = c
        BY <2>4, <2>5, Zenon DEF last
      <3>3. QED
        BY <3>1, <3>2, Zenon
    <2>8. ASSUME NEW r \in Held(Files), NEW s \in Range(next.lines), r.id > s.id
          PROVE  r \in Range(next.lines)
      <3>1. CASE s \in Range(out.lines)
        BY <2>1, <2>7, <2>8, <3>1, Zenon DEF Newer
      <3>2. CASE s \in Range(last)
        <4>1. PICK k \in 1..N : r \in Range(Files[k])
          BY Zenon DEF Held, N
        <4>2. CASE k = n
          BY <2>5, <2>7, <2>8, <3>2, <4>1, <4>2, Zenon DEF Newer, file
        <4>3. CASE k < n
          <5>1. k \in 1..n - 1
            BY <1>1, <4>3
          <5>2. QED
            BY <2>1, <2>7, <4>1, <5>1, Zenon DEF Upper
        <4>4. CASE n < k
          <5>1. r.id < s.id
            BY <1>1, <2>5, <3>2, <4>1, <4>4, Zenon DEF file, N
          <5>2. r.id \in Nat /\ s.id \in Nat
            <6>1. Files[k] \in Seq(Record) /\ last \in Seq(Record)
              BY <1>1, <2>5, Zenon
            <6>2. QED
              BY <3>2, <4>1, <6>1, RecordsOf, Zenon
          <5>3. QED
            BY <2>8, <5>1, <5>2
        <4>5. n \in Nat /\ k \in Nat
          BY <1>1
        <4>6. QED
          BY <4>2, <4>3, <4>4, <4>5
      <3>3. QED
        BY <2>7, <2>8, <3>1, <3>2, Zenon
    <2>9. Range(next.lines) \subseteq Upper(n) /\ (~ next.truncated => Range(next.lines) = Upper(n))
      BY <1>2, <2>1, <2>4, <2>5, <2>7, Zenon
    <2>10. Newer(Range(next.lines), Held(Files))
      BY <2>8, Zenon DEF Newer
    <2>11. Len(next.lines) <= limit /\ (~ next.done => Len(next.lines) < limit)
      BY <2>4, <2>7, Zenon
    <2>12. ReadGood(next, n, limit)
      BY <2>3, <2>7, <2>9, <2>10, <2>11, Zenon DEF ReadGood, N
    <2>13. QED
      BY <2>12 DEF next, file, N
  <1>5. QED
    BY <1>3, <1>4

\* What Read returns, from whatever files.
LEMMA ReadFacts ==
    ASSUME LogsInv, NEW limit \in Nat \ {0}
    PROVE  ReadGood(Read(limit), Len(Files), limit)
  <1> DEFINE N == Len(Files)
             Start == [lines |-> <<>>, budget |-> Budget, done |-> FALSE, truncated |-> FALSE]
             Step(f, n) == IF n = 0 THEN Start ELSE ReadFile(f[n - 1], Files[n], n = N, limit)
             Upto(f, k) == f = [n \in 0..k |-> Step(f, n)]
             after == CHOOSE f : Upto(f, N)
  <1>1. N \in Nat
    BY FilesFacts
  <1>2. \A k \in Nat : k <= N => \E f : Upto(f, k)
    <2> DEFINE Bad == {k \in Nat : k <= N /\ ~ \E f : Upto(f, k)}
    <2> SUFFICES ASSUME Bad # {} PROVE FALSE
      OBVIOUS
    <2>1. PICK k \in Bad : \A m \in Nat : m < k => m \notin Bad
      <3>1. Bad \in SUBSET Nat
        OBVIOUS
      <3> HIDE DEF Bad
      <3>2. QED
        BY <3>1, LeastNumber
    <2>2. k # 0
      <3>1. Upto([n \in 0..0 |-> Start], 0)
        OBVIOUS
      <3>2. QED
        BY <3>1
    <2>3. PICK f : Upto(f, k - 1)
      <3>1. k - 1 \in Nat /\ k - 1 < k /\ k - 1 <= N
        BY <1>1, <2>2
      <3>2. QED
        BY <2>1, <3>1
    <2> DEFINE g == [n \in 0..k |-> IF n = k THEN Step(f, k) ELSE f[n]]
    <2>4. \A n \in 0..k : g[n] = Step(g, n)
      <3> SUFFICES ASSUME NEW n \in 0..k PROVE g[n] = Step(g, n)
        OBVIOUS
      <3> HIDE DEF Step
      <3>1. n # 0 => g[n - 1] = f[n - 1]
        BY <2>2
      <3>2. n # k => f[n] = Step(f, n)
        <4>1. n # k => n \in 0..k - 1
          BY <2>2
        <4>2. QED
          BY <2>3, <4>1
      <3>3. g[n] = IF n = k THEN Step(f, k) ELSE f[n]
        BY Zenon
      <3> HIDE DEF g
      <3>4. Step(g, n) = Step(f, n)
        BY <3>1 DEF Step
      <3>5. QED
        BY <3>2, <3>3, <3>4, Zenon
    <2>5. Upto(g, k)
      BY <2>4
    <2>6. QED
      BY <2>5
  <1>3. Upto(after, N)
    <2>1. \E f : Upto(f, N)
      <3> HIDE DEF Upto
      <3>1. QED
        BY <1>1, <1>2
    <2> HIDE DEF Upto
    <2>2. QED
      BY <2>1, Zenon
  <1>4. Read(limit) = after[N]
    BY Zenon DEF Read
  <1> HIDE DEF after
  <1>5. \A n \in 0..N : after[n] = Step(after, n)
    BY <1>3
  <1>6. ReadGood(Start, 0, limit)
    <2>1. /\ Start.lines = <<>> /\ Start.budget = Budget
          /\ Start.done = FALSE /\ Start.truncated = FALSE
      OBVIOUS
    <2>2. Upper(0) = {}
      <3>1. 1..0 = {}
        OBVIOUS
      <3>2. QED
        BY <3>1, Zenon DEF Upper
    <2>3. Len(<<>>) = 0 /\ <<>> \in Seq(Record) /\ Range(<<>>) = {} /\ 0 < limit /\ 0 <= limit /\ 1..0 = {}
      BY NoRecords
    <2>4. Budget \in Nat
      BY LogsAssumption
    <2>5. Falling(<<>>)
      BY <2>3 DEF Falling
    <2> HIDE DEF Start
    <2>6. QED
      BY <2>1, <2>2, <2>3, <2>4, <2>5 DEF ReadGood, Newer
  <1> HIDE DEF Start
  <1> DEFINE Good(n) == ReadGood(after[n], n, limit)
  <1>7. \A n \in Nat : n <= N => Good(n)
    <2> DEFINE Bad == {n \in Nat : n <= N /\ ~ Good(n)}
    <2> SUFFICES ASSUME Bad # {} PROVE FALSE
      OBVIOUS
    <2>1. PICK n \in Bad : \A m \in Nat : m < n => m \notin Bad
      <3>1. Bad \in SUBSET Nat
        OBVIOUS
      <3> HIDE DEF Bad
      <3>2. QED
        BY <3>1, LeastNumber
    <2>2. n # 0
      <3>1. after[0] = Start
        <4>1. 0 \in 0..N
          BY <1>1
        <4>2. QED
          BY <1>5, <4>1, Zenon
      <3>2. Good(0)
        BY <1>6, <3>1, Zenon
      <3> HIDE DEF Good
      <3>3. QED
        BY <2>1, <3>2
    <2>3. n - 1 \in Nat /\ n \in 1..N /\ Good(n - 1)
      <3> HIDE DEF Good
      <3>1. n \in Nat /\ n <= N
        BY <2>1
      <3>2. n - 1 \in Nat /\ n - 1 < n /\ n - 1 <= N /\ n \in 1..N
        BY <1>1, <2>2, <3>1
      <3>3. n - 1 \notin Bad
        BY <2>1, <3>2
      <3>4. QED
        BY <3>2, <3>3
    <2>4. after[n] = ReadFile(after[n - 1], Files[n], n = N, limit)
      BY <1>5, <2>3
    <2>5. Good(n)
      <3>1. limit \in Nat
        OBVIOUS
      <3>2. ReadGood(ReadFile(after[n - 1], Files[n], n = N, limit), n, limit)
        BY <2>3, <3>1, ReadStep, Zenon
      <3>3. QED
        BY <2>4, <3>2, Zenon
    <2> HIDE DEF Good
    <2>6. QED
      BY <2>1, <2>5
  <1>8. QED
    BY <1>1, <1>4, <1>7

\* What the logs command returns are accepted records, the newest first, none
\* between them missing, and unless it says so everything the files hold:
\* through rotations, removals, restarts, and failures of each.
THEOREM LogsSafe == LogsSpec => []ReadTrue
  <1>1. LogsInv => ReadTrue
    <2> SUFFICES ASSUME LogsInv, NEW limit \in 1..MaxRecords
                 PROVE  LET out == Read(limit)
                            lines == Range(out.lines)
                        IN /\ Len(out.lines) <= limit /\ lines \subseteq accepted
                           /\ \A i, j \in DOMAIN out.lines : i < j => out.lines[i].id > out.lines[j].id
                           /\ ~stuck => \A r \in accepted, l \in lines : r.id > l.id => r \in lines
                           /\ ~out.truncated => \A f \in Range(Files) : Range(f) \subseteq lines
      BY Zenon DEF ReadTrue
    <2> DEFINE out == Read(limit)
               lines == Range(out.lines)
    <2>1. limit \in Nat \ {0}
      BY LogsAssumption
    <2>2. ReadGood(out, Len(Files), limit)
      BY <2>1, ReadFacts
    <2> HIDE DEF out
    <2>3. Upper(Len(Files)) = Held(Files) /\ Held(Files) = Kept(archive, current)
      BY FilesFacts, Zenon DEF Upper, Held
    <2>4. Len(out.lines) <= limit /\ lines \subseteq accepted
      BY <2>2, <2>3, Zenon DEF ReadGood, LogsInv
    <2>5. \A i, j \in DOMAIN out.lines : i < j => out.lines[i].id > out.lines[j].id
      <3>1. out.lines \in Seq(Record) /\ Falling(out.lines)
        BY <2>2, Zenon DEF ReadGood
      <3>2. DOMAIN out.lines = 1..Len(out.lines)
        BY <3>1
      <3>3. QED
        BY <3>1, <3>2, Zenon DEF Falling
    <2>6. ASSUME ~ stuck, NEW r \in accepted, NEW l \in lines, r.id > l.id PROVE r \in lines
      <3>1. Newer(Held(Files), accepted) /\ lines \subseteq Held(Files) /\ Newer(lines, Held(Files))
        BY <2>2, <2>3, <2>6 DEF ReadGood, LogsInv
      <3> HIDE DEF lines
      <3>2. QED
        BY <2>6, <3>1, Zenon DEF Newer
    <2>7. ~ out.truncated => \A f \in Range(Files) : Range(f) \subseteq lines
      <3>1. ~ out.truncated => lines = Held(Files)
        BY <2>2, <2>3, Zenon DEF ReadGood
      <3>2. DOMAIN Files = 1..Len(Files)
        BY FilesFacts
      <3>3. \A f \in Range(Files) : Range(f) \subseteq Held(Files)
        <4>1. \A f \in Range(Files) : \E i \in 1..Len(Files) : f = Files[i]
          BY <3>2, Zenon DEF Range
        <4>2. QED
          BY <4>1, Zenon DEF Held
      <3>4. QED
        BY <3>1, <3>3, Zenon
    <2>8. QED
      BY <2>4, <2>5, <2>6, <2>7, Zenon DEF out
  <1>2. QED
    BY <1>1, LogsInitInv, LogsStep, PTL DEF LogsSpec

=============================================================================
