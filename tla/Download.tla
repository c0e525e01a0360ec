------------------------------ MODULE Download ------------------------------
(***************************************************************************)
(* The download of a speed test (internal/speedtest/speedtest.go): workers *)
(* fetch the target again and again until the time is over or, when the    *)
(* measurement has a budget of bytes, until each has read its share.  The  *)
(* byte and failure counters are shared; the verdict is taken when all     *)
(* workers have ended.                                                     *)
(***************************************************************************)
EXTENDS Integers

CONSTANTS
    Parallel,       \* the number of workers
    ByteBudgets,    \* budgets of a measurement, 0 when it has none (all of them
                    \* multiples of 1 MiB, so of every number of workers)
    Chunk,          \* the bytes one read returns at most (32 KiB)
    MaxCount        \* bound on the bytes of a measurement without a budget

ASSUME DownloadAssumption ==
    /\ Parallel \in Nat \ {0} /\ Chunk \in Nat \ {0}
    /\ ByteBudgets \subseteq Nat /\ MaxCount \in Nat
    /\ \A b \in ByteBudgets : b % Parallel = 0

Workers == 0 .. Parallel - 1

VARIABLES
    budget,         \* of this measurement
    count,          \* bytes read by all workers
    failures,       \* failed requests of all workers
    remaining,      \* of each worker's share
    responseBytes,  \* of the response each worker reads
    at,             \* where each worker is in its loop
    over,           \* the measurement's context is done
    cancelled,      \* and so is its parent
    verdict,        \* what measure returns
    faulty          \* history: a request really failed, or a response was empty

downloadVars == <<budget, count, failures, remaining, responseBytes, at, over, cancelled, verdict, faulty>>

\* The first budget % parallel workers read one byte more.
Share(b, i) == b \div Parallel + (IF i < b % Parallel THEN 1 ELSE 0)

DownloadInit ==
    /\ budget \in ByteBudgets
    /\ count = 0 /\ failures = 0
    /\ remaining = [i \in Workers |-> Share(budget, i)]
    /\ responseBytes = [i \in Workers |-> 0]
    /\ at = [i \in Workers |-> "loop"]
    /\ over = FALSE /\ cancelled = FALSE
    /\ verdict = "none" /\ faulty = FALSE

\* The runner measures one command after the other.
Measure(b) ==
    /\ verdict # "none"
    /\ budget' = b /\ count' = 0 /\ failures' = 0
    /\ remaining' = [i \in Workers |-> Share(b, i)]
    /\ responseBytes' = [i \in Workers |-> 0]
    /\ at' = [i \in Workers |-> "loop"]
    /\ over' = FALSE /\ cancelled' = FALSE
    /\ verdict' = "none" /\ faulty' = FALSE

-----------------------------------------------------------------------------
Moves(i, from, to) == at[i] = from /\ at' = [at EXCEPT ![i] = to]
Fails(n) == failures' = failures + n
Wanting(i) == ~ over /\ (budget = 0 \/ remaining[i] > 0)

\* The loop's condition: another request, or the end of the worker.
FetchOrEnd(i) ==
    /\ Moves(i, "loop", IF Wanting(i) THEN "request" ELSE "done")
    /\ UNCHANGED <<budget, count, failures, remaining, responseBytes, over, cancelled, verdict, faulty>>

\* The request has no answer, or its status is not a success.
NoAnswer(i) ==
    /\ Moves(i, "request", "done")
    /\ Fails(IF over THEN 0 ELSE 1)
    /\ faulty' = (faulty \/ ~ over)
    /\ UNCHANGED <<budget, count, remaining, responseBytes, over, cancelled, verdict>>
BadStatus(i) ==
    /\ Moves(i, "request", "done")
    /\ Fails(1) /\ faulty' = TRUE
    /\ UNCHANGED <<budget, count, remaining, responseBytes, over, cancelled, verdict>>

Answer(i) ==
    /\ Moves(i, "request", "read")
    /\ responseBytes' = [responseBytes EXCEPT ![i] = 0]
    /\ UNCHANGED <<budget, count, failures, remaining, over, cancelled, verdict, faulty>>

\* Mutant: every response may be as long as the share.
ReadBodyAgain(i, n) ==
    /\ at[i] = "read"
    /\ budget > 0 => responseBytes[i] + n <= Share(budget, i)
    /\ budget = 0 => count + n <= MaxCount
    /\ count' = count + n
    /\ remaining' = [remaining EXCEPT ![i] = @ - n]
    /\ responseBytes' = [responseBytes EXCEPT ![i] = @ + n]
    /\ UNCHANGED <<budget, failures, at, over, cancelled, verdict, faulty>>

\* With a budget, the response is read through a reader of what remains.
ReadBody(i, n) ==
    /\ at[i] = "read"
    /\ budget > 0 => n <= remaining[i]
    /\ budget = 0 => count + n <= MaxCount
    /\ count' = count + n
    /\ remaining' = [remaining EXCEPT ![i] = @ - n]
    /\ responseBytes' = [responseBytes EXCEPT ![i] = @ + n]
    /\ UNCHANGED <<budget, failures, at, over, cancelled, verdict, faulty>>

\* The response ends, or breaks off, with its last bytes too.  A response of no
\* bytes ends the worker, and counts as a failure after the deadline too.
EndBody(i, broken) ==
    LET empty == responseBytes[i] = 0 IN
    /\ Moves(i, "read", IF empty THEN "done" ELSE "loop")
    /\ Fails((IF broken /\ ~ over THEN 1 ELSE 0) + (IF empty THEN 1 ELSE 0))
    /\ faulty' = (faulty \/ empty \/ (broken /\ ~ over))
    /\ UNCHANGED <<budget, count, remaining, responseBytes, over, cancelled, verdict>>

\* The time is over, or the command is cancelled.
TimeOver(parent) ==
    /\ verdict = "none" /\ ~ (IF parent THEN cancelled ELSE over)
    /\ over' = TRUE /\ cancelled' = (cancelled \/ parent)
    /\ UNCHANGED <<budget, count, failures, remaining, responseBytes, at, verdict, faulty>>

\* All workers have ended.
Conclude ==
    /\ verdict = "none" /\ \A i \in Workers : at[i] = "done"
    /\ verdict' = IF cancelled THEN "cancelled"
                  ELSE IF count = 0 \/ failures > 0 \/ (budget > 0 /\ count < budget)
                       THEN "unclean" ELSE "clean"
    /\ UNCHANGED <<budget, count, failures, remaining, responseBytes, at, over, cancelled, faulty>>

DownloadNext ==
    \/ \E i \in Workers :
          \/ FetchOrEnd(i) \/ NoAnswer(i) \/ BadStatus(i) \/ Answer(i)
          \/ \E n \in 1 .. Chunk : ReadBody(i, n)
          \/ \E broken \in BOOLEAN : EndBody(i, broken)
    \/ \E parent \in BOOLEAN : TimeOver(parent)
    \/ Conclude
    \/ \E b \in ByteBudgets : Measure(b)

DownloadSpec == DownloadInit /\ [][DownloadNext]_downloadVars

-----------------------------------------------------------------------------
(* Properties. *)

\* The workers together never read more than the budget, whatever responses
\* they get and however they end; a measurement whose requests all worked and
\* that had the time it needed is never reported as one that did not complete
\* cleanly, and one that is reported clean read its whole budget.
DownloadTrue ==
    /\ budget > 0 => count <= budget
    /\ verdict = "unclean" => faulty \/ over
    /\ verdict = "clean" => ~ faulty /\ (budget > 0 => count = budget)
=============================================================================
