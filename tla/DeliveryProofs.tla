--------------------------- MODULE DeliveryProofs ---------------------------
(***************************************************************************)
(* Proofs about Delivery for any set of commands.  Control implements      *)
(* Delivery, so they hold of every connection mode of the agent.           *)
(***************************************************************************)
EXTENDS Delivery, TLAPS

DeliveryTypeOK ==
    /\ remembered \in SUBSET Cmds /\ kept \in SUBSET Cmds /\ lent \in SUBSET Cmds
    /\ answered \in SUBSET Cmds /\ forgotten \in SUBSET Cmds /\ dropped \in SUBSET Cmds
    /\ runs \in [Cmds -> Nat]

\* A command that was run is remembered or was forgotten, and was run a second
\* time only after it was forgotten.
Memory ==
    \A c \in Cmds :
        /\ runs[c] > 0 => c \in remembered \cup forgotten
        /\ c \in remembered => runs[c] > 0
        /\ runs[c] > 1 => c \in forgotten

DeliveryInv == DeliveryTypeOK /\ Memory /\ ResultRetained

\* Running a command, or answering it from memory.
LEMMA ObtainInv ==
    ASSUME DeliveryInv, NEW c \in Cmds, Recall(c) \/ Run(c)
    PROVE  /\ remembered' \in SUBSET Cmds /\ forgotten' \in SUBSET Cmds /\ runs' \in [Cmds -> Nat]
           /\ Memory'
           /\ \A d \in Cmds : runs'[d] > 0 => d = c \/ runs[d] > 0
  <1>1. CASE Recall(c)
    BY <1>1 DEF DeliveryInv, DeliveryTypeOK, Memory, Recall, memory
  <1>2. CASE Run(c)
    <2>1. PICK rest \in SUBSET remembered : Retain(rest \cup {c})
      BY ZenonT(60), <1>2 DEF Run
    <2>2. /\ remembered' = rest \cup {c}
          /\ forgotten' = forgotten \cup (remembered \ (rest \cup {c}))
          /\ runs' = [runs EXCEPT ![c] = @ + 1] /\ c \notin remembered
      BY <1>2, <2>1 DEF Run, Retain
    <2>3. runs' \in [Cmds -> Nat] /\ \A d \in Cmds : runs'[d] = IF d = c THEN runs[c] + 1 ELSE runs[d]
      BY <2>2 DEF DeliveryInv, DeliveryTypeOK
    <2>4. Memory'
      <3> SUFFICES ASSUME NEW d \in Cmds
                   PROVE  /\ runs'[d] > 0 => d \in remembered' \cup forgotten'
                          /\ d \in remembered' => runs'[d] > 0
                          /\ runs'[d] > 1 => d \in forgotten'
        BY DEF Memory
      <3>1. runs[d] \in Nat
        BY DEF DeliveryInv, DeliveryTypeOK
      <3> QED
        BY <2>2, <2>3, <3>1 DEF DeliveryInv, DeliveryTypeOK, Memory
    <2> QED
      BY <2>2, <2>3, <2>4 DEF DeliveryInv, DeliveryTypeOK
  <1> QED
    BY <1>1, <1>2

\* The invariant holds initially.
LEMMA DeliveryInitInv == DeliveryInit => DeliveryInv
  BY DEF DeliveryInit, DeliveryInv, DeliveryTypeOK, Memory, ResultRetained

\* Every step keeps it.
LEMMA DeliveryNextInv == DeliveryInv /\ [DeliveryNext]_deliveryVars => DeliveryInv'
  <1> SUFFICES ASSUME DeliveryInv, [DeliveryNext]_deliveryVars PROVE DeliveryInv'
    OBVIOUS
  <1>1. ASSUME NEW c \in Cmds, Keep(c) PROVE DeliveryInv'
    BY <1>1, ObtainInv DEF Keep, DeliveryInv, DeliveryTypeOK, ResultRetained
  <1>2. ASSUME NEW c \in Cmds, Lend(c) PROVE DeliveryInv'
    BY <1>2, ObtainInv DEF Lend, DeliveryInv, DeliveryTypeOK, ResultRetained
  <1>3. CASE Receive
    BY <1>3 DEF Receive, memory, DeliveryInv, DeliveryTypeOK, Memory, ResultRetained
  <1>4. CASE Release
    BY <1>4 DEF Release, memory, DeliveryInv, DeliveryTypeOK, Memory, ResultRetained
  <1>5. CASE Respond
    BY <1>5 DEF Respond, memory, DeliveryInv, DeliveryTypeOK, Memory, ResultRetained
  <1>6. CASE Evict
    BY <1>6 DEF Evict, Retain, DeliveryInv, DeliveryTypeOK, Memory, ResultRetained
  <1>7. CASE UNCHANGED deliveryVars
    BY <1>7 DEF deliveryVars, memory, DeliveryInv, DeliveryTypeOK, Memory, ResultRetained
  <1> QED
    BY <1>1, <1>2, <1>3, <1>4, <1>5, <1>6, <1>7 DEF DeliveryNext

-----------------------------------------------------------------------------
(* The theorems. *)

\* The inductive invariant holds in every reachable state.
THEOREM DeliveryInvariant == DeliverySpec => []DeliveryInv
  BY DeliveryInitInv, DeliveryNextInv, PTL DEF DeliverySpec

\* No result is lost but in a direct response that was lost, however often
\* commands are repeated, forgotten and run again.
THEOREM ResultsRetained == DeliverySpec => []ResultRetained
  BY DeliveryInvariant, PTL DEF DeliveryInv

\* A command is carried out again only after it was forgotten (the bound on
\* Client.seen).
THEOREM RunAtMostOnce == DeliverySpec => []AtMostOnce
  <1>1. DeliveryInv => AtMostOnce
    BY DEF DeliveryInv, Memory, AtMostOnce
  <1> QED
    BY <1>1, DeliveryInvariant, PTL

=============================================================================
