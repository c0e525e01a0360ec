------------------------------- MODULE MCCore -------------------------------
(* Small instances of Managed and of WireGuard.  The two share no state, so   *)
(* each is explored while the other keeps its initial state.                  *)
EXTENDS Managed, WireGuard

CONSTANTS l1, l2, a, b, c

MCBridged == [l \in {l1, l2} |-> IF l = l1 THEN {"alice"} ELSE {"alice", "bob"}]
MCKeyOf == [s \in {a, b, c} |-> IF s = c THEN "k2" ELSE "k1"]

VARIABLE part

MCInit == part \in {"core", "tunnels"} /\ ManagedInit /\ WireGuardInit
MCNext ==
    \/ part = "core" /\ ManagedNext /\ UNCHANGED <<part, wgVars>>
    \/ part = "tunnels" /\ WireGuardNext /\ UNCHANGED <<part, managedVars>>
MCSpec == MCInit /\ [][MCNext]_<<part, managedVars, wgVars>>
=============================================================================
