------------------------------ MODULE MCForward ------------------------------
(* Small instances of Forward.                                               *)
EXTENDS Forward, TLC

Symmetric ==
    Permutations(Listeners) \cup Permutations(Conns) \cup Permutations(Sockets)
      \cup Permutations(Ids) \cup Permutations(Targets) \cup Permutations(Peers)
=============================================================================
