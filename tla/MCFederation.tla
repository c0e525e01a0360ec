---------------------------- MODULE MCFederation ----------------------------
(* Small instances of Federation: two disjoint namespaces and one inside one *)
(* of them, and a name inside that one.                                      *)
EXTENDS Federation, TLC

MCLabels == {"n", "m", "k", "u"}
MCNamespaces == {<<"n">>, <<"n", "m">>, <<"k">>}
MCNames == {<<"n", "u">>}
Symmetric == Permutations(Shares) \cup Permutations(Protocols) \cup Permutations(Seals)
=============================================================================
