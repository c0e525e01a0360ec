---------------------------- MODULE MCFirewall -----------------------------
(* Small instances of Firewall.                                              *)
EXTENDS Firewall, TLC

PortSymmetry == Permutations(Ports)
=============================================================================
