----------------------------- MODULE MCDelivery -----------------------------
(* A small instance of Control with its fairness.                            *)
EXTENDS Control
=============================================================================
