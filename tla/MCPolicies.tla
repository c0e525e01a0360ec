----------------------------- MODULE MCPolicies ----------------------------
(* Small instances of Policies: each limit at one, and a disabled user.      *)
EXTENDS Policies, TLC

MCLimits == {NoLimit,
             [NoLimit EXCEPT !.disabled = TRUE],
             [NoLimit EXCEPT !.connections = 1],
             [NoLimit EXCEPT !.ips = 1]}
Symmetric == Permutations(Sessions) \cup Permutations(IPs) \cup Permutations(Users)
=============================================================================
