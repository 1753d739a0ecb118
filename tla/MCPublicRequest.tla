---------------------------- MODULE MCPublicRequest ----------------------------
(* A tunnel with a rate limit and one client, and one without and with more     *)
(* clients than the throttle's map holds.                                       *)
EXTENDS PublicRequest, TLC

SomeTunnels == {[limited |-> TRUE, keys |-> {k}] : k \in Keys}
                 \cup {[limited |-> FALSE, keys |-> Keys]}

Symmetry == Permutations(Requests) \cup Permutations(Keys)

===============================================================================
