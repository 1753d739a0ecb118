--------------------------- MODULE MCTunnelRegistry ---------------------------
(* TunnelRegistry on small instances: connections are interchangeable, and so *)
(* are subdomains and tunnel ids.                                             *)
EXTENDS TunnelRegistry, TLC

Symmetry == Permutations(Conns) \cup Permutations(Subdomains) \cup Permutations(TunnelIDs)

===============================================================================
