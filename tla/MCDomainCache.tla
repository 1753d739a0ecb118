---------------------------- MODULE MCDomainCache ----------------------------
(* DomainCache with two overlapping lookups of a domain that can be missing *)
(* or routed to one subdomain.                                                *)
EXTENDS DomainCache, TLC

Symmetry == Permutations(Requests)

===============================================================================
