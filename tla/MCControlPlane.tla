---------------------------- MODULE MCControlPlane ----------------------------
(***************************************************************************)
(* Two requests at a time; the name can be reserved again after its        *)
(* reservation was deleted, and the hostname added again.                  *)
(***************************************************************************)
EXTENDS ControlPlane, TLC

Symmetry ==
  Permutations(Requests) \cup Permutations(ReservationIDs)
    \cup Permutations(PolicyIDs) \cup Permutations(DomainIDs) \cup Permutations(Secrets)

===============================================================================
