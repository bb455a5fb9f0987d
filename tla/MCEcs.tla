------------------------------- MODULE MCEcs -------------------------------
(***************************************************************************)
(* Ecs with a few addresses, so that what is freed is soon handed out      *)
(* again, and operations nested in listeners.                              *)
(***************************************************************************)
EXTENDS Ecs, TLC

(* Addresses of one kind are interchangeable: the code compares ids only     *)
(* for equality.                                                             *)
Symmetry ==
  Permutations(Entities) \cup Permutations(Nodes) \cup Permutations(Components)
=============================================================================
