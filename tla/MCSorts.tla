------------------------------ MODULE MCSorts ------------------------------
(***************************************************************************)
(* Sorts of all short arrays: five values leave two in one bucket, two that *)
(* differ in the units only, and one below zero in the bucket of zero.      *)
(***************************************************************************)
EXTENDS Sorts

MCValues == {-13, -4, 5, 12, 17}
=============================================================================
