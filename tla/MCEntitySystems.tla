-------------------------- MODULE MCEntitySystems --------------------------
(***************************************************************************)
(* EntitySystems with two classes and operations nested in systems.        *)
(***************************************************************************)
EXTENDS EntitySystems, TLC

(* Addresses of one kind are interchangeable, and so are classes. *)
Symmetry == Permutations(Systems) \cup Permutations(Nodes) \cup Permutations(Classes)
=============================================================================
