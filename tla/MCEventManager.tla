-------------------------- MODULE MCEventManager --------------------------
(***************************************************************************)
(* EventManager with a few addresses, so that what is freed is soon handed *)
(* out again, and listeners nested two deep.                               *)
(***************************************************************************)
EXTENDS EventManager, TLC

(* Addresses of one kind are interchangeable. *)
Symmetry == Permutations(Nodes) \cup Permutations(Infos) \cup Permutations(Events)
              \cup Permutations(Types)
=============================================================================
