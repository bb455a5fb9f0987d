---------------------------- MODULE MCSPSCQueue ----------------------------
(***************************************************************************)
(* SPSCQueue on a ring of MaxSize + 1 slots.  Every reachable state is     *)
(* visited: the indices wrap around and the specification keeps no         *)
(* history, so no bound beyond the constants is needed.                    *)
(***************************************************************************)
EXTENDS SPSCQueue
=============================================================================
