------------------------------- MODULE MCNet -------------------------------
(***************************************************************************)
(* Net with a few connectors and buffers.                                  *)
(***************************************************************************)
EXTENDS Net
=============================================================================
