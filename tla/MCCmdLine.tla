----------------------------- MODULE MCCmdLine -----------------------------
(***************************************************************************)
(* CmdLine with a few lines and a reader that is started again.            *)
(***************************************************************************)
EXTENDS CmdLine
=============================================================================
