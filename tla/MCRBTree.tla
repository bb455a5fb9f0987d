------------------------------ MODULE MCRBTree ------------------------------
(***************************************************************************)
(* RBTree over eight nodes, three of which share a key.                    *)
(***************************************************************************)
EXTENDS RBTree

EightNodes == 1 .. 8

ThreeAlike == <<1, 2, 2, 2, 5, 6, 7, 8>>
=============================================================================
