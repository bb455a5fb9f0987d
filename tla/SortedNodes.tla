---------------------------- MODULE SortedNodes ----------------------------
(***************************************************************************)
(* What a search tree of nodes promises: its nodes in the order of their   *)
(* keys, nodes of one key in the order they came.  RBTree implements it.   *)
(***************************************************************************)
EXTENDS Integers, SequencesExt

CONSTANTS
  Nodes,  \* the nodes
  Key     \* the key of each node, an integer

VARIABLE contents  \* the nodes held, in order

Init == contents = <<>>

(* A node goes behind every node whose key is not greater. *)
Insert(n) ==
  LET least == SelectInSeq(contents, LAMBDA m : Key[n] < Key[m]) IN
  /\ ~ Contains(contents, n)
  /\ contents' = InsertAt(contents, IF least = 0 THEN Len(contents) + 1 ELSE least, n)

Erase(n) ==
  \E i \in DOMAIN contents : contents[i] = n /\ contents' = RemoveAt(contents, i)

Next == \E n \in Nodes : Insert(n) \/ Erase(n)

Spec == Init /\ [][Next]_contents
=============================================================================
