----------------------------- MODULE LinkedList -----------------------------
(***************************************************************************)
(* List and ListNode of data_structure/list.h: an intrusive doubly linked  *)
(* list, here the sequence of its nodes; head_, at both ends of it, is the *)
(* value end.  PushBack is Append, and Begin is FirstOf.                   *)
(***************************************************************************)
EXTENDS Naturals, FiniteSets, Sequences

(* Begin(): the first node, or End(). *)
FirstOf(l, end) == IF l = <<>> THEN end ELSE Head(l)

(* Mutant: the walk stops one node early. *)
NextOfMissesLast(l, n, end) ==
  LET k == CHOOSE k \in DOMAIN l : l[k] = n
  IN IF k + 1 >= Len(l) THEN end ELSE l[k + 1]

(* Next(): the node linked after n, or End(). *)
NextOf(l, n, end) ==
  LET k == CHOOSE k \in DOMAIN l : l[k] = n
  IN IF k = Len(l) THEN end ELSE l[k + 1]

(* Erase() of the nodes in S: the others stay linked in their order. *)
Unlinked(l, S) ==
  LET places == {i \in DOMAIN l : l[i] \notin S}
      Nth(j) == CHOOSE i \in places : Cardinality({k \in places : k <= i}) = j
  IN [j \in 1 .. Cardinality(places) |-> l[Nth(j)]]
=============================================================================
