------------------------------- MODULE RBTree -------------------------------
(***************************************************************************)
(* RBTree and RBTreeNode of data_structure/rbtree.h and rbtree.cpp.        *)
(*                                                                         *)
(* An operation is one step as far as the node is linked in or out; then   *)
(* each iteration of the rebalancing loop is a step of its own.  The code  *)
(* writes every case of these loops twice, once for each side; here a case *)
(* is written once, for side s and its opposite.                           *)
(***************************************************************************)
EXTENDS Integers, FiniteSets, SequencesExt

CONSTANTS
  Nodes,        \* the nodes a client may insert
  Key,          \* key_of_node_: an integer for each node
  None,         \* the null pointer
  InnerErases,  \* the client also erases nodes that have two children
  LowErases     \* the client also erases keys below all keys of the tree

ASSUME KeyAssumption == Key \in [Nodes -> Int]
ASSUME NoneAssumption == None \notin Nodes
ASSUME EraseAssumption == InnerErases \in BOOLEAN /\ LowErases \in BOOLEAN

VARIABLES
  tree,    \* root_ and, for each node linked, parent_color_, left_ and right_
  length,  \* length_
  at,      \* "idle", or the rebalancing loop in progress: "insert", "erase"
  node,    \* node and parent of the loop
  parent,
  range    \* node_begin and node_end of Erase(key) in progress

vars == <<tree, length, at, node, parent, range>>

Keys == {Key[n] : n \in Nodes}

Opposite(s) == IF s = "left" THEN "right" ELSE "left"

-----------------------------------------------------------------------------
(* The links.  RBTreeNode's setters, as functions of the tree. *)

RedLeaf(p) == [parent |-> p, black |-> FALSE, child |-> [s \in {"left", "right"} |-> None]]

Child(t, n, s) == t.links[n].child[s]

Parent(t, n) == t.links[n].parent

IsRed(t, n) == n # None /\ ~ t.links[n].black

SetChild(t, n, s, c) == [t EXCEPT !.links[n].child[s] = c]

SetParent(t, n, p) == IF n = None THEN t ELSE [t EXCEPT !.links[n].parent = p]

SetBlack(t, n) == IF n = None THEN t ELSE [t EXCEPT !.links[n].black = TRUE]

SetRed(t, n) == [t EXCEPT !.links[n].black = FALSE]

(* SetParentColor with parent and color of another node. *)
TakePlace(t, n, m) ==
  [t EXCEPT !.links[n].parent = Parent(t, m), !.links[n].black = t.links[m].black]

ChangeChild(t, old, new, p) ==
  IF p = None THEN [t EXCEPT !.root = new]
  ELSE SetChild(t, p, IF Child(t, p, "left") = old THEN "left" ELSE "right", new)

(* RotateSetParents: new takes the place of old, which becomes its child. *)
RotateSetParents(t, old, new, black) ==
  LET p  == Parent(t, old)
      t1 == SetParent(TakePlace(t, new, old), old, new)
      t2 == IF black THEN SetBlack(t1, old) ELSE SetRed(t1, old)
  IN ChangeChild(t2, old, new, p)

(* First half of a rotation: c, between n and its child m on side s, goes    *)
(* over to n, and n under m.                                                 *)
LinkBetween(t, n, s, m, c) == SetChild(SetChild(t, n, s, c), m, Opposite(s), n)

-----------------------------------------------------------------------------
(* Walks down and up the tree, as functions of the node they start from. *)

Farthest(t, s) ==
  LET far[n \in DOMAIN t.links] ==
        IF Child(t, n, s) = None THEN n ELSE far[Child(t, n, s)]
  IN far

Climb(t, s) ==
  LET up[n \in DOMAIN t.links] ==
        LET p == Parent(t, n) IN IF p # None /\ n = Child(t, p, s) THEN up[p] ELSE p
  IN up

(* Next() towards the right, Prev() towards the left. *)
Neighbour(t, n, s) ==
  IF Child(t, n, s) # None THEN Farthest(t, Opposite(s))[Child(t, n, s)] ELSE Climb(t, s)[n]

NextNode(t, n) == Neighbour(t, n, "right")

PrevNode(t, n) == Neighbour(t, n, "left")

(* From n down, right of the nodes in R and left of the others: where the    *)
(* walk falls off the tree, and the last node it leaves on each side.        *)
Descend(t, R) ==
  LET walk[n \in DOMAIN t.links] ==
        LET s == IF n \in R THEN "right" ELSE "left"
            c == Child(t, n, s)
        IN IF c = None
           THEN [parent |-> n, side |-> s,
                 last |-> [q \in {"left", "right"} |-> IF q = s THEN n ELSE None]]
           ELSE [walk[c] EXCEPT !.last[s] = IF @ = None THEN n ELSE @]
  IN walk

SearchPath(t, R) ==
  IF t.root # None THEN Descend(t, R)[t.root]
  ELSE [parent |-> None, side |-> "left", last |-> [q \in {"left", "right"} |-> None]]

Below(key) == {n \in Nodes : Key[n] < key}

UpToButEqual(key) == {n \in Nodes : Key[n] < key}   \* Mutant: the arguments swapped.

UpTo(key) == {n \in Nodes : ~ (key < Key[n])}

BeginOf(t) == IF t.root = None THEN None ELSE Farthest(t, "left")[t.root]

LowerBound(t, key) == SearchPath(t, Below(key)).last["left"]

Find(t, key) ==
  LET found == LowerBound(t, key) IN IF found # None /\ ~ key < Key[found] THEN found ELSE None

(* The mutant is the code as it would be without the step to Next(). *)
UpperBoundNotNext(t, key) == SearchPath(t, UpTo(key)).last["right"]

UpperBound(t, key) ==
  LET found == SearchPath(t, UpTo(key)).last["right"]
  IN IF found = None \/ key < Key[found] THEN found ELSE NextNode(t, found)

-----------------------------------------------------------------------------
Init ==
  /\ tree = [root |-> None, links |-> [n \in {} |-> None]]
  /\ length = 0
  /\ at = "idle"
  /\ node = None
  /\ parent = None
  /\ range = <<None, None>>

Idle == at = "idle" /\ range[1] = range[2]

(* The nodes under a node, from left to right. *)
InOrder(t) ==
  LET nodes[n \in DOMAIN t.links \cup {None}] ==
        IF n = None THEN <<>>
        ELSE nodes[Child(t, n, "left")] \o <<n>> \o nodes[Child(t, n, "right")]
  IN nodes

contents == InOrder(tree)[tree.root]

Linked == DOMAIN tree.links

-----------------------------------------------------------------------------
(* Insert. *)

(* The node becomes a red leaf where the search for its key ended. *)
LinkNode(n, path) ==
  LET t == [tree EXCEPT !.links = [m \in Linked \cup {n} |->
                                     IF m = n THEN RedLeaf(path.parent) ELSE @[m]]]
  IN /\ tree' = IF path.parent = None THEN [t EXCEPT !.root = n]
                ELSE SetChild(t, path.parent, path.side, n)
     /\ length' = length + 1
     /\ at' = "insert"
     /\ node' = n
     /\ parent' = path.parent
     /\ UNCHANGED range

InsertEqual(n) ==
  /\ Idle /\ n \notin Linked
  /\ LinkNode(n, SearchPath(tree, UpTo(Key[n])))

(* Insert refuses a key that is there: then nothing changes. *)
Insert(n) ==
  /\ Idle /\ n \notin Linked
  /\ LET path == SearchPath(tree, UpTo(Key[n])) IN
     /\ LET check == path.last["right"] IN check # None => Key[check] < Key[n]
     /\ LinkNode(n, path)

(* What a loop does next: it goes on with another node, or it is done. *)
Continue(n, p) == node' = n /\ parent' = p /\ UNCHANGED at

Done == at' = "idle" /\ node' = None /\ parent' = None

(* The side of a child under its grandparent; the code asks for the right.   *)
SideOf(t, g, p) == IF Child(t, g, "right") = p THEN "right" ELSE "left"

(* The parent p and its sibling are red: both black, go on at g, now red. *)
RecolorOnce(p, g, u) ==   \* Mutant: the parent stays red.
  /\ tree' = SetRed(SetBlack(tree, u), g)
  /\ Continue(g, Parent(tree, g))

Recolor(p, g, u) ==
  /\ tree' = SetRed(SetBlack(SetBlack(tree, u), p), g)
  /\ Continue(g, Parent(tree, g))

(* A node on the inner side of p changes places with it. *)
Straighten(t, n, p, s) ==
  LET o == Opposite(s)
      c == Child(t, n, s)
      t1 == LinkBetween(t, p, o, n, c)
      t2 == SetBlack(SetParent(t1, c, p), c)
  IN IF n # Child(t, p, o) THEN [tree |-> t, top |-> p]
     ELSE [tree |-> SetRed(SetParent(t2, p, n), p), top |-> n]

(* The grandparent g goes down on the other side and the node on top of its  *)
(* child's side comes up, black.                                             *)
RotateUp(n, p, g, s) ==
  LET x  == Straighten(tree, n, p, s)
      c  == Child(x.tree, x.top, Opposite(s))
      t1 == LinkBetween(x.tree, g, s, x.top, c)
      t2 == SetBlack(SetParent(t1, c, g), c)
  IN tree' = RotateSetParents(t2, g, x.top, FALSE) /\ Done

RebalanceInsert ==
  /\ at = "insert"
  /\ IF parent = None
     THEN tree' = SetBlack(SetParent(tree, node, None), node) /\ Done
     ELSE IF ~ IsRed(tree, parent)
     THEN UNCHANGED tree /\ Done
     ELSE LET g == Parent(tree, parent)
              s == SideOf(tree, g, parent)
              u == Child(tree, g, Opposite(s))
          IN IF IsRed(tree, u) THEN Recolor(parent, g, u) ELSE RotateUp(node, parent, g, s)
  /\ UNCHANGED <<length, range>>

-----------------------------------------------------------------------------
(* Erase. *)

(* The node has at most one child, which takes its place. *)
Bypass(t, n) ==
  LET l == Child(t, n, "left")
      c == IF l = None THEN Child(t, n, "right") ELSE l
      p == Parent(t, n)
      t1 == ChangeChild(t, n, c, p)
  IN IF c # None THEN [tree |-> TakePlace(t1, c, n), rebalance |-> None]
     ELSE [tree |-> t1, rebalance |-> IF IsRed(t, n) THEN None ELSE p]

(* Both children are there.  The code looks for the successor in the left    *)
(* subtree, not in the right one, and hangs the right child under it.        *)
Replace(t, n) ==
  LET l == Child(t, n, "left")
      r == Child(t, n, "right")
      successor == Farthest(t, "left")[l]
      p  == IF successor = l THEN r ELSE Parent(t, successor)
      c  == Child(t, successor, "right")
      t1 == SetChild(SetChild(t, p, "left", c), successor, "right", r)
      t2 == SetChild(SetParent(t1, r, successor), successor, "left", Child(t1, n, "left"))
      t3 == SetParent(t2, Child(t1, n, "left"), successor)
      t4 == TakePlace(ChangeChild(t3, n, successor, Parent(t3, n)), successor, n)
  IN IF c # None THEN [tree |-> SetBlack(SetParent(t4, c, p), c), rebalance |-> None]
     ELSE [tree |-> t4, rebalance |-> IF IsRed(t3, successor) THEN None ELSE p]

(* The members of an erased node keep their values, which nothing reads      *)
(* before Insert sets them again.                                            *)
HasTwoChildren(n) == \A s \in {"left", "right"} : Child(tree, n, s) # None

Unlink(n) ==
  LET x == IF HasTwoChildren(n) THEN Replace(tree, n) ELSE Bypass(tree, n)
  IN /\ tree' = [x.tree EXCEPT !.links = Restrict(@, Linked \ {n})]
     /\ length' = length - 1
     /\ node' = None
     /\ parent' = x.rebalance
     /\ at' = IF x.rebalance = None THEN "idle" ELSE "erase"

EraseNode(n) ==
  /\ Idle /\ n \in Linked
  /\ HasTwoChildren(n) => InnerErases
  /\ Unlink(n)
  /\ UNCHANGED range

(* Erase(key): the nodes from LowerBound to UpperBound go one by one.  Nodes *)
(* with the least key are first in the tree when their turn comes, without a *)
(* left child.                                                               *)
EraseKey(key) ==
  /\ Idle
  /\ LowErases \/ \E n \in Linked : Key[n] <= key
  /\ \/ InnerErases
     \/ \A n \in Linked : key <= Key[n]
     \/ LET S == {n \in Linked : Key[n] = key}
        IN Cardinality(S) <= 1 /\ \A n \in S : ~ HasTwoChildren(n)
  /\ LowerBound(tree, key) # None
  /\ range' = <<LowerBound(tree, key), UpperBound(tree, key)>>
  /\ UNCHANGED <<tree, length, at, node, parent>>

EraseInRange ==
  /\ at = "idle" /\ range[1] # range[2]
  /\ Unlink(range[1])
  /\ range' = [range EXCEPT ![1] = NextNode(tree, range[1])]

(* The sibling is red: it comes up over the parent, so that the next one is  *)
(* black.                                                                    *)
LiftRedSibling(t, p, s) ==
  LET b  == Child(t, p, s)
      c  == Child(t, b, Opposite(s))
      t1 == LinkBetween(t, p, s, b, c)
  IN IF ~ IsRed(t, b) THEN t
     ELSE RotateSetParents(SetBlack(SetParent(t1, c, p), c), p, b, FALSE)

(* The sibling's red child is the inner one: it comes up over the sibling. *)
TurnSibling(t, p, s) ==
  LET o  == Opposite(s)
      b  == Child(t, p, s)
      i  == Child(t, b, o)
      c  == Child(t, i, s)
      t1 == SetChild(LinkBetween(t, b, o, i, c), p, s, i)
  IN IF IsRed(t, Child(t, b, s)) THEN t ELSE SetBlack(SetParent(t1, c, b), c)

(* The sibling comes up over the parent, its outer child turns black. *)
LiftSibling(t, p, s) ==
  LET b  == Child(t, p, s)
      c  == Child(t, b, Opposite(s))
      x  == Child(t, b, s)
      t1 == LinkBetween(t, p, s, b, c)
      t2 == SetBlack(SetParent(t1, x, b), x)
  IN RotateSetParents(SetParent(t2, c, p), p, b, TRUE)

RebalanceErase ==
  /\ at = "erase"
  /\ LET s == IF node = Child(tree, parent, "right") THEN "left" ELSE "right"
         t == LiftRedSibling(tree, parent, s)
         b == Child(t, parent, s)
     IN IF \E side \in {"left", "right"} : IsRed(t, Child(t, b, side))
        THEN tree' = LiftSibling(TurnSibling(t, parent, s), parent, s) /\ Done
        ELSE LET t1 == SetRed(SetParent(t, b, parent), b)
             IN IF IsRed(t1, parent)
                THEN tree' = SetBlack(t1, parent) /\ Done
                ELSE /\ tree' = t1
                     /\ IF Parent(t1, parent) = None THEN Done
                        ELSE Continue(parent, Parent(t1, parent))
  /\ UNCHANGED <<length, range>>

-----------------------------------------------------------------------------
Next ==
  \/ \E n \in Nodes : Insert(n) \/ InsertEqual(n) \/ EraseNode(n)
  \/ \E key \in Keys : EraseKey(key)
  \/ EraseInRange \/ RebalanceInsert \/ RebalanceErase

Spec == Init /\ [][Next]_vars

-----------------------------------------------------------------------------
(* Between two operations the tree is red-black: a black root, no red node   *)
(* under a red one, the same number of black nodes on every way down; and    *)
(* each node's parent pointer is the link that leads to it (rbtree.cpp,      *)
(* the loops of Insert and Erase).                                           *)
BlackAbove(n) ==
  LET above[m \in Linked \cup {None}] ==
        IF m = None THEN 0 ELSE above[Parent(tree, m)] + (IF IsRed(tree, m) THEN 0 ELSE 1)
  IN above[n]

Balanced ==
  at = "idle" =>
    /\ ~ IsRed(tree, tree.root)
    /\ tree.root # None => Parent(tree, tree.root) = None
    /\ \A n \in Linked, s \in {"left", "right"} :
         LET c == Child(tree, n, s)
         IN c # None => Parent(tree, c) = n /\ ~ (IsRed(tree, n) /\ IsRed(tree, c))
    /\ \A m, n \in {k \in Linked : ~ HasTwoChildren(k)} : BlackAbove(m) = BlackAbove(n)

(* The first of the nodes in order that satisfy a test, or None. *)
FirstIn(S) == LET first == SelectInSeq(contents, LAMBDA n : n \in S)
              IN IF first = 0 THEN None ELSE contents[first]

(* Between two operations Begin, Next and Prev walk the nodes in order;      *)
(* Find, LowerBound and UpperBound return the first node with that key, not  *)
(* below it, above it (UpperBound if some key is not above it);              *)
(* Length counts the nodes (rbtree.h:152-244, rbtree.cpp:14-60).             *)
QueriesAgree ==
  at = "idle" =>
    /\ length = Len(contents)
    /\ BeginOf(tree) = FirstIn(Nodes)
    /\ \A i \in 1 .. Len(contents) :
         /\ NextNode(tree, contents[i]) = IF i = Len(contents) THEN None ELSE contents[i + 1]
         /\ PrevNode(tree, contents[i]) = IF i = 1 THEN None ELSE contents[i - 1]
    /\ \A key \in UNION {{k - 1, k, k + 1} : k \in Keys} :
         /\ Find(tree, key) = FirstIn({n \in Nodes : Key[n] = key})
         /\ LowerBound(tree, key) = FirstIn(Nodes \ Below(key))
         /\ (\E n \in Linked : Key[n] <= key) =>
              UpperBound(tree, key) = FirstIn(Nodes \ UpTo(key))

(* The tree implements the sorted list of its nodes: an operation links or   *)
(* unlinks one node at its place, and no rotation changes the order.         *)
Sorted == INSTANCE SortedNodes
ImplementsSortedNodes == Sorted!Spec

(* What test/data_structure/test_rbtree.cpp:110-117 relies on: from          *)
(* LowerBound of a key to UpperBound of it are the nodes with that key.      *)
BoundsEncloseKey ==
  Idle => \A key \in UNION {{k - 1, k, k + 1} : k \in Keys} :
            LowerBound(tree, key) # UpperBound(tree, key) =>
              \E n \in Linked : Key[n] = key
=============================================================================
