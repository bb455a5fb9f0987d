---------------------------- MODULE RBTreeProofs ----------------------------
(***************************************************************************)
(* Proofs about RBTree: between two operations the tree is red-black and   *)
(* in order, its queries find what they promise, and its operations are    *)
(* those of the sorted list of SortedNodes.                                *)
(***************************************************************************)
EXTENDS RBTree, SequenceTheorems, FiniteSetTheorems, WellFoundedInduction, TLAPS

Sides == {"left", "right"}

(* The way a side leads in the order. *)
Dir(s) == IF s = "left" THEN -1 ELSE 1

Black(t, n) == t.links[n].black

(* The trees over a set of nodes, as far as their types go. *)
Trees(D) ==
  [root : D \cup {None},
   links : [D -> [parent : D \cup {None}, black : BOOLEAN, child : [Sides -> D \cup {None}]]]]

(* The measures of a tree that no field of it holds.  rank gives a node its  *)
(* place in the order of the tree, edge the first and the last place of the  *)
(* nodes under it (itself included), height the black nodes on a way down    *)
(* from it (without itself).                                                 *)
Ranks(D) == [D -> Int]
Edges(D) == [D -> [Sides -> Int]]
Heights(D) == [D -> Nat]

(* The child on side s takes the places from the node to the edge. *)
Hangs(t, rank, edge, n, s) ==
  LET c == Child(t, n, s) IN
  IF c = None THEN edge[n][s] = rank[n]
  ELSE /\ Parent(t, c) = n
       /\ edge[c][s] = edge[n][s]
       /\ edge[c][Opposite(s)] = rank[n] + Dir(s)

(* A node other than the root is a child of its parent. *)
Hung(t, n) == Parent(t, n) # None /\ \E s \in Sides : Child(t, Parent(t, n), s) = n

(* All the places are under the root. *)
Rooted(t, edge, len) ==
  IF t.root = None THEN DOMAIN t.links = {}
  ELSE /\ Parent(t, t.root) = None
       /\ edge[t.root]["left"] = 1 /\ edge[t.root]["right"] = len

(* The links of a tree and the places agree. *)
Placed(t, rank, edge, len) ==
  /\ \A n \in DOMAIN t.links : edge[n]["left"] <= rank[n] /\ rank[n] <= edge[n]["right"]
  /\ \A n \in DOMAIN t.links, s \in Sides : Hangs(t, rank, edge, n, s)
  /\ \A n \in DOMAIN t.links : n = t.root \/ Hung(t, n)
  /\ Rooted(t, edge, len)

(* Each place is taken by one node, and the keys grow with the places. *)
Numbered(D, rank, len) ==
  /\ \A n \in D : rank[n] \in 1 .. len
  /\ \A m, n \in D : rank[m] = rank[n] => m = n
  /\ \A i \in 1 .. len : \E n \in D : rank[n] = i
  /\ \A m, n \in D : rank[m] < rank[n] => Key[m] <= Key[n]

(* The black nodes on a way down, the first node included. *)
Weight(t, height, c) ==
  IF c = None THEN 0 ELSE IF Black(t, c) THEN height[c] + 1 ELSE height[c]

(* The ways down from n over its side s have its height. *)
Even(t, height, n, s) == Weight(t, height, Child(t, n, s)) = height[n]

RedApart(t, n, s) == ~ (IsRed(t, n) /\ IsRed(t, Child(t, n, s)))

(* Between two operations: the tree is red-black. *)
Calm(t, height) ==
  /\ \A n \in DOMAIN t.links, s \in Sides : Even(t, height, n, s) /\ RedApart(t, n, s)
  /\ ~ IsRed(t, t.root)

(* In Insert's loop, node is red and may be so under a red parent.           *)
Rising(t, height, n, p) ==
  /\ n \in DOMAIN t.links /\ p = Parent(t, n) /\ IsRed(t, n)
  /\ \A m \in DOMAIN t.links, s \in Sides :
       Even(t, height, m, s) /\ (Child(t, m, s) # n => RedApart(t, m, s))
  /\ n # t.root => ~ IsRed(t, t.root)

(* In Erase's loop, one black node is missing on the side o of p, where n is. *)
Lacking(t, height, n, p, o) ==
  /\ p \in DOMAIN t.links /\ n = Child(t, p, o)
  /\ Weight(t, height, n) + 1 = height[p]
  /\ \A m \in DOMAIN t.links, s \in Sides :
       ((m # p \/ s # o) => Even(t, height, m, s)) /\ RedApart(t, m, s)
  /\ ~ IsRed(t, n)
  /\ ~ IsRed(t, t.root)

(* The colors, in each of the three phases. *)
Phase(height) ==
  CASE at = "idle" -> Calm(tree, height)
    [] at = "insert" -> Rising(tree, height, node, parent)
    [] at = "erase" -> \E o \in Sides : Lacking(tree, height, node, parent, o)

TypeOK ==
  /\ tree \in Trees(Linked) /\ Linked \in SUBSET Nodes
  /\ length \in Nat
  /\ at \in {"idle", "insert", "erase"}
  /\ node \in Nodes \cup {None} /\ parent \in Nodes \cup {None}
  /\ range \in (Nodes \cup {None}) \X (Nodes \cup {None})

-----------------------------------------------------------------------------
(* What the setters do to the fields of a tree. *)

(* The fields of a tree. *)
LEMMA Fields ==
  ASSUME NEW D, NEW t \in Trees(D)
  PROVE  /\ DOMAIN t.links = D /\ t.root \in D \cup {None}
         /\ \A n \in D : Parent(t, n) \in D \cup {None} /\ Black(t, n) \in BOOLEAN
         /\ \A n \in D, s \in Sides : Child(t, n, s) \in D \cup {None}
  BY DEF Trees, Parent, Black, Child

(* The sides. *)
LEMMA SidesFacts ==
  /\ \A s \in Sides : /\ Opposite(s) \in Sides /\ Opposite(s) # s
                      /\ Opposite(Opposite(s)) = s
                      /\ \A q \in Sides : q = s \/ q = Opposite(s)
                      /\ Dir(s) \in {-1, 1} /\ Dir(Opposite(s)) = - Dir(s)
  /\ "left" \in Sides /\ "right" \in Sides
  /\ Opposite("left") = "right" /\ Opposite("right") = "left"
  /\ Dir("left") = -1 /\ Dir("right") = 1
<1>1. /\ "left" \in Sides /\ "right" \in Sides /\ "left" # "right"
      /\ \A s \in Sides : s = "left" \/ s = "right"
  BY DEF Sides
<1>2. /\ Opposite("left") = "right" /\ Opposite("right") = "left"
      /\ Dir("left") = -1 /\ Dir("right") = 1
  BY <1>1 DEF Opposite, Dir
<1> QED
  BY <1>1, <1>2

(* SetLeft and SetRight. *)
LEMMA SetChildLaw ==
  ASSUME NEW D, NEW t \in Trees(D), NEW n \in D, NEW s \in Sides, NEW c \in D \cup {None},
         NEW u, u = SetChild(t, n, s, c)
  PROVE  /\ u \in Trees(D) /\ u.root = t.root
         /\ \A m \in D : Parent(u, m) = Parent(t, m) /\ Black(u, m) = Black(t, m)
         /\ \A m \in D, q \in Sides :
              Child(u, m, q) = IF m = n /\ q = s THEN c ELSE Child(t, m, q)
  BY DEF Trees, Parent, Black, Child, SetChild

(* SetParent, of a null pointer too. *)
LEMMA SetParentLaw ==
  ASSUME NEW D, None \notin D, NEW t \in Trees(D), NEW n \in D \cup {None},
         NEW p \in D \cup {None}, NEW u, u = SetParent(t, n, p)
  PROVE  /\ u \in Trees(D) /\ u.root = t.root
         /\ \A m \in D : Parent(u, m) = (IF m = n THEN p ELSE Parent(t, m))
                         /\ Black(u, m) = Black(t, m)
         /\ \A m \in D, q \in Sides : Child(u, m, q) = Child(t, m, q)
  BY DEF Trees, Parent, Black, Child, SetParent

(* SetBlack, of a null pointer too. *)
LEMMA SetBlackLaw ==
  ASSUME NEW D, None \notin D, NEW t \in Trees(D), NEW n \in D \cup {None},
         NEW u, u = SetBlack(t, n)
  PROVE  /\ u \in Trees(D) /\ u.root = t.root
         /\ \A m \in D : Parent(u, m) = Parent(t, m)
                         /\ Black(u, m) = (m = n \/ Black(t, m))
         /\ \A m \in D, q \in Sides : Child(u, m, q) = Child(t, m, q)
  BY ZenonT(60) DEF Trees, Parent, Black, Child, SetBlack

(* SetRed. *)
LEMMA SetRedLaw ==
  ASSUME NEW D, NEW t \in Trees(D), NEW n \in D, NEW u, u = SetRed(t, n)
  PROVE  /\ u \in Trees(D) /\ u.root = t.root
         /\ \A m \in D : Parent(u, m) = Parent(t, m)
                         /\ Black(u, m) = (m # n /\ Black(t, m))
         /\ \A m \in D, q \in Sides : Child(u, m, q) = Child(t, m, q)
  BY DEF Trees, Parent, Black, Child, SetRed

(* SetParentColor with another node's. *)
LEMMA TakePlaceLaw ==
  ASSUME NEW D, NEW t \in Trees(D), NEW n \in D, NEW m \in D, NEW u, u = TakePlace(t, n, m)
  PROVE  /\ u \in Trees(D) /\ u.root = t.root
         /\ \A k \in D : /\ Parent(u, k) = Parent(t, IF k = n THEN m ELSE k)
                         /\ Black(u, k) = Black(t, IF k = n THEN m ELSE k)
         /\ \A k \in D, q \in Sides : Child(u, k, q) = Child(t, k, q)
  BY ZenonT(60) DEF Trees, Parent, Black, Child, TakePlace

(* ChangeChild: e is the side of the node under its parent, if it has one.   *)
LEMMA ChangeChildLaw ==
  ASSUME NEW D, None \notin D, NEW t \in Trees(D), NEW n \in D, NEW c \in D \cup {None},
         NEW p \in D \cup {None}, NEW e \in Sides,
         p # None => Child(t, p, e) = n /\ Child(t, p, Opposite(e)) # n,
         NEW u, u = ChangeChild(t, n, c, p)
  PROVE  /\ u \in Trees(D) /\ u.root = IF p = None THEN c ELSE t.root
         /\ \A m \in D : Parent(u, m) = Parent(t, m) /\ Black(u, m) = Black(t, m)
         /\ \A m \in D, q \in Sides :
              Child(u, m, q) = IF m = p /\ q = e THEN c ELSE Child(t, m, q)
<1>1. CASE p = None
  <2>1. u = [t EXCEPT !.root = c]
    BY <1>1 DEF ChangeChild
  <2> QED
    BY <1>1, <2>1 DEF Trees, Parent, Black, Child
<1>2. CASE p # None
  <2>1. (IF Child(t, p, "left") = n THEN "left" ELSE "right") = e
    BY <1>2, SidesFacts
  <2>2. u = SetChild(t, p, e, c)
    BY <1>2, <2>1 DEF ChangeChild
  <2> QED
    BY <1>2, <2>2, SetChildLaw, Z3
<1> QED
  BY <1>1, <1>2

(* RotateSetParents: x takes the place of n, which goes under it.            *)
LEMMA RotateSetParentsLaw ==
  ASSUME NEW D, None \notin D, NEW t \in Trees(D), NEW n \in D, NEW x \in D, n # x,
         NEW black \in BOOLEAN, NEW p \in D \cup {None}, p = Parent(t, n), NEW e \in Sides,
         p # None => Child(t, p, e) = n /\ Child(t, p, Opposite(e)) # n,
         NEW u, u = RotateSetParents(t, n, x, black)
  PROVE  /\ u \in Trees(D) /\ u.root = IF p = None THEN x ELSE t.root
         /\ \A m \in D : /\ Parent(u, m) = IF m = x THEN p ELSE IF m = n THEN x ELSE Parent(t, m)
                         /\ Black(u, m) = IF m = x THEN Black(t, n)
                                          ELSE IF m = n THEN black ELSE Black(t, m)
         /\ \A m \in D, q \in Sides :
              Child(u, m, q) = IF m = p /\ q = e THEN x ELSE Child(t, m, q)
<1>0. n \in D \cup {None} /\ x \in D \cup {None}
  OBVIOUS
<1>1. PICK t1 : t1 = TakePlace(t, x, n)
  OBVIOUS
<1>2. PICK t2 : t2 = SetParent(t1, n, x)
  OBVIOUS
<1>3. PICK t3 : t3 = IF black THEN SetBlack(t2, n) ELSE SetRed(t2, n)
  OBVIOUS
<1>4. u = ChangeChild(t3, n, x, p)
  BY <1>1, <1>2, <1>3 DEF RotateSetParents
<1>5. /\ t1 \in Trees(D) /\ t1.root = t.root
      /\ \A m \in D : /\ Parent(t1, m) = IF m = x THEN p ELSE Parent(t, m)
                      /\ Black(t1, m) = IF m = x THEN Black(t, n) ELSE Black(t, m)
      /\ \A m \in D, q \in Sides : Child(t1, m, q) = Child(t, m, q)
  <2>1. /\ t1 \in Trees(D) /\ t1.root = t.root
        /\ \A k \in D : /\ Parent(t1, k) = Parent(t, IF k = x THEN n ELSE k)
                        /\ Black(t1, k) = Black(t, IF k = x THEN n ELSE k)
        /\ \A k \in D, q \in Sides : Child(t1, k, q) = Child(t, k, q)
    BY <1>1, TakePlaceLaw, SMTT(30)
  <2> QED
    BY <2>1
<1>6. /\ t2 \in Trees(D) /\ t2.root = t.root
      /\ \A m \in D : /\ Parent(t2, m) = IF m = x THEN p ELSE IF m = n THEN x ELSE Parent(t, m)
                      /\ Black(t2, m) = IF m = x THEN Black(t, n) ELSE Black(t, m)
      /\ \A m \in D, q \in Sides : Child(t2, m, q) = Child(t, m, q)
  <2>1. t1 \in Trees(D)
    BY <1>5
  <2>2. /\ t2 \in Trees(D) /\ t2.root = t1.root
        /\ \A m \in D : Parent(t2, m) = (IF m = n THEN x ELSE Parent(t1, m))
                        /\ Black(t2, m) = Black(t1, m)
        /\ \A m \in D, q \in Sides : Child(t2, m, q) = Child(t1, m, q)
    BY <1>0, <1>2, <2>1, SetParentLaw, Z3T(30)
  <2> QED
    BY <2>2, <1>5
<1>t2. t2 \in Trees(D)
  BY <1>6
<1>7. /\ t3 \in Trees(D) /\ t3.root = t.root
      /\ \A m \in D : /\ Parent(t3, m) = IF m = x THEN p ELSE IF m = n THEN x ELSE Parent(t, m)
                      /\ Black(t3, m) = IF m = x THEN Black(t, n)
                                        ELSE IF m = n THEN black ELSE Black(t, m)
      /\ \A m \in D, q \in Sides : Child(t3, m, q) = Child(t, m, q)
  <2>1. CASE black
    <3>1. t3 = SetBlack(t2, n)
      BY <2>1, <1>3
    <3>2. /\ t3 \in Trees(D) /\ t3.root = t2.root
          /\ \A m \in D : Parent(t3, m) = Parent(t2, m)
                          /\ Black(t3, m) = (m = n \/ Black(t2, m))
          /\ \A m \in D, q \in Sides : Child(t3, m, q) = Child(t2, m, q)
      BY <3>1, <1>0, <1>t2, SetBlackLaw, Z3
    <3>3. \A m \in D : Black(t2, m) \in BOOLEAN
      BY <1>6, Fields
    <3> QED
      BY <2>1, <3>2, <3>3, <1>6, ZenonT(60)
  <2>2. CASE ~ black
    <3>1. t3 = SetRed(t2, n)
      BY <2>2, <1>3
    <3>2. /\ t3 \in Trees(D) /\ t3.root = t2.root
          /\ \A m \in D : Parent(t3, m) = Parent(t2, m)
                          /\ Black(t3, m) = (m # n /\ Black(t2, m))
          /\ \A m \in D, q \in Sides : Child(t3, m, q) = Child(t2, m, q)
      BY <3>1, <1>t2, SetRedLaw
    <3>3. \A m \in D : Black(t2, m) \in BOOLEAN
      BY <1>6, Fields
    <3> QED
      BY <2>2, <3>2, <3>3, <1>6
  <2> QED
    BY <2>1, <2>2
<1>8. p # None => Child(t3, p, e) = n /\ Child(t3, p, Opposite(e)) # n
  BY <1>7, SidesFacts
<1>9. /\ u \in Trees(D) /\ u.root = IF p = None THEN x ELSE t3.root
      /\ \A m \in D : Parent(u, m) = Parent(t3, m) /\ Black(u, m) = Black(t3, m)
      /\ \A m \in D, q \in Sides :
           Child(u, m, q) = IF m = p /\ q = e THEN x ELSE Child(t3, m, q)
  BY <1>4, <1>7, <1>8, ChangeChildLaw, SMTT(30)
<1> QED
  BY <1>7, <1>9

-----------------------------------------------------------------------------
(* Rotations. *)

(* A child has its node for a parent, takes the places beside it, and is     *)
(* neither the node nor its other child; a grandchild is not the node.       *)
LEMMA ChildFacts ==
  ASSUME NEW D, None \notin D, NEW t \in Trees(D), NEW rank \in Ranks(D),
         NEW edge \in Edges(D), NEW len, Placed(t, rank, edge, len),
         NEW n \in D, NEW s \in Sides, NEW c, c = Child(t, n, s), c # None
  PROVE  /\ c \in D /\ Parent(t, c) = n /\ c # n /\ c # t.root
         /\ edge[c][s] = edge[n][s] /\ edge[c][Opposite(s)] = rank[n] + Dir(s)
         /\ c # Child(t, n, Opposite(s))
         /\ \A q \in Sides : Child(t, c, q) # n
<1>1. c \in D
  BY Fields
<1>2. \A m \in D, q \in Sides : Child(t, m, q) # None =>
        /\ Parent(t, Child(t, m, q)) = m
        /\ edge[Child(t, m, q)][q] = edge[m][q]
        /\ edge[Child(t, m, q)][Opposite(q)] = rank[m] + Dir(q)
  BY Fields DEF Placed, Hangs
<1>3. \A m \in D : /\ rank[m] \in Int /\ edge[m]["left"] \in Int /\ edge[m]["right"] \in Int
                   /\ edge[m]["left"] <= rank[m] /\ rank[m] <= edge[m]["right"]
  BY Fields DEF Placed, Ranks, Edges, Sides
<1>4. ASSUME NEW m \in D, NEW q \in Sides, NEW d \in D, d = Child(t, m, q)
      PROVE  /\ edge[m]["left"] <= edge[d]["left"] /\ edge[d]["right"] <= edge[m]["right"]
             /\ rank[d] # rank[m]
             /\ q = "left" => edge[d]["right"] = rank[m] - 1
             /\ q = "right" => edge[d]["left"] = rank[m] + 1
  <2>1. edge[d][q] = edge[m][q] /\ edge[d][Opposite(q)] = rank[m] + Dir(q)
    BY <1>2, <1>4
  <2>2. CASE q = "left"
    BY <2>1, <2>2, <1>3, SidesFacts
  <2>3. CASE q = "right"
    BY <2>1, <2>3, <1>3, SidesFacts
  <2> QED
    BY <2>2, <2>3, SidesFacts
<1>5. c # n
  BY <1>1, <1>4
<1>6. c # Child(t, n, Opposite(s))
  <2>1. SUFFICES ASSUME c = Child(t, n, Opposite(s)) PROVE FALSE
    OBVIOUS
  <2>2. c = Child(t, n, "left") /\ c = Child(t, n, "right")
    BY <2>1, SidesFacts
  <2>3. edge[c]["right"] = rank[n] - 1
    BY <1>1, <1>4, <2>2, SidesFacts
  <2>4. edge[c]["left"] = rank[n] + 1
    BY <1>1, <1>4, <2>2, SidesFacts
  <2> QED
    BY <1>1, <1>3, <2>3, <2>4
<1>7. ASSUME NEW q \in Sides, Child(t, c, q) = n PROVE FALSE
  <2>1. /\ edge[n]["left"] <= edge[c]["left"] /\ edge[c]["right"] <= edge[n]["right"]
        /\ edge[c]["left"] <= edge[n]["left"] /\ edge[n]["right"] <= edge[c]["right"]
    BY <1>1, <1>4, <1>7
  <2>2. s = "left" => edge[c]["right"] = rank[n] - 1
    BY <1>1, <1>4
  <2>3. s = "right" => edge[c]["left"] = rank[n] + 1
    BY <1>1, <1>4
  <2> QED
    BY <1>1, <1>3, <2>1, <2>2, <2>3, SidesFacts
<1>8. c # t.root
  BY <1>1, <1>2 DEF Placed, Rooted
<1> QED
  BY <1>1, <1>2, <1>5, <1>6, <1>7, <1>8

(* The root alone has no parent; any other node is one child of its parent. *)
LEMMA ParentFacts ==
  ASSUME NEW D, None \notin D, NEW t \in Trees(D), NEW rank \in Ranks(D),
         NEW edge \in Edges(D), NEW len, Placed(t, rank, edge, len),
         NEW n \in D, NEW p, p = Parent(t, n)
  PROVE  /\ p = None <=> n = t.root
         /\ p # None =>
              /\ p \in D /\ p # n
              /\ \E e \in Sides : Child(t, p, e) = n /\ Child(t, p, Opposite(e)) # n
<1>1. n = t.root => p = None
  BY Fields DEF Placed, Rooted
<1>2. n = t.root \/ Hung(t, n)
  BY Fields DEF Placed
<1>3. p # None => p \in D
  BY Fields
<1>4. ASSUME p # None
      PROVE  p # n /\ \E e \in Sides : Child(t, p, e) = n /\ Child(t, p, Opposite(e)) # n
  <2>1. PICK e \in Sides : Child(t, p, e) = n
    BY <1>1, <1>2, <1>4 DEF Hung
  <2>2. n # None /\ p \in D
    BY <1>3, <1>4
  <2>3. n # p /\ n # Child(t, p, Opposite(e))
    BY <2>1, <2>2, ChildFacts, Z3
  <2> QED
    BY <2>1, <2>3
<1> QED
  BY <1>1, <1>2, <1>3, <1>4 DEF Hung

(* u is t with x, the child of p on side s, in the place of p, and p under   *)
(* it with x's child c; e is the side of p under its parent.                 *)
Turned(D, t, u, p, s, x, c, e) ==
  /\ u.root = IF Parent(t, p) = None THEN x ELSE t.root
  /\ \A m \in D :
       Parent(u, m) = IF m = x THEN Parent(t, p) ELSE IF m = p THEN x
                      ELSE IF m = c THEN p ELSE Parent(t, m)
  /\ \A m \in D, q \in Sides :
       Child(u, m, q) = IF m = p /\ q = s THEN c ELSE IF m = x /\ q = Opposite(s) THEN p
                        ELSE IF m = Parent(t, p) /\ q = e THEN x ELSE Child(t, m, q)

TurnedEdge(rank, edge, p, s, x) ==
  [edge EXCEPT ![x] = edge[p], ![p] = [edge[p] EXCEPT ![s] = rank[x] + Dir(Opposite(s))]]

(* The links of a rotation: three of them change, and the others lead to     *)
(* other nodes than those that have moved.                                   *)
LEMMA TurnedSlots ==
  ASSUME NEW D, None \notin D, NEW t \in Trees(D), NEW rank \in Ranks(D),
         NEW edge \in Edges(D), NEW len, Placed(t, rank, edge, len),
         NEW u, NEW p \in D, NEW s \in Sides, NEW o \in Sides, o = Opposite(s),
         NEW x, x = Child(t, p, s), x # None,
         NEW c, c = Child(t, x, o), NEW g, g = Parent(t, p), NEW e \in Sides,
         g # None => Child(t, g, e) = p,
         Turned(D, t, u, p, s, x, c, e)
  PROVE  /\ x \in D /\ Parent(t, x) = p /\ x # p /\ x # t.root
         /\ x # Child(t, p, o) /\ Child(t, x, s) # p
         /\ c # None => /\ c \in D /\ Parent(t, c) = x /\ c # x /\ c # p /\ c # t.root
                         /\ c # Child(t, x, s)
         /\ g # None => g \in D /\ g # p /\ g # x
         /\ Child(u, p, s) = c /\ Child(u, p, o) = Child(t, p, o)
         /\ Child(u, x, o) = p /\ Child(u, x, s) = Child(t, x, s)
         /\ g # None => Child(u, g, e) = x /\ Child(u, g, Opposite(e)) = Child(t, g, Opposite(e))
         /\ \A m \in D, q \in Sides :
              \/ m = p /\ q = s
              \/ m = x /\ q = o
              \/ m = g /\ q = e
              \/ /\ Child(u, m, q) = Child(t, m, q)
                 /\ Child(t, m, q) # None =>
                      Child(t, m, q) # p /\ Child(t, m, q) # x /\ Child(t, m, q) # c
<1>3. /\ x \in D /\ Parent(t, x) = p /\ x # p /\ x # t.root
      /\ x # Child(t, p, o)
      /\ \A q \in Sides : Child(t, x, q) # p
  BY ChildFacts
<1>4. c # None => /\ c \in D /\ Parent(t, c) = x /\ c # x /\ c # p /\ c # t.root
                  /\ c # Child(t, x, s)
  <2>1. SUFFICES ASSUME c # None
                 PROVE  /\ c \in D /\ Parent(t, c) = x /\ c # x /\ c # p /\ c # t.root
                        /\ c # Child(t, x, s)
    OBVIOUS
  <2>2. x \in D /\ c = Child(t, x, o) /\ Opposite(o) = s
    BY <1>3, SidesFacts
  <2>3. /\ c \in D /\ Parent(t, c) = x /\ c # x /\ c # t.root
        /\ c # Child(t, x, Opposite(o))
    BY <2>1, <2>2, ChildFacts
  <2> QED
    BY <1>3, <2>2, <2>3
<1>5. g # None => g \in D /\ g # p /\ g # x
  <2>1. SUFFICES ASSUME g # None PROVE g \in D /\ g # p /\ g # x
    OBVIOUS
  <2>2. g \in D /\ p = Child(t, g, e) /\ p # None
    BY <2>1, Fields
  <2>3. p # g /\ \A q \in Sides : Child(t, p, q) # g
    BY <2>2, ChildFacts
  <2> QED
    BY <2>2, <2>3
<1>9. \A m \in D, q \in Sides :
        Child(u, m, q) = IF m = p /\ q = s THEN c ELSE IF m = x /\ q = o THEN p
                         ELSE IF m = g /\ q = e THEN x ELSE Child(t, m, q)
  BY DEF Turned
<1>10. s # o /\ e # Opposite(e) /\ Opposite(e) \in Sides
  BY SidesFacts
<1>14. ASSUME NEW m \in D, NEW q \in Sides, ~ (m = p /\ q = s), ~ (m = x /\ q = o),
              ~ (m = g /\ q = e), NEW d, d = Child(t, m, q), d # None
       PROVE  d # p /\ d # x /\ d # c
  <2>1. Parent(t, d) = m
    BY <1>14, ChildFacts
  <2>2. d # p
    <3>1. SUFFICES ASSUME d = p PROVE FALSE
      OBVIOUS
    <3>2. m = g /\ g # None
      BY <2>1, <3>1, <1>14
    <3>3. Child(t, g, Opposite(e)) # p
      <4>1. p = Child(t, g, e) /\ p # None /\ g \in D
        BY <3>2, <1>5
      <4> QED
        BY <4>1, ChildFacts
    <3>4. q = Opposite(e)
      BY <3>2, <1>14, SidesFacts
    <3> QED
      BY <3>1, <3>2, <3>3, <3>4, <1>14
  <2>3. d # x
    BY <2>1, <1>3, <1>14, SidesFacts
  <2>4. d # c
    <3>1. d = c => m = x /\ q = s
      BY <2>1, <1>4, <1>14, SidesFacts
    <3> QED
      BY <3>1, <1>4, <1>14
  <2> QED
    BY <2>2, <2>3, <2>4
<1> QED
  BY <1>3, <1>4, <1>5, <1>9, <1>10, <1>14

(* A rotation moves no node from its place. *)
LEMMA TurnedPlaced ==
  ASSUME NEW D, None \notin D, NEW t \in Trees(D), NEW u \in Trees(D), NEW rank \in Ranks(D),
         NEW edge \in Edges(D), NEW len, Placed(t, rank, edge, len),
         NEW p \in D, NEW s \in Sides, NEW x, x = Child(t, p, s), x # None,
         NEW c, c = Child(t, x, Opposite(s)), NEW e \in Sides,
         Parent(t, p) # None => Child(t, Parent(t, p), e) = p,
         Turned(D, t, u, p, s, x, c, e),
         NEW edge2, edge2 = TurnedEdge(rank, edge, p, s, x)
  PROVE  edge2 \in Edges(D) /\ Placed(u, rank, edge2, len)
<1>1. PICK o \in Sides : o = Opposite(s)
  BY SidesFacts
<1>2. PICK g \in D \cup {None} : g = Parent(t, p)
  BY Fields
<1>3. /\ x \in D /\ Parent(t, x) = p /\ x # p /\ x # t.root
      /\ edge[x][s] = edge[p][s] /\ edge[x][o] = rank[p] + Dir(s)
      /\ x # Child(t, p, o)
      /\ \A q \in Sides : Child(t, x, q) # p
  BY <1>1, ChildFacts
<1>4. c # None => /\ c \in D /\ Parent(t, c) = x /\ c # x /\ c # p /\ c # t.root
                  /\ edge[c][o] = edge[x][o] /\ edge[c][s] = rank[x] + Dir(o)
  <2>1. SUFFICES ASSUME c # None
                 PROVE  /\ c \in D /\ Parent(t, c) = x /\ c # x /\ c # p /\ c # t.root
                        /\ edge[c][o] = edge[x][o] /\ edge[c][s] = rank[x] + Dir(o)
    OBVIOUS
  <2>2. x \in D /\ c = Child(t, x, o) /\ Opposite(o) = s
    BY <1>1, <1>3, SidesFacts
  <2>3. /\ c \in D /\ Parent(t, c) = x /\ c # x /\ c # t.root
        /\ edge[c][o] = edge[x][o] /\ edge[c][Opposite(o)] = rank[x] + Dir(o)
    BY <2>1, <2>2, ChildFacts
  <2> QED
    BY <1>3, <2>2, <2>3
<1>5. g # None => g \in D /\ g # p /\ g # x
  <2>1. SUFFICES ASSUME g # None PROVE g \in D /\ g # p /\ g # x
    OBVIOUS
  <2>2. g \in D /\ p = Child(t, g, e) /\ p # None
    BY <1>2, <2>1
  <2>3. p # g /\ \A q \in Sides : Child(t, p, q) # g
    BY <2>2, ChildFacts
  <2> QED
    BY <2>2, <2>3
<1>6. /\ edge2 \in Edges(D)
      /\ \A q \in Sides : edge2[x][q] = edge[p][q]
      /\ edge2[p][s] = rank[x] + Dir(o) /\ edge2[p][o] = edge[p][o]
      /\ \A m \in D : m # x /\ m # p => edge2[m] = edge[m]
  <2>1. rank[x] + Dir(o) \in Int
    BY <1>1, <1>3, SidesFacts DEF Ranks
  <2> QED
    BY <1>1, <1>3, <2>1, SidesFacts DEF TurnedEdge, Edges
<1>7. /\ \A m \in D : rank[m] \in Int /\ edge[m]["left"] \in Int /\ edge[m]["right"] \in Int
      /\ \A m \in D : edge[m]["left"] <= rank[m] /\ rank[m] <= edge[m]["right"]
  BY Fields DEF Placed, Ranks, Edges, Sides
<1>8. \A m \in D : edge2[m]["left"] <= rank[m] /\ rank[m] <= edge2[m]["right"]
  <2>1. CASE s = "left"
    <3>1. /\ edge[x]["left"] = edge[p]["left"] /\ edge[x]["right"] = rank[p] - 1
          /\ edge2[p]["left"] = rank[x] + 1 /\ edge2[p]["right"] = edge[p]["right"]
          /\ edge2[x]["left"] = edge[p]["left"] /\ edge2[x]["right"] = edge[p]["right"]
      BY <2>1, <1>1, <1>3, <1>6, <1>7, SidesFacts
    <3> QED
      BY <3>1, <1>3, <1>6, <1>7
  <2>2. CASE s = "right"
    <3>1. /\ edge[x]["right"] = edge[p]["right"] /\ edge[x]["left"] = rank[p] + 1
          /\ edge2[p]["right"] = rank[x] - 1 /\ edge2[p]["left"] = edge[p]["left"]
          /\ edge2[x]["left"] = edge[p]["left"] /\ edge2[x]["right"] = edge[p]["right"]
      BY <2>2, <1>1, <1>3, <1>6, <1>7, SidesFacts
    <3> QED
      BY <3>1, <1>3, <1>6, <1>7
  <2> QED
    BY <2>1, <2>2, SidesFacts
<1>9. /\ \A m \in D : Parent(u, m) = IF m = x THEN g ELSE IF m = p THEN x
                                     ELSE IF m = c THEN p ELSE Parent(t, m)
      /\ \A m \in D, q \in Sides :
           Child(u, m, q) = IF m = p /\ q = s THEN c ELSE IF m = x /\ q = o THEN p
                            ELSE IF m = g /\ q = e THEN x ELSE Child(t, m, q)
      /\ u.root = IF g = None THEN x ELSE t.root
  BY <1>1, <1>2 DEF Turned
<1>10. \A m \in D, q \in Sides : Hangs(t, rank, edge, m, q)
  BY Fields DEF Placed
<1>11. Hangs(u, rank, edge2, p, s)
  <2>1. Child(u, p, s) = c /\ (c # None => Parent(u, c) = p)
    BY <1>4, <1>9
  <2>2. c # None => edge2[c] = edge[c]
    BY <1>4, <1>6
  <2>3. c = None => edge[x][o] = rank[x]
    BY <1>1, <1>3, <1>10 DEF Hangs
  <2>4. Dir(o) = - Dir(s) /\ Dir(s) \in {-1, 1} /\ Opposite(s) = o
    BY <1>1, SidesFacts
  <2>5. CASE c = None
    BY <2>1, <2>3, <2>4, <2>5, <1>3, <1>6, <1>7 DEF Hangs
  <2>6. CASE c # None
    BY <2>1, <2>2, <2>4, <2>6, <1>3, <1>4, <1>6, <1>7 DEF Hangs
  <2> QED
    BY <2>5, <2>6
<1>12. Hangs(u, rank, edge2, x, o)
  <2>1. Child(u, x, o) = p /\ Parent(u, p) = x /\ Opposite(o) = s
    BY <1>1, <1>3, <1>9, SidesFacts
  <2> QED
    BY <2>1, <1>1, <1>6 DEF Hangs
<1>13. ASSUME g # None PROVE Hangs(u, rank, edge2, g, e)
  <2>1. Child(u, g, e) = x /\ Parent(u, x) = g
    BY <1>3, <1>5, <1>9, <1>13
  <2>2. p # None /\ Child(t, g, e) = p /\ edge2[g] = edge[g]
    BY <1>2, <1>5, <1>6, <1>13
  <2> QED
    BY <2>1, <2>2, <1>5, <1>6, <1>10, <1>13, SidesFacts DEF Hangs
<1>14. ASSUME NEW m \in D, NEW q \in Sides, ~ (m = p /\ q = s), ~ (m = x /\ q = o),
              ~ (m = g /\ q = e)
       PROVE  Hangs(u, rank, edge2, m, q)
  <2>1. PICK d \in D \cup {None} : d = Child(t, m, q) /\ d = Child(u, m, q)
    BY <1>9, <1>14, Fields
  <2>2. edge2[m][q] = edge[m][q]
    <3>1. m = p => q = o
      BY <1>1, <1>14, SidesFacts
    <3>2. m = x => q = s
      BY <1>1, <1>14, SidesFacts
    <3>3. m # x /\ m # p => edge2[m] = edge[m]
      BY <1>6
    <3> QED
      BY <3>1, <3>2, <3>3, <1>3, <1>6
  <2>3. CASE d = None
    BY <2>1, <2>2, <2>3, <1>10 DEF Hangs
  <2>4. CASE d # None
    <3>1. /\ Parent(t, d) = m /\ edge[d][q] = edge[m][q]
          /\ edge[d][Opposite(q)] = rank[m] + Dir(q)
      BY <2>1, <2>4, <1>10 DEF Hangs
    <3>2. d # p /\ d # x /\ d # c
      BY <2>1, <2>4, <1>1, <1>2, <1>14, TurnedSlots
    <3>5. Parent(u, d) = m /\ edge2[d] = edge[d]
      BY <2>4, <3>1, <3>2, <1>6, <1>9
    <3> QED
      BY <2>1, <2>2, <2>4, <3>1, <3>5 DEF Hangs
  <2> QED
    BY <2>3, <2>4
<1>15. \A m \in D, q \in Sides : Hangs(u, rank, edge2, m, q)
  BY <1>11, <1>12, <1>13, <1>14
<1>16. ASSUME NEW m \in D PROVE m = u.root \/ Hung(u, m)
  <2>1. CASE m = x
    <3>1. g = None => m = u.root
      BY <2>1, <1>9
    <3>2. g # None => Parent(u, m) = g /\ Child(u, g, e) = m
      BY <2>1, <1>3, <1>5, <1>9
    <3> QED
      BY <3>1, <3>2 DEF Hung
  <2>2. CASE m = p
    <3>1. Parent(u, m) = x /\ Child(u, x, o) = m
      BY <2>2, <1>3, <1>9
    <3> QED
      BY <3>1, <1>3 DEF Hung
  <2>3. CASE m = c
    <3>1. Parent(u, m) = p /\ Child(u, p, s) = m
      BY <2>3, <1>4, <1>9
    <3> QED
      BY <3>1 DEF Hung
  <2>4. CASE m # x /\ m # p /\ m # c
    <3>1. Parent(u, m) = Parent(t, m)
      BY <2>4, <1>9
    <3>2. CASE m = t.root
      <4>1. g # None => u.root = t.root
        BY <1>9
      <4>2. g = None => p = t.root
        BY <1>2, ParentFacts
      <4> QED
        BY <4>1, <4>2, <3>2, <2>4
    <3>3. CASE m # t.root
      <4>1. PICK r : r = Parent(t, m)
        OBVIOUS
      <4>2. r # None /\ r \in D
        BY <3>3, <4>1, ParentFacts
      <4>3. PICK q \in Sides : Child(t, r, q) = m
        BY <3>3, <4>1, ParentFacts
      <4>4. Child(u, r, q) = m
        <5>1. ~ (r = p /\ q = s)
          BY <2>4, <4>3
        <5>2. ~ (r = x /\ q = o)
          BY <2>4, <4>3, <1>1
        <5>3. ~ (r = g /\ q = e)
          BY <2>4, <4>2, <4>3, <1>2
        <5> QED
          BY <5>1, <5>2, <5>3, <4>2, <4>3, <1>9
      <4> QED
        BY <3>1, <4>1, <4>2, <4>4 DEF Hung
    <3> QED
      BY <3>2, <3>3
  <2> QED
    BY <2>1, <2>2, <2>3, <2>4
<1>17. Rooted(u, edge2, len)
  <2>1. CASE g = None
    <3>1. p = t.root /\ p # None
      BY <1>2, <2>1, ParentFacts
    <3>2. edge[p]["left"] = 1 /\ edge[p]["right"] = len
      BY <3>1 DEF Placed, Rooted
    <3>3. u.root = x /\ Parent(u, x) = None
      BY <2>1, <1>3, <1>9
    <3> QED
      BY <3>2, <3>3, <1>3, <1>6, SidesFacts DEF Rooted
  <2>2. CASE g # None
    <3>1. u.root = t.root /\ p # t.root
      BY <2>2, <1>2, <1>9, ParentFacts
    <3>2. t.root # None
      BY <1>3, Fields DEF Placed, Rooted
    <3>3. t.root \in D /\ t.root # x /\ t.root # c
      BY <3>2, <1>3, <1>4, Fields
    <3>4. Parent(u, t.root) = Parent(t, t.root) /\ edge2[t.root] = edge[t.root]
      BY <3>1, <3>3, <1>6, <1>9
    <3> QED
      BY <3>1, <3>2, <3>4 DEF Placed, Rooted
  <2> QED
    BY <2>1, <2>2
<1>18. DOMAIN u.links = D
  BY Fields
<1> QED
  BY <1>6, <1>8, <1>15, <1>16, <1>17, <1>18 DEF Placed

(* A rotation that gives x the color and the height of p, and changes both   *)
(* of no node but p, x and y, leaves every subtree its weight and its color, *)
(* but for y and the two links between p, x and c.                           *)
LEMMA TurnedWeights ==
  ASSUME NEW D, None \notin D, NEW t \in Trees(D), NEW rank \in Ranks(D),
         NEW edge \in Edges(D), NEW len, Placed(t, rank, edge, len),
         NEW u \in Trees(D), NEW p \in D, NEW s \in Sides, NEW o \in Sides, o = Opposite(s),
         NEW x, x = Child(t, p, s), x # None,
         NEW c, c = Child(t, x, o), NEW g, g = Parent(t, p), NEW e \in Sides,
         g # None => Child(t, g, e) = p,
         Turned(D, t, u, p, s, x, c, e),
         NEW h, NEW h2, NEW y,
         \A m \in D : m # p /\ m # x /\ m # y => h2[m] = h[m] /\ Black(u, m) = Black(t, m),
         h2[x] = h[p], Black(u, x) = Black(t, p)
  PROVE  /\ \A m \in D, q \in Sides :
              \/ m = p /\ q = s
              \/ m = x /\ q = o
              \/ y \in D /\ Child(t, m, q) = y
              \/ /\ Weight(u, h2, Child(u, m, q)) = Weight(t, h, Child(t, m, q))
                 /\ (IsRed(u, Child(u, m, q)) <=> IsRed(t, Child(t, m, q)))
         /\ y \notin D \/ c # y => Weight(u, h2, c) = Weight(t, h, c) /\ (IsRed(u, c) <=> IsRed(t, c))
         /\ y \notin D \/ y # t.root => (IsRed(u, u.root) <=> IsRed(t, t.root))
<1>1. \A d \in D : Black(u, d) = Black(t, d) /\ h2[d] = h[d] =>
        Weight(u, h2, d) = Weight(t, h, d) /\ (IsRed(u, d) <=> IsRed(t, d))
  <2>1. \A d \in D : Black(u, d) = Black(t, d) => (IsRed(u, d) <=> IsRed(t, d))
    BY DEF IsRed, Black
  <2>2. \A d \in D : Black(u, d) = Black(t, d) /\ h2[d] = h[d] => Weight(u, h2, d) = Weight(t, h, d)
    BY DEF Weight
  <2> QED
    BY <2>1, <2>2
<1>2. Weight(u, h2, None) = Weight(t, h, None) /\ (IsRed(u, None) <=> IsRed(t, None))
  BY DEF Weight, IsRed
<1>3. x \in D /\ p \in D /\ Weight(u, h2, x) = Weight(t, h, p) /\ (IsRed(u, x) <=> IsRed(t, p))
  <2>1. x \in D
    BY Fields
  <2> QED
    BY <2>1 DEF Weight, IsRed, Black
<1>4. \A m \in D, q \in Sides :
        \/ m = p /\ q = s
        \/ m = x /\ q = o
        \/ m = g /\ q = e
        \/ /\ Child(u, m, q) = Child(t, m, q)
           /\ Child(t, m, q) # None =>
                Child(t, m, q) # p /\ Child(t, m, q) # x /\ Child(t, m, q) # c
  BY TurnedSlots
<1>5. g # None => Child(u, g, e) = x
  BY TurnedSlots
<1>6. x # t.root /\ (c # None => c \in D /\ c # x /\ c # p)
  <2>1. x \in D /\ x # t.root /\ \A q \in Sides : Child(t, x, q) # p
    BY ChildFacts
  <2> QED
    BY <2>1, ChildFacts
<1>7. ASSUME NEW m \in D, NEW q \in Sides, ~ (m = p /\ q = s), ~ (m = x /\ q = o),
             y \notin D \/ Child(t, m, q) # y
      PROVE  /\ Weight(u, h2, Child(u, m, q)) = Weight(t, h, Child(t, m, q))
             /\ (IsRed(u, Child(u, m, q)) <=> IsRed(t, Child(t, m, q)))
  <2>1. CASE m = g /\ q = e
    BY <2>1, <1>3, <1>5
  <2>2. CASE ~ (m = g /\ q = e)
    <3>1. PICK d \in D \cup {None} : d = Child(t, m, q) /\ d = Child(u, m, q)
      BY <2>2, <1>4, <1>7, Fields
    <3>2. d # None => Black(u, d) = Black(t, d) /\ h2[d] = h[d]
      BY <3>1, <2>2, <1>4, <1>7
    <3> QED
      BY <3>1, <3>2, <1>1, <1>2
  <2> QED
    BY <2>1, <2>2
<1>8. y \notin D \/ c # y => Weight(u, h2, c) = Weight(t, h, c) /\ (IsRed(u, c) <=> IsRed(t, c))
  BY <1>1, <1>2, <1>6
<1>9. ASSUME y \notin D \/ y # t.root PROVE (IsRed(u, u.root) <=> IsRed(t, t.root))
  <2>1. CASE g = None
    <3>1. u.root = x /\ t.root = p
      BY <2>1, ParentFacts DEF Turned
    <3> QED
      BY <3>1, <1>3
  <2>2. CASE g # None
    <3>1. u.root = t.root /\ t.root # p
      BY <2>2, ParentFacts DEF Turned
    <3>2. t.root # x
      BY <1>6
    <3>3. t.root \in D \cup {None}
      BY Fields
    <3> QED
      BY <3>1, <3>2, <3>3, <1>1, <1>2, <1>9
  <2> QED
    BY <2>1, <2>2
<1> QED
  BY <1>7, <1>8, <1>9

Kept(D, t, u, h, h2, p, x, y) ==
  /\ \A m \in D : m # p /\ m # x /\ m # y => h2[m] = h[m] /\ Black(u, m) = Black(t, m)
  /\ h2[x] = h[p] /\ Black(u, x) = Black(t, p)

Carried(D, t, u, h, h2, p, s, x, o, c, y) ==
  /\ \A m \in D, q \in Sides :
       \/ m = p /\ q = s
       \/ m = x /\ q = o
       \/ y \in D /\ Child(t, m, q) = y
       \/ /\ Weight(u, h2, Child(u, m, q)) = Weight(t, h, Child(t, m, q))
          /\ (IsRed(u, Child(u, m, q)) <=> IsRed(t, Child(t, m, q)))
  /\ y \notin D \/ c # y => Weight(u, h2, c) = Weight(t, h, c) /\ (IsRed(u, c) <=> IsRed(t, c))
  /\ y \notin D \/ y # t.root => (IsRed(u, u.root) <=> IsRed(t, t.root))

(* The same, in two words. *)
LEMMA TurnedCarried ==
  ASSUME NEW D, None \notin D, NEW t \in Trees(D), NEW rank \in Ranks(D),
         NEW edge \in Edges(D), NEW len, Placed(t, rank, edge, len),
         NEW u \in Trees(D), NEW p \in D, NEW s \in Sides, NEW o \in Sides, o = Opposite(s),
         NEW x, x = Child(t, p, s), x # None,
         NEW c, c = Child(t, x, o), NEW e \in Sides,
         Parent(t, p) # None => Child(t, Parent(t, p), e) = p,
         Turned(D, t, u, p, s, x, c, e),
         NEW h, NEW h2, NEW y, Kept(D, t, u, h, h2, p, x, y)
  PROVE  Carried(D, t, u, h, h2, p, s, x, o, c, y)
<1>1. /\ \A m \in D : m # p /\ m # x /\ m # y => h2[m] = h[m] /\ Black(u, m) = Black(t, m)
      /\ h2[x] = h[p] /\ Black(u, x) = Black(t, p)
  BY DEF Kept
<1>2. PICK g : g = Parent(t, p)
  OBVIOUS
<1> QED
  BY <1>1, <1>2, TurnedWeights, SMTT(30) DEF Carried

(* A tree that differs in colors only. *)
SameLinks(D, t, u) ==
  /\ u.root = t.root
  /\ \A m \in D : Parent(u, m) = Parent(t, m)
  /\ \A m \in D, q \in Sides : Child(u, m, q) = Child(t, m, q)

SameColors(D, t, u) == \A m \in D : Black(u, m) = Black(t, m)

(* The node that comes up in a rotation takes the color of the one that goes *)
(* down, which gets a color of its own; y turns black.                       *)
TurnedColors(D, t, u, p, x, black, y) ==
  \A m \in D : Black(u, m) = IF m = x THEN Black(t, p)
                             ELSE IF m = p THEN black ELSE m = y \/ Black(t, m)

SwappedColors(D, t, u, b, i) ==
  \A m \in D : Black(u, m) = IF m = i THEN TRUE ELSE IF m = b THEN FALSE ELSE Black(t, m)

(* w is t on the way to a rotation of g and its child y on side s: the links *)
(* between the two are set, and z has turned black.                          *)
Lifting(D, t, w, g, s, y, c, z) ==
  /\ w.root = t.root
  /\ \A m \in D : m # y => /\ Parent(w, m) = IF m = c THEN g ELSE Parent(t, m)
                           /\ Black(w, m) = (m = z \/ Black(t, m))
  /\ \A m \in D, q \in Sides :
       Child(w, m, q) = IF m = g /\ q = s THEN c
                        ELSE IF m = y /\ q = Opposite(s) THEN g ELSE Child(t, m, q)

Blackened(D, t, u, n) ==
  /\ u \in Trees(D) /\ SameLinks(D, t, u)
  /\ \A m \in D : Black(u, m) = (m = n \/ Black(t, m))

Reddened(D, t, u, n) ==
  /\ u \in Trees(D) /\ SameLinks(D, t, u)
  /\ \A m \in D : Black(u, m) = (m # n /\ Black(t, m))

Recolored(D, t, u, g, p, x) ==
  /\ SameLinks(D, t, u)
  /\ \A m \in D : Black(u, m) = (m # g /\ (m = p \/ m = x \/ Black(t, m)))

BlackPassed(D, t, u, b, p) ==
  /\ SameLinks(D, t, u)
  /\ \A m \in D : Black(u, m) = (m # b /\ (m = p \/ Black(t, m)))

(* The end of every rotation: w is t with y linked between g and its child c *)
(* already, and RotateSetParents does the rest.                              *)
LEMMA LiftLaw ==
  ASSUME NEW D, None \notin D, NEW t \in Trees(D), NEW w \in Trees(D),
         NEW g \in D, NEW y \in D, g # y, NEW s \in Sides, NEW e \in Sides,
         NEW c \in D \cup {None}, c # g, c # y,
         NEW p \in D \cup {None}, p = Parent(t, g), p # g, p # y,
         p # None => Child(t, p, e) = g /\ Child(t, p, Opposite(e)) # g,
         NEW z, z # g, Lifting(D, t, w, g, s, y, c, z), NEW black \in BOOLEAN, NEW u, u = RotateSetParents(w, g, y, black)
  PROVE  /\ u \in Trees(D) /\ Turned(D, t, u, g, s, y, c, e)
         /\ TurnedColors(D, t, u, g, y, black, z)
<1>0. /\ w.root = t.root
      /\ \A m \in D : m # y => /\ Parent(w, m) = IF m = c THEN g ELSE Parent(t, m)
                               /\ Black(w, m) = (m = z \/ Black(t, m))
      /\ \A m \in D, q \in Sides :
           Child(w, m, q) = IF m = g /\ q = s THEN c
                            ELSE IF m = y /\ q = Opposite(s) THEN g ELSE Child(t, m, q)
  BY DEF Lifting
<1> USE <1>0
<1>1. p = Parent(w, g)
  OBVIOUS
<1>2. p # None => Child(w, p, e) = g /\ Child(w, p, Opposite(e)) # g
  <2>1. Opposite(e) \in Sides
    BY SidesFacts
  <2> QED
    BY <2>1
<1>3. /\ u \in Trees(D) /\ u.root = IF p = None THEN y ELSE w.root
      /\ \A m \in D : /\ Parent(u, m) = IF m = y THEN p ELSE IF m = g THEN y ELSE Parent(w, m)
                      /\ Black(u, m) = IF m = y THEN Black(w, g)
                                       ELSE IF m = g THEN black ELSE Black(w, m)
      /\ \A m \in D, q \in Sides :
           Child(u, m, q) = IF m = p /\ q = e THEN y ELSE Child(w, m, q)
  BY <1>1, <1>2, RotateSetParentsLaw, Z3
<1>4. \A m \in D :
        Parent(u, m) = IF m = y THEN p ELSE IF m = g THEN y
                       ELSE IF m = c THEN g ELSE Parent(t, m)
  BY <1>3
<1>5. \A m \in D, q \in Sides :
        Child(u, m, q) = IF m = g /\ q = s THEN c ELSE IF m = y /\ q = Opposite(s) THEN g
                         ELSE IF m = p /\ q = e THEN y ELSE Child(t, m, q)
  BY <1>3
<1>6. Black(w, g) = Black(t, g)
  BY Fields
<1>7. \A m \in D : Black(u, m) = IF m = y THEN Black(t, g)
                                 ELSE IF m = g THEN black ELSE m = z \/ Black(t, m)
  BY <1>3, <1>6
<1> QED
  BY <1>3, <1>4, <1>5, <1>7 DEF Turned, TurnedColors

-----------------------------------------------------------------------------
(* The colors in Insert's loop. *)

(* Colors have no part in the places. *)
LEMMA SameLinksPlaced ==
  ASSUME NEW D, NEW t \in Trees(D), NEW u \in Trees(D), SameLinks(D, t, u),
         NEW rank, NEW edge, NEW len, Placed(t, rank, edge, len)
  PROVE  Placed(u, rank, edge, len)
<1>1. DOMAIN t.links = D /\ DOMAIN u.links = D
  BY Fields
<1>2. \A m \in D, q \in Sides : Child(u, m, q) \in D \cup {None}
  BY Fields
<1>3. ASSUME NEW m \in D, NEW q \in Sides PROVE Hangs(u, rank, edge, m, q)
  <2>1. Hangs(t, rank, edge, m, q)
    BY <1>1 DEF Placed
  <2>2. PICK d \in D \cup {None} : d = Child(u, m, q) /\ d = Child(t, m, q)
    BY <1>2 DEF SameLinks
  <2>3. d # None => Parent(u, d) = Parent(t, d)
    BY DEF SameLinks
  <2> QED
    BY <2>1, <2>2, <2>3 DEF Hangs
<1>4. ASSUME NEW m \in D PROVE m = u.root \/ Hung(u, m)
  <2>1. m = t.root \/ Hung(t, m)
    BY <1>1 DEF Placed
  <2>2. Parent(u, m) = Parent(t, m) /\ Parent(t, m) \in D \cup {None} /\ u.root = t.root
    BY Fields DEF SameLinks
  <2> QED
    BY <2>1, <2>2 DEF Hung, SameLinks
<1>5. Rooted(u, edge, len)
  <2>1. Rooted(t, edge, len) /\ u.root = t.root /\ t.root \in D \cup {None}
    BY Fields DEF Placed, SameLinks
  <2> QED
    BY <1>1, <2>1 DEF Rooted, SameLinks
<1> QED
  BY <1>1, <1>3, <1>4, <1>5 DEF Placed

(* What a node and its weight say of each other. *)
LEMMA WeightFacts ==
  ASSUME NEW D, None \notin D, NEW t \in Trees(D), NEW h \in Heights(D), NEW c \in D \cup {None}
  PROVE  /\ Weight(t, h, c) \in Nat
         /\ c = None => Weight(t, h, c) = 0 /\ ~ IsRed(t, c)
         /\ c # None => /\ c \in D /\ h[c] \in Nat
                        /\ IsRed(t, c) <=> ~ Black(t, c)
                        /\ IsRed(t, c) => Weight(t, h, c) = h[c]
                        /\ ~ IsRed(t, c) => Weight(t, h, c) = h[c] + 1
  BY DEF Weight, IsRed, Black, Heights

(* The parent of a red node under a red parent has a parent, which is black; *)
(* and the other children of these nodes are black.                          *)
LEMMA RisingFacts ==
  ASSUME NEW D, None \notin D, NEW t \in Trees(D), NEW rank \in Ranks(D),
         NEW edge \in Edges(D), NEW len, Placed(t, rank, edge, len), NEW h \in Heights(D),
         NEW n, NEW p, Rising(t, h, n, p), IsRed(t, p), NEW g, g = Parent(t, p)
  PROVE  /\ n \in D /\ p \in D /\ g \in D /\ n # p /\ n # g /\ p # g
         /\ p = Parent(t, n) /\ IsRed(t, n) /\ ~ IsRed(t, g)
         /\ n # t.root /\ p # t.root /\ ~ IsRed(t, t.root)
         /\ h[n] = h[p] /\ h[p] = h[g]
         /\ \A m \in D, q \in Sides : Even(t, h, m, q)
         /\ \A m \in D, q \in Sides : m # p \/ Child(t, m, q) # n => RedApart(t, m, q)
         /\ \E e \in Sides : Child(t, g, e) = p /\ Child(t, g, Opposite(e)) # p
         /\ \E e \in Sides : Child(t, p, e) = n /\ Child(t, p, Opposite(e)) # n
<1>1. DOMAIN t.links = D /\ p # None
  BY Fields DEF IsRed
<1>2. /\ n \in D /\ p = Parent(t, n) /\ IsRed(t, n)
      /\ \A m \in D, q \in Sides : Even(t, h, m, q) /\ (Child(t, m, q) # n => RedApart(t, m, q))
      /\ n # t.root => ~ IsRed(t, t.root)
  BY <1>1 DEF Rising
<1>3. /\ p \in D /\ p # n
      /\ \E e \in Sides : Child(t, p, e) = n /\ Child(t, p, Opposite(e)) # n
  BY <1>1, <1>2, ParentFacts
<1>4. n # t.root /\ ~ IsRed(t, t.root) /\ p # t.root
  BY <1>1, <1>2, ParentFacts
<1>5. /\ g # None /\ g \in D /\ g # p
      /\ \E e \in Sides : Child(t, g, e) = p /\ Child(t, g, Opposite(e)) # p
  BY <1>3, <1>4, ParentFacts
<1>6. PICK e \in Sides : Child(t, g, e) = p
  BY <1>5
<1>7. PICK f \in Sides : Child(t, p, f) = n
  BY <1>3
<1>8. g # n
  <2>1. \A q \in Sides : Child(t, p, q) # g
    BY <1>1, <1>5, <1>6, ChildFacts
  <2> QED
    BY <2>1, <1>7
<1>9. ~ IsRed(t, g)
  BY <1>2, <1>3, <1>5, <1>6 DEF RedApart
<1>10. h[n] = h[p] /\ h[p] = h[g]
  <2>1. Weight(t, h, n) = h[p] /\ Weight(t, h, p) = h[g]
    BY <1>2, <1>3, <1>5, <1>6, <1>7 DEF Even
  <2>2. Weight(t, h, n) = h[n] /\ Weight(t, h, p) = h[p]
    BY <1>2, <1>3, WeightFacts
  <2> QED
    BY <2>1, <2>2
<1>11. \A m \in D, q \in Sides : m # p \/ Child(t, m, q) # n => RedApart(t, m, q)
  <2>1. \A m \in D, q \in Sides : Child(t, m, q) = n => m = p
    BY <1>2, ChildFacts
  <2> QED
    BY <2>1, <1>2
<1> QED
  BY <1>2, <1>3, <1>4, <1>5, <1>8, <1>9, <1>10, <1>11

(* The rotation over the grandparent ends the loop: p, with node and g under *)
(* it, has the color of g.                                                   *)
LEMMA RotatedCalm ==
  ASSUME NEW D, None \notin D, NEW t \in Trees(D), NEW rank \in Ranks(D),
         NEW edge \in Edges(D), NEW len, Placed(t, rank, edge, len), NEW h \in Heights(D),
         NEW n, NEW p, Rising(t, h, n, p), IsRed(t, p), NEW g, g = Parent(t, p),
         NEW s \in Sides, NEW o \in Sides, o = Opposite(s),
         Child(t, g, s) = p, Child(t, p, s) = n, ~ IsRed(t, Child(t, g, o)),
         NEW c, c = Child(t, p, o), NEW e \in Sides,
         Parent(t, g) # None => Child(t, Parent(t, g), e) = g,
         NEW u \in Trees(D), Turned(D, t, u, g, s, p, c, e),
         TurnedColors(D, t, u, g, p, FALSE, c)
  PROVE  Calm(u, h)
<1>0. \A m \in D : Black(u, m) = IF m = p THEN Black(t, g)
                                ELSE IF m = g THEN FALSE ELSE m = c \/ Black(t, m)
  BY DEF TurnedColors
<1> USE <1>0
<1>1. /\ n \in D /\ p \in D /\ g \in D /\ n # p /\ n # g /\ p # g
      /\ p = Parent(t, n) /\ IsRed(t, n) /\ ~ IsRed(t, g)
      /\ n # t.root /\ p # t.root /\ ~ IsRed(t, t.root)
      /\ h[n] = h[p] /\ h[p] = h[g]
      /\ \A m \in D, q \in Sides : Even(t, h, m, q)
      /\ \A m \in D, q \in Sides : m # p \/ Child(t, m, q) # n => RedApart(t, m, q)
  BY RisingFacts
<1>2. c \in D \cup {None} /\ c # n /\ ~ IsRed(t, c) /\ Weight(t, h, c) = h[p]
  <2>1. c # n
    BY <1>1, ChildFacts
  <2>2. RedApart(t, p, o) /\ Even(t, h, p, o)
    BY <1>1, <2>1
  <2> QED
    BY <1>1, <2>1, <2>2, Fields DEF RedApart, Even
<1>3. c # g /\ c # p
  BY <1>1, ChildFacts
<1>4. \A m \in D : m # g /\ m # p => h[m] = h[m] /\ Black(u, m) = Black(t, m)
  <2>1. c # None => Black(t, c)
    BY <1>2, WeightFacts
  <2>2. \A m \in D : Black(t, m) \in BOOLEAN
    BY Fields
  <2> QED
    BY <2>1, <2>2
<1>5. Black(u, p) = Black(t, g) /\ Black(u, g) = FALSE
  BY <1>1, <1>3
<1>6. /\ \A m \in D, q \in Sides :
           \/ m = g /\ q = s
           \/ m = p /\ q = o
           \/ /\ Weight(u, h, Child(u, m, q)) = Weight(t, h, Child(t, m, q))
              /\ (IsRed(u, Child(u, m, q)) <=> IsRed(t, Child(t, m, q)))
      /\ Weight(u, h, c) = Weight(t, h, c) /\ (IsRed(u, c) <=> IsRed(t, c))
      /\ (IsRed(u, u.root) <=> IsRed(t, t.root))
  <2>1. p # None /\ \A m \in D : m # g /\ m # p /\ m # None => h[m] = h[m] /\ Black(u, m) = Black(t, m)
    BY <1>1, <1>4
  <2>2. PICK r : r = Parent(t, g)
    OBVIOUS
  <2>3. /\ \A m \in D, q \in Sides :
             \/ m = g /\ q = s
             \/ m = p /\ q = o
             \/ None \in D /\ Child(t, m, q) = None
             \/ /\ Weight(u, h, Child(u, m, q)) = Weight(t, h, Child(t, m, q))
                /\ (IsRed(u, Child(u, m, q)) <=> IsRed(t, Child(t, m, q)))
        /\ None \notin D \/ c # None => Weight(u, h, c) = Weight(t, h, c) /\ (IsRed(u, c) <=> IsRed(t, c))
        /\ None \notin D \/ None # t.root => (IsRed(u, u.root) <=> IsRed(t, t.root))
    BY <1>1, <1>5, <2>1, <2>2, TurnedWeights
  <2> QED
    BY <2>3
<1>7. Child(u, g, s) = c /\ Child(u, p, o) = g
  BY <1>1, <1>3 DEF Turned
<1>8. \A m \in D : IsRed(u, m) <=> ~ Black(u, m)
  BY DEF IsRed, Black
<1>9. \A m \in D : IsRed(t, m) <=> ~ Black(t, m)
  BY DEF IsRed, Black
<1>10. ASSUME NEW m \in D, NEW q \in Sides PROVE Even(u, h, m, q)
  <2>1. CASE m = g /\ q = s
    BY <2>1, <1>1, <1>2, <1>6, <1>7 DEF Even
  <2>2. CASE m = p /\ q = o
    <3>1. Weight(u, h, g) = h[g]
      BY <1>1, <1>5 DEF Weight
    <3> QED
      BY <2>2, <3>1, <1>1, <1>7 DEF Even
  <2>3. CASE ~ (m = g /\ q = s) /\ ~ (m = p /\ q = o)
    BY <2>3, <1>1, <1>6 DEF Even
  <2> QED
    BY <2>1, <2>2, <2>3
<1>11. ASSUME NEW m \in D, NEW q \in Sides PROVE RedApart(u, m, q)
  <2>1. CASE m = g
    <3>1. q = s \/ q = o
      BY SidesFacts
    <3>2. CASE q = s
      BY <2>1, <3>2, <1>2, <1>6, <1>7 DEF RedApart
    <3>3. CASE q = o
      <4>1. s # o
        BY SidesFacts
      <4> QED
        BY <2>1, <3>3, <4>1, <1>1, <1>6 DEF RedApart
    <3> QED
      BY <3>1, <3>2, <3>3
  <2>2. CASE m = p
    BY <2>2, <1>1, <1>5, <1>8, <1>9 DEF RedApart
  <2>3. CASE m # g /\ m # p
    <3>1. RedApart(t, m, q)
      BY <2>3, <1>1
    <3> QED
      BY <2>3, <3>1, <1>4, <1>6, <1>8, <1>9 DEF RedApart
  <2> QED
    BY <2>1, <2>2, <2>3
<1> QED
  BY <1>1, <1>6, <1>10, <1>11, Fields DEF Calm

(* The rotation that takes node over its parent leaves the same case with    *)
(* the two in exchanged roles.                                               *)
LEMMA StraightenedRising ==
  ASSUME NEW D, None \notin D, NEW t \in Trees(D), NEW rank \in Ranks(D),
         NEW edge \in Edges(D), NEW len, Placed(t, rank, edge, len), NEW h \in Heights(D),
         NEW n, NEW p, Rising(t, h, n, p), IsRed(t, p), NEW g, g = Parent(t, p),
         NEW s \in Sides, NEW o \in Sides, o = Opposite(s),
         Child(t, g, s) = p, Child(t, p, o) = n, ~ IsRed(t, Child(t, g, o)),
         NEW c, c = Child(t, n, s),
         NEW v \in Trees(D), Turned(D, t, v, p, o, n, c, s),
         SameColors(D, t, v)
  PROVE  /\ Rising(v, h, p, n) /\ IsRed(v, n) /\ Parent(v, n) = g
         /\ Child(v, g, s) = n /\ Child(v, n, s) = p /\ ~ IsRed(v, Child(v, g, o))
         /\ Parent(v, g) = Parent(t, g)
<1>0. \A m \in D : Black(v, m) = Black(t, m)
  BY DEF SameColors
<1> USE <1>0
<1>1. /\ n \in D /\ p \in D /\ g \in D /\ n # p /\ n # g /\ p # g
      /\ p = Parent(t, n) /\ IsRed(t, n) /\ ~ IsRed(t, g)
      /\ n # t.root /\ p # t.root /\ ~ IsRed(t, t.root)
      /\ h[n] = h[p] /\ h[p] = h[g]
      /\ \A m \in D, q \in Sides : Even(t, h, m, q)
      /\ \A m \in D, q \in Sides : m # p \/ Child(t, m, q) # n => RedApart(t, m, q)
  BY RisingFacts
<1>2. s = Opposite(o) /\ s # o
  BY SidesFacts
<1>3. c \in D \cup {None} /\ c # p /\ c # n /\ c # g
  <2>1. c # p /\ (c # None => c \in D /\ c # n)
    BY <1>1, ChildFacts
  <2>4. Child(t, n, s) # g
    <3>1. SUFFICES ASSUME c = g PROVE FALSE
      OBVIOUS
    <3>2. edge[g][s] = edge[n][s]
      <4>1. g = Child(t, n, s) /\ g # None /\ n \in D
        BY <1>1, <3>1
      <4> QED
        BY <4>1, ChildFacts
    <3>3. edge[n][s] = rank[p] + Dir(o)
      BY <1>1, <1>2, ChildFacts
    <3>4. edge[p][s] = edge[g][s]
      BY <1>1, ChildFacts
    <3>5. /\ rank[p] \in Int /\ edge[p]["left"] <= rank[p] /\ rank[p] <= edge[p]["right"]
          /\ edge[p]["left"] \in Int /\ edge[p]["right"] \in Int
      BY <1>1, Fields DEF Placed, Ranks, Edges, Sides
    <3>6. CASE s = "left"
      BY <3>2, <3>3, <3>4, <3>5, <3>6, SidesFacts
    <3>7. CASE s = "right"
      BY <3>2, <3>3, <3>4, <3>5, <3>7, SidesFacts
    <3> QED
      BY <3>6, <3>7, SidesFacts
  <2> QED
    BY <1>1, <2>1, <2>4
<1>4. /\ Child(v, p, o) = c /\ Child(v, n, s) = p /\ Child(v, g, s) = n
      /\ Child(v, g, o) = Child(t, g, o)
      /\ Parent(v, n) = g /\ Parent(v, p) = n /\ Parent(v, g) = Parent(t, g)
      /\ v.root = t.root
  BY <1>1, <1>2, <1>3 DEF Turned
<1>5. \A m \in D : IsRed(v, m) <=> IsRed(t, m)
  BY DEF IsRed, Black
<1>6. /\ \A m \in D, q \in Sides :
           \/ m = p /\ q = o
           \/ m = n /\ q = s
           \/ /\ Weight(v, h, Child(v, m, q)) = Weight(t, h, Child(t, m, q))
              /\ (IsRed(v, Child(v, m, q)) <=> IsRed(t, Child(t, m, q)))
      /\ Weight(v, h, c) = Weight(t, h, c) /\ (IsRed(v, c) <=> IsRed(t, c))
      /\ (IsRed(v, v.root) <=> IsRed(t, t.root))
  <2>1. n # None /\ \A m \in D : m # p /\ m # n /\ m # None => h[m] = h[m] /\ Black(v, m) = Black(t, m)
    BY <1>1
  <2>2. Black(v, n) = Black(t, p)
    BY <1>1, WeightFacts, Fields
  <2>3. /\ \A m \in D, q \in Sides :
             \/ m = p /\ q = o
             \/ m = n /\ q = s
             \/ None \in D /\ Child(t, m, q) = None
             \/ /\ Weight(v, h, Child(v, m, q)) = Weight(t, h, Child(t, m, q))
                /\ (IsRed(v, Child(v, m, q)) <=> IsRed(t, Child(t, m, q)))
        /\ None \notin D \/ c # None => Weight(v, h, c) = Weight(t, h, c) /\ (IsRed(v, c) <=> IsRed(t, c))
        /\ None \notin D \/ None # t.root => (IsRed(v, v.root) <=> IsRed(t, t.root))
    BY <1>1, <1>2, <2>1, <2>2, TurnedWeights
  <2> QED
    BY <2>3
<1>7. ~ IsRed(t, c) /\ Weight(t, h, c) = h[n]
  BY <1>1 DEF RedApart, Even
<1>8. ASSUME NEW m \in D, NEW q \in Sides PROVE Even(v, h, m, q)
  <2>1. CASE m = p /\ q = o
    BY <2>1, <1>1, <1>4, <1>6, <1>7 DEF Even
  <2>2. CASE m = n /\ q = s
    <3>1. Weight(v, h, p) = h[p]
      BY <1>1, <1>5, WeightFacts
    <3> QED
      BY <2>2, <3>1, <1>1, <1>4 DEF Even
  <2>3. CASE ~ (m = p /\ q = o) /\ ~ (m = n /\ q = s)
    BY <2>3, <1>1, <1>6 DEF Even
  <2> QED
    BY <2>1, <2>2, <2>3
<1>9. ASSUME NEW m \in D, NEW q \in Sides, Child(v, m, q) # p PROVE RedApart(v, m, q)
  <2>1. CASE m = p /\ q = o
    BY <2>1, <1>4, <1>6, <1>7 DEF RedApart
  <2>2. ~ (m = n /\ q = s)
    BY <1>4, <1>9
  <2>3. CASE ~ (m = p /\ q = o)
    <3>1. RedApart(t, m, q)
      <4>1. m = p => q = s
        BY <2>3, SidesFacts
      <4>2. Child(t, p, s) # n
        BY <1>1, <1>2, ChildFacts
      <4> QED
        BY <4>1, <4>2, <1>1
    <3> QED
      BY <2>2, <2>3, <3>1, <1>5, <1>6 DEF RedApart
  <2> QED
    BY <2>1, <2>3
<1>10. ~ IsRed(v, Child(v, g, o))
  BY <1>1, <1>2, <1>6
<1> QED
  BY <1>1, <1>4, <1>5, <1>6, <1>8, <1>9, <1>10, Fields DEF Rising

(* Recoloring moves the red node that may be under a red one two levels up.  *)
LEMMA RecoloredRising ==
  ASSUME NEW D, None \notin D, NEW t \in Trees(D), NEW rank \in Ranks(D),
         NEW edge \in Edges(D), NEW len, Placed(t, rank, edge, len), NEW h \in Heights(D),
         NEW n, NEW p, Rising(t, h, n, p), IsRed(t, p), NEW g, g = Parent(t, p),
         NEW s \in Sides, NEW o \in Sides, o = Opposite(s),
         Child(t, g, s) = p, NEW x, x = Child(t, g, o), IsRed(t, x),
         NEW u \in Trees(D), Recolored(D, t, u, g, p, x),
         NEW h2, h2 = [h EXCEPT ![g] = h[g] + 1]
  PROVE  h2 \in Heights(D) /\ Rising(u, h2, g, Parent(u, g))
<1>0. /\ SameLinks(D, t, u)
      /\ \A m \in D : Black(u, m) = (m # g /\ (m = p \/ m = x \/ Black(t, m)))
  BY DEF Recolored
<1> USE <1>0
<1>1. /\ n \in D /\ p \in D /\ g \in D /\ n # p /\ n # g /\ p # g
      /\ p = Parent(t, n) /\ IsRed(t, n) /\ ~ IsRed(t, g)
      /\ n # t.root /\ p # t.root /\ ~ IsRed(t, t.root)
      /\ h[n] = h[p] /\ h[p] = h[g]
      /\ \A m \in D, q \in Sides : Even(t, h, m, q)
      /\ \A m \in D, q \in Sides : m # p \/ Child(t, m, q) # n => RedApart(t, m, q)
  BY RisingFacts
<1>2. x \in D /\ x # g /\ x # p /\ x # t.root /\ Parent(t, x) = g
  <2>1. x # None
    BY DEF IsRed
  <2>2. x # Child(t, g, Opposite(o)) /\ Opposite(o) = s
    BY <1>1, <2>1, ChildFacts, SidesFacts
  <2> QED
    BY <1>1, <2>1, <2>2, ChildFacts
<1>3. /\ h2 \in Heights(D) /\ h2[g] = h[g] + 1 /\ \A m \in D : m # g => h2[m] = h[m]
      /\ \A m \in D : h[m] \in Nat
  BY <1>1 DEF Heights
<1>4. /\ \A m \in D : IsRed(u, m) <=> ~ Black(u, m)
      /\ \A m \in D : IsRed(t, m) <=> ~ Black(t, m)
      /\ \A m \in D : Black(t, m) \in BOOLEAN
      /\ ~ IsRed(u, None) /\ ~ IsRed(t, None)
  BY Fields DEF IsRed, Black
<1>5. \A m \in D \cup {None} : m # g /\ m # p /\ m # x =>
        (IsRed(u, m) <=> IsRed(t, m)) /\ Weight(u, h2, m) = Weight(t, h, m)
  <2>1. \A m \in D : m # g /\ m # p /\ m # x => Black(u, m) = Black(t, m)
    BY <1>4
  <2> QED
    BY <2>1, <1>3, <1>4 DEF Weight
<1>6. Weight(u, h2, g) = Weight(t, h, g) /\ IsRed(u, g)
  <2>1. Black(u, g) = FALSE /\ Black(t, g)
    BY <1>1, <1>4
  <2> QED
    BY <2>1, <1>1, <1>3, <1>4 DEF Weight
<1>7. /\ Weight(u, h2, p) = h2[g] /\ Weight(u, h2, x) = h2[g]
      /\ ~ IsRed(u, p) /\ ~ IsRed(u, x)
  <2>1. Black(u, p) /\ Black(u, x)
    BY <1>1, <1>2
  <2>2. h[x] = h[g]
    <3>1. Weight(t, h, x) = h[g]
      BY <1>1 DEF Even
    <3> QED
      BY <3>1, <1>2, WeightFacts
  <2> QED
    BY <2>1, <2>2, <1>1, <1>2, <1>3, <1>4 DEF Weight
<1>8. \A m \in D, q \in Sides : m # g => Child(t, m, q) # p /\ Child(t, m, q) # x
  <2>1. \A m \in D, q \in Sides : Child(t, m, q) # None => Parent(t, Child(t, m, q)) = m
    BY ChildFacts
  <2> QED
    BY <2>1, <1>1, <1>2
<1>9. \A m \in D, q \in Sides : Child(u, m, q) = Child(t, m, q) /\ Child(t, m, q) \in D \cup {None}
  BY Fields DEF SameLinks
<1>10. \A q \in Sides : Child(t, g, q) = p \/ Child(t, g, q) = x
  BY SidesFacts
<1>11. ASSUME NEW m \in D, NEW q \in Sides PROVE Even(u, h2, m, q)
  <2>1. CASE m = g
    BY <2>1, <1>7, <1>9, <1>10 DEF Even
  <2>2. CASE m # g
    <3>1. Weight(u, h2, Child(u, m, q)) = Weight(t, h, Child(t, m, q))
      BY <2>2, <1>5, <1>6, <1>8, <1>9
    <3> QED
      BY <2>2, <3>1, <1>1, <1>3 DEF Even
  <2> QED
    BY <2>1, <2>2
<1>12. ASSUME NEW m \in D, NEW q \in Sides, Child(u, m, q) # g PROVE RedApart(u, m, q)
  <2>1. CASE m = g
    BY <2>1, <1>7, <1>9, <1>10 DEF RedApart
  <2>2. CASE m = p \/ m = x
    BY <2>2, <1>7 DEF RedApart
  <2>3. CASE m # g /\ m # p /\ m # x
    <3>1. RedApart(t, m, q)
      BY <2>3, <1>1
    <3>2. IsRed(u, m) <=> IsRed(t, m)
      BY <2>3, <1>5
    <3>3. IsRed(u, Child(u, m, q)) <=> IsRed(t, Child(t, m, q))
      BY <2>3, <1>5, <1>8, <1>9, <1>12
    <3> QED
      BY <3>1, <3>2, <3>3 DEF RedApart
  <2> QED
    BY <2>1, <2>2, <2>3
<1>13. g # u.root => ~ IsRed(u, u.root)
  BY <1>1, <1>2, <1>5, Fields DEF SameLinks
<1> QED
  BY <1>1, <1>3, <1>6, <1>11, <1>12, <1>13, Fields DEF Rising

(* Under a black parent the loop is done. *)
LEMMA RisingSettles ==
  ASSUME NEW D, None \notin D, NEW t \in Trees(D), NEW rank \in Ranks(D),
         NEW edge \in Edges(D), NEW len, Placed(t, rank, edge, len), NEW h,
         NEW n, NEW p, Rising(t, h, n, p), p # None, ~ IsRed(t, p)
  PROVE  Calm(t, h)
<1>1. DOMAIN t.links = D
  BY Fields
<1>2. /\ n \in D /\ p = Parent(t, n)
      /\ \A m \in D, q \in Sides : Even(t, h, m, q) /\ (Child(t, m, q) # n => RedApart(t, m, q))
      /\ n # t.root => ~ IsRed(t, t.root)
  BY <1>1 DEF Rising
<1>3. \A m \in D, q \in Sides : Child(t, m, q) = n => m = p
  BY <1>2, ChildFacts
<1>4. \A m \in D, q \in Sides : RedApart(t, m, q)
  BY <1>2, <1>3 DEF RedApart
<1>5. n # t.root
  BY <1>2, ParentFacts
<1> QED
  BY <1>1, <1>2, <1>4, <1>5 DEF Calm

(* The root turns black. *)
LEMMA RootSettles ==
  ASSUME NEW D, None \notin D, NEW t \in Trees(D), NEW rank \in Ranks(D),
         NEW edge \in Edges(D), NEW len, Placed(t, rank, edge, len), NEW h,
         NEW n, Rising(t, h, n, None),
         NEW u \in Trees(D), Blackened(D, t, u, n)
  PROVE  Calm(u, h)
<1>0. /\ SameLinks(D, t, u)
      /\ \A m \in D : Black(u, m) = (m = n \/ Black(t, m))
  BY DEF Blackened
<1> USE <1>0
<1>1. DOMAIN t.links = D /\ DOMAIN u.links = D
  BY Fields
<1>2. /\ n \in D /\ None = Parent(t, n)
      /\ \A m \in D, q \in Sides : Even(t, h, m, q) /\ (Child(t, m, q) # n => RedApart(t, m, q))
  BY <1>1 DEF Rising
<1>3. n = t.root
  BY <1>2, ParentFacts
<1>4. \A m \in D, q \in Sides : Child(t, m, q) # n
  BY <1>2, ChildFacts
<1>5. \A m \in D : m # n => Black(u, m) = Black(t, m)
  BY Fields
<1>6. \A m \in D \cup {None} : m # n =>
        (IsRed(u, m) <=> IsRed(t, m)) /\ Weight(u, h, m) = Weight(t, h, m)
  <2>1. \A m \in D \cup {None} : m # n => (IsRed(u, m) <=> IsRed(t, m))
    BY <1>5 DEF IsRed, Black
  <2>2. \A m \in D \cup {None} : m # n => Weight(u, h, m) = Weight(t, h, m)
    BY <1>5 DEF Weight
  <2> QED
    BY <2>1, <2>2
<1>7. ~ IsRed(u, n)
  BY <1>2 DEF IsRed, Black
<1>8. \A m \in D, q \in Sides : Child(u, m, q) = Child(t, m, q) /\ Child(t, m, q) \in D \cup {None}
  BY Fields DEF SameLinks
<1>9. ASSUME NEW m \in D, NEW q \in Sides PROVE Even(u, h, m, q) /\ RedApart(u, m, q)
  <2>1. Even(t, h, m, q) /\ RedApart(t, m, q)
    BY <1>2, <1>4
  <2>2. /\ Weight(u, h, Child(u, m, q)) = Weight(t, h, Child(t, m, q))
        /\ (IsRed(u, Child(u, m, q)) <=> IsRed(t, Child(t, m, q)))
    BY <1>4, <1>6, <1>8
  <2>3. IsRed(u, m) => IsRed(t, m)
    BY <1>6, <1>7
  <2> QED
    BY <2>1, <2>2, <2>3 DEF Even, RedApart
<1> QED
  BY <1>1, <1>3, <1>7, <1>9 DEF Calm, SameLinks

-----------------------------------------------------------------------------
(* The colors in Erase's loop. *)

(* The sibling is there, and heavier by one black node. *)
LEMMA LackingFacts ==
  ASSUME NEW D, None \notin D, NEW t \in Trees(D), NEW rank \in Ranks(D),
         NEW edge \in Edges(D), NEW len, Placed(t, rank, edge, len), NEW h \in Heights(D),
         NEW n, NEW p, NEW o \in Sides, Lacking(t, h, n, p, o),
         NEW s \in Sides, s = Opposite(o), NEW b, b = Child(t, p, s)
  PROVE  /\ p \in D /\ n = Child(t, p, o) /\ n \in D \cup {None}
         /\ b \in D /\ b # p /\ b # n /\ b # t.root /\ Parent(t, b) = p
         /\ Weight(t, h, n) + 1 = h[p] /\ Weight(t, h, b) = h[p] /\ Weight(t, h, n) \in Nat
         /\ \A m \in D, q \in Sides : (m # p \/ q # o) => Even(t, h, m, q)
         /\ \A m \in D, q \in Sides : RedApart(t, m, q)
         /\ ~ IsRed(t, n) /\ ~ IsRed(t, t.root)
         /\ o = Opposite(s) /\ s # o
<1>1. DOMAIN t.links = D
  BY Fields
<1>2. /\ p \in D /\ n = Child(t, p, o)
      /\ Weight(t, h, n) + 1 = h[p]
      /\ \A m \in D, q \in Sides : ((m # p \/ q # o) => Even(t, h, m, q)) /\ RedApart(t, m, q)
      /\ ~ IsRed(t, n) /\ ~ IsRed(t, t.root)
  BY <1>1 DEF Lacking
<1>3. n \in D \cup {None} /\ Weight(t, h, n) \in Nat
  BY <1>2, Fields, WeightFacts
<1>4. o = Opposite(s) /\ s # o
  BY SidesFacts
<1>5. Weight(t, h, b) = h[p]
  BY <1>2, <1>4 DEF Even
<1>6. b # None
  BY <1>2, <1>3, <1>5, WeightFacts
<1>7. b \in D /\ b # p /\ b # t.root /\ Parent(t, b) = p /\ b # Child(t, p, Opposite(s))
  BY <1>2, <1>6, ChildFacts
<1> QED
  BY <1>2, <1>3, <1>4, <1>5, <1>7

(* A red sibling comes up over the parent; the new sibling is black.         *)
LEMMA RedSiblingLifted ==
  ASSUME NEW D, None \notin D, NEW t \in Trees(D), NEW rank \in Ranks(D),
         NEW edge \in Edges(D), NEW len, Placed(t, rank, edge, len), NEW h \in Heights(D),
         NEW n, NEW p, NEW o \in Sides, Lacking(t, h, n, p, o),
         NEW s \in Sides, s = Opposite(o), NEW b, b = Child(t, p, s), IsRed(t, b),
         NEW c, c = Child(t, b, o), NEW e \in Sides,
         Parent(t, p) # None => Child(t, Parent(t, p), e) = p,
         NEW u \in Trees(D), Turned(D, t, u, p, s, b, c, e),
         TurnedColors(D, t, u, p, b, FALSE, c)
  PROVE  Lacking(u, h, n, p, o) /\ ~ IsRed(u, Child(u, p, s))
<1>0. \A m \in D : Black(u, m) = IF m = b THEN Black(t, p)
                                ELSE IF m = p THEN FALSE ELSE m = c \/ Black(t, m)
  BY DEF TurnedColors
<1> USE <1>0
<1>1. /\ p \in D /\ n = Child(t, p, o) /\ n \in D \cup {None}
      /\ b \in D /\ b # p /\ b # n /\ b # t.root /\ Parent(t, b) = p
      /\ Weight(t, h, n) + 1 = h[p] /\ Weight(t, h, b) = h[p] /\ Weight(t, h, n) \in Nat
      /\ \A m \in D, q \in Sides : (m # p \/ q # o) => Even(t, h, m, q)
      /\ \A m \in D, q \in Sides : RedApart(t, m, q)
      /\ ~ IsRed(t, n) /\ ~ IsRed(t, t.root)
      /\ o = Opposite(s) /\ s # o
  BY LackingFacts
<1>2. h[b] = h[p] /\ ~ IsRed(t, p)
  BY <1>1, WeightFacts DEF RedApart
<1>3. c \in D \cup {None} /\ Weight(t, h, c) = h[p] /\ ~ IsRed(t, c) /\ c # p /\ c # b
  <2>1. Weight(t, h, c) = h[p] /\ ~ IsRed(t, c)
    BY <1>1, <1>2 DEF Even, RedApart
  <2>2. c # p
    BY <1>1, ChildFacts
  <2>3. c # b
    BY <1>1, ChildFacts
  <2> QED
    BY <1>1, <2>1, <2>2, <2>3, Fields
<1>4. \A m \in D : m # p /\ m # b => h[m] = h[m] /\ Black(u, m) = Black(t, m)
  <2>1. c # None => Black(t, c)
    BY <1>3, WeightFacts
  <2>2. \A m \in D : Black(t, m) \in BOOLEAN
    BY Fields
  <2> QED
    BY <2>1, <2>2
<1>5. Black(u, b) = Black(t, p) /\ Black(u, p) = FALSE
  BY <1>1
<1>6. /\ \A m \in D, q \in Sides :
           \/ m = p /\ q = s
           \/ m = b /\ q = o
           \/ /\ Weight(u, h, Child(u, m, q)) = Weight(t, h, Child(t, m, q))
              /\ (IsRed(u, Child(u, m, q)) <=> IsRed(t, Child(t, m, q)))
      /\ Weight(u, h, c) = Weight(t, h, c) /\ (IsRed(u, c) <=> IsRed(t, c))
      /\ (IsRed(u, u.root) <=> IsRed(t, t.root))
  <2>1. b # None /\ \A m \in D : m # p /\ m # b /\ m # None => h[m] = h[m] /\ Black(u, m) = Black(t, m)
    BY <1>1, <1>4
  <2>2. PICK g : g = Parent(t, p)
    OBVIOUS
  <2>3. /\ \A m \in D, q \in Sides :
             \/ m = p /\ q = s
             \/ m = b /\ q = o
             \/ None \in D /\ Child(t, m, q) = None
             \/ /\ Weight(u, h, Child(u, m, q)) = Weight(t, h, Child(t, m, q))
                /\ (IsRed(u, Child(u, m, q)) <=> IsRed(t, Child(t, m, q)))
        /\ None \notin D \/ c # None => Weight(u, h, c) = Weight(t, h, c) /\ (IsRed(u, c) <=> IsRed(t, c))
        /\ None \notin D \/ None # t.root => (IsRed(u, u.root) <=> IsRed(t, t.root))
    BY <1>1, <1>2, <1>5, <2>1, <2>2, TurnedWeights
  <2> QED
    BY <2>3
<1>7. Child(u, p, s) = c /\ Child(u, b, o) = p /\ Child(u, p, o) = n
  <2>1. p # Parent(t, p)
    BY <1>1, ParentFacts
  <2> QED
    BY <1>1, <2>1 DEF Turned
<1>12. Weight(u, h, n) = Weight(t, h, n) /\ ~ IsRed(u, n)
  BY <1>1, <1>6, <1>7
<1>8. /\ \A m \in D : IsRed(u, m) <=> ~ Black(u, m)
      /\ \A m \in D : IsRed(t, m) <=> ~ Black(t, m)
  BY DEF IsRed, Black
<1>9. Weight(u, h, p) = h[p] /\ IsRed(u, p)
  BY <1>1, <1>5, <1>8 DEF Weight
<1>10. ASSUME NEW m \in D, NEW q \in Sides, m # p \/ q # o PROVE Even(u, h, m, q)
  <2>1. CASE m = p /\ q = s
    BY <2>1, <1>3, <1>6, <1>7 DEF Even
  <2>2. CASE m = b /\ q = o
    BY <2>2, <1>2, <1>7, <1>9 DEF Even
  <2>3. CASE ~ (m = p /\ q = s) /\ ~ (m = b /\ q = o)
    BY <2>3, <1>1, <1>6, <1>10 DEF Even
  <2> QED
    BY <2>1, <2>2, <2>3
<1>11. ASSUME NEW m \in D, NEW q \in Sides PROVE RedApart(u, m, q)
  <2>1. CASE m = p
    <3>1. CASE q = s
      BY <2>1, <3>1, <1>3, <1>6, <1>7 DEF RedApart
    <3>2. CASE q = o
      BY <2>1, <3>2, <1>7, <1>12 DEF RedApart
    <3> QED
      BY <3>1, <3>2, SidesFacts
  <2>2. CASE m = b
    BY <2>2, <1>1, <1>2, <1>5, <1>8 DEF RedApart
  <2>3. CASE m # p /\ m # b
    <3>1. RedApart(t, m, q)
      BY <1>1
    <3> QED
      BY <2>3, <3>1, <1>4, <1>6, <1>8 DEF RedApart
  <2> QED
    BY <2>1, <2>2, <2>3
<1> QED
  BY <1>1, <1>3, <1>6, <1>7, <1>9, <1>10, <1>11, <1>12, Fields DEF Lacking

Passed(D, t, u, h, h2, p) ==
  /\ h2 \in Heights(D)
  /\ \A m \in D, q \in Sides : RedApart(u, m, q)
  /\ \A m \in D, q \in Sides : (IsRed(t, p) \/ Child(t, m, q) # p) => Even(u, h2, m, q)
  /\ ~ IsRed(t, p) => Weight(u, h2, p) + 1 = Weight(t, h, p)
  /\ ~ IsRed(u, p) /\ ~ IsRed(u, u.root)

(* No nephew is red: the sibling turns red, and the parent either turns      *)
(* black or is the next to lack a black node.                                *)
LEMMA SiblingReddened ==
  ASSUME NEW D, None \notin D, NEW t \in Trees(D), NEW rank \in Ranks(D),
         NEW edge \in Edges(D), NEW len, Placed(t, rank, edge, len), NEW h \in Heights(D),
         NEW n, NEW p, NEW o \in Sides, Lacking(t, h, n, p, o),
         NEW s \in Sides, s = Opposite(o), NEW b, b = Child(t, p, s), ~ IsRed(t, b),
         ~ IsRed(t, Child(t, b, s)), ~ IsRed(t, Child(t, b, o)),
         NEW u \in Trees(D), BlackPassed(D, t, u, b, p),
         NEW h2, h2 = [h EXCEPT ![p] = h[p] - 1]
  PROVE  Passed(D, t, u, h, h2, p)
<1>a. \A q \in Sides : ~ IsRed(t, Child(t, b, q))
  BY SidesFacts
<1> USE <1>a
<1>0. /\ SameLinks(D, t, u)
      /\ \A m \in D : Black(u, m) = (m # b /\ (m = p \/ Black(t, m)))
  BY DEF BlackPassed
<1> USE <1>0
<1>1. /\ p \in D /\ n = Child(t, p, o) /\ n \in D \cup {None}
      /\ b \in D /\ b # p /\ b # n /\ b # t.root /\ Parent(t, b) = p
      /\ Weight(t, h, n) + 1 = h[p] /\ Weight(t, h, b) = h[p] /\ Weight(t, h, n) \in Nat
      /\ \A m \in D, q \in Sides : (m # p \/ q # o) => Even(t, h, m, q)
      /\ \A m \in D, q \in Sides : RedApart(t, m, q)
      /\ ~ IsRed(t, n) /\ ~ IsRed(t, t.root)
      /\ o = Opposite(s) /\ s # o
  BY LackingFacts
<1>2. \A m \in D : h[m] \in Nat
  BY DEF Heights
<1>3. /\ h2 \in Heights(D) /\ h2[p] = h[p] - 1 /\ \A m \in D : m # p => h2[m] = h[m]
  BY <1>1, <1>2 DEF Heights
<1>4. /\ \A m \in D : IsRed(u, m) <=> ~ Black(u, m)
      /\ \A m \in D : IsRed(t, m) <=> ~ Black(t, m)
      /\ \A m \in D : Black(t, m) \in BOOLEAN
      /\ ~ IsRed(u, None) /\ ~ IsRed(t, None)
  BY Fields DEF IsRed, Black
<1>5. \A m \in D \cup {None} : m # p /\ m # b =>
        (IsRed(u, m) <=> IsRed(t, m)) /\ Weight(u, h2, m) = Weight(t, h, m)
  <2>1. \A m \in D : m # p /\ m # b => Black(u, m) = Black(t, m)
    BY <1>4
  <2> QED
    BY <2>1, <1>3, <1>4 DEF Weight
<1>6. Black(u, p) /\ ~ IsRed(u, p) /\ Weight(u, h2, p) = h[p]
  <2>1. Black(u, p) /\ p # None
    BY <1>1
  <2> QED
    BY <2>1, <1>1, <1>2, <1>3, <1>4 DEF Weight
<1>7. IsRed(u, b) /\ Weight(u, h2, b) = h2[p]
  <2>1. Black(u, b) = FALSE /\ Black(t, b) /\ b # None
    BY <1>1, <1>4
  <2>2. Weight(t, h, b) = h[b] + 1
    BY <1>1, WeightFacts
  <2> QED
    BY <2>1, <2>2, <1>1, <1>2, <1>3, <1>4 DEF Weight
<1>8. /\ IsRed(t, p) => Weight(t, h, p) = h[p]
      /\ ~ IsRed(t, p) => Weight(t, h, p) = h[p] + 1
  BY <1>1, WeightFacts
<1>9. \A m \in D, q \in Sides : Child(t, m, q) = b => m = p
  BY <1>1, ChildFacts
<1>10. \A m \in D, q \in Sides : Child(u, m, q) = Child(t, m, q) /\ Child(t, m, q) \in D \cup {None}
  BY Fields DEF SameLinks
<1>11. n # p
  BY <1>1, ChildFacts
<1>12. ASSUME NEW m \in D, NEW q \in Sides, IsRed(t, p) \/ Child(t, m, q) # p
       PROVE  Even(u, h2, m, q)
  <2>1. CASE m = p
    <3>1. CASE q = s
      BY <2>1, <3>1, <1>7, <1>10 DEF Even
    <3>2. CASE q = o
      <4>1. Weight(u, h2, n) = Weight(t, h, n)
        BY <1>1, <1>5, <1>11
      <4> QED
        BY <2>1, <3>2, <4>1, <1>1, <1>2, <1>3, <1>10 DEF Even
    <3> QED
      BY <3>1, <3>2, SidesFacts
  <2>2. CASE m # p
    <3>1. Weight(t, h, Child(t, m, q)) = h2[m]
      BY <2>2, <1>1, <1>3 DEF Even
    <3>2. Weight(u, h2, Child(t, m, q)) = Weight(t, h, Child(t, m, q))
      <4>1. CASE Child(t, m, q) = p
        BY <4>1, <1>6, <1>8, <1>12
      <4>2. CASE Child(t, m, q) # p
        BY <4>2, <2>2, <1>5, <1>9, <1>10
      <4> QED
        BY <4>1, <4>2
    <3> QED
      BY <3>1, <3>2, <1>10 DEF Even
  <2> QED
    BY <2>1, <2>2
<1>13. ASSUME NEW m \in D, NEW q \in Sides PROVE RedApart(u, m, q)
  <2>1. CASE m = p
    BY <2>1, <1>6 DEF RedApart
  <2>2. CASE m = b
    <3>1. ~ IsRed(t, Child(t, b, q)) /\ Child(t, b, q) # p /\ Child(t, b, q) # b
      <4>1. Child(t, b, q) # p
        BY <1>1, ChildFacts
      <4>2. Child(t, b, q) # b
        BY <1>1, ChildFacts
      <4> QED
        BY <4>1, <4>2
    <3>2. ~ IsRed(u, Child(t, b, q))
      BY <3>1, <1>1, <1>5, <1>10
    <3> QED
      BY <2>2, <3>2, <1>10 DEF RedApart
  <2>3. CASE m # p /\ m # b
    <3>1. RedApart(t, m, q) /\ (IsRed(u, m) <=> IsRed(t, m))
      BY <2>3, <1>1, <1>5
    <3>2. IsRed(u, Child(t, m, q)) => IsRed(t, Child(t, m, q))
      <4>1. CASE Child(t, m, q) = p
        BY <4>1, <1>6
      <4>2. CASE Child(t, m, q) # p
        BY <4>2, <2>3, <1>5, <1>9, <1>10
      <4> QED
        BY <4>1, <4>2
    <3> QED
      BY <3>1, <3>2, <1>10 DEF RedApart
  <2> QED
    BY <2>1, <2>2, <2>3
<1>14. ~ IsRed(u, u.root)
  <2>1. u.root = t.root /\ t.root \in D \cup {None}
    BY Fields DEF SameLinks
  <2>2. CASE t.root = p
    BY <2>1, <2>2, <1>6
  <2>3. CASE t.root # p
    BY <2>1, <2>3, <1>1, <1>5
  <2> QED
    BY <2>2, <2>3
<1>15. ~ IsRed(t, p) => Weight(u, h2, p) + 1 = Weight(t, h, p)
  BY <1>6, <1>8
<1> QED
  BY <1>3, <1>6, <1>12, <1>13, <1>14, <1>15 DEF Passed

(* The inner nephew is red, the outer one is not: it comes up over the       *)
(* sibling, which would then be a red outer nephew.                          *)
LEMMA SiblingTurned ==
  ASSUME NEW D, None \notin D, NEW t \in Trees(D), NEW rank \in Ranks(D),
         NEW edge \in Edges(D), NEW len, Placed(t, rank, edge, len), NEW h \in Heights(D),
         NEW n, NEW p, NEW o \in Sides, Lacking(t, h, n, p, o),
         NEW s \in Sides, s = Opposite(o), NEW b, b = Child(t, p, s), ~ IsRed(t, b),
         NEW i, i = Child(t, b, o), IsRed(t, i), ~ IsRed(t, Child(t, b, s)),
         NEW c, c = Child(t, i, s),
         NEW v \in Trees(D), Turned(D, t, v, b, o, i, c, s),
         SwappedColors(D, t, v, b, i)
  PROVE  /\ Lacking(v, h, n, p, o) /\ Child(v, p, s) = i /\ ~ IsRed(v, i)
         /\ Child(v, i, s) = b /\ IsRed(v, b) /\ Child(v, i, o) = Child(t, i, o)
         /\ Parent(v, p) = Parent(t, p)
<1>0. \A m \in D : Black(v, m) = IF m = i THEN TRUE ELSE IF m = b THEN FALSE ELSE Black(t, m)
  BY DEF SwappedColors
<1> USE <1>0
<1>1. /\ p \in D /\ n = Child(t, p, o) /\ n \in D \cup {None}
      /\ b \in D /\ b # p /\ b # n /\ b # t.root /\ Parent(t, b) = p
      /\ Weight(t, h, n) + 1 = h[p] /\ Weight(t, h, b) = h[p] /\ Weight(t, h, n) \in Nat
      /\ \A m \in D, q \in Sides : (m # p \/ q # o) => Even(t, h, m, q)
      /\ \A m \in D, q \in Sides : RedApart(t, m, q)
      /\ ~ IsRed(t, n) /\ ~ IsRed(t, t.root)
      /\ o = Opposite(s) /\ s # o
  BY LackingFacts
<1>2. /\ i \in D /\ i # b /\ i # p /\ Parent(t, i) = b /\ i # None
  <2>1. i # None
    BY DEF IsRed
  <2>2. i \in D /\ i # b /\ Parent(t, i) = b
    BY <1>1, <2>1, ChildFacts
  <2>3. i # p
    BY <1>1, ChildFacts
  <2> QED
    BY <2>1, <2>2, <2>3
<1>3. c \in D \cup {None} /\ ~ IsRed(t, c) /\ Weight(t, h, c) = h[i] /\ c # b /\ c # i
  <2>1. ~ IsRed(t, c) /\ Weight(t, h, c) = h[i]
    BY <1>1, <1>2 DEF Even, RedApart
  <2>2. c # b
    BY <1>1, <1>2, ChildFacts
  <2>3. c # i
    BY <1>2, ChildFacts
  <2> QED
    BY <1>2, <2>1, <2>2, <2>3, Fields
<1>4. h[i] = h[b]
  <2>1. Weight(t, h, i) = h[b]
    BY <1>1 DEF Even
  <2> QED
    BY <2>1, <1>2, WeightFacts
<1>5. \A m \in D : m # b /\ m # i => h[m] = h[m] /\ Black(v, m) = Black(t, m)
  OBVIOUS
<1>6. Black(v, i) = TRUE /\ Black(v, b) = FALSE /\ Black(t, b) = TRUE
  <2>1. Black(t, b) \in BOOLEAN /\ Black(t, b)
    BY <1>1, Fields, WeightFacts
  <2> QED
    BY <1>1, <1>2, <2>1
<1>7. /\ \A m \in D, q \in Sides :
           \/ m = b /\ q = o
           \/ m = i /\ q = s
           \/ /\ Weight(v, h, Child(v, m, q)) = Weight(t, h, Child(t, m, q))
              /\ (IsRed(v, Child(v, m, q)) <=> IsRed(t, Child(t, m, q)))
      /\ Weight(v, h, c) = Weight(t, h, c) /\ (IsRed(v, c) <=> IsRed(t, c))
      /\ (IsRed(v, v.root) <=> IsRed(t, t.root))
  <2>1. \A m \in D : m # b /\ m # i /\ m # None => h[m] = h[m] /\ Black(v, m) = Black(t, m)
    BY <1>5
  <2>2. Black(v, i) = Black(t, b)
    BY <1>6
  <2>3. Parent(t, b) # None => Child(t, Parent(t, b), s) = b
    BY <1>1
  <2>4. /\ \A m \in D, q \in Sides :
             \/ m = b /\ q = o
             \/ m = i /\ q = s
             \/ None \in D /\ Child(t, m, q) = None
             \/ /\ Weight(v, h, Child(v, m, q)) = Weight(t, h, Child(t, m, q))
                /\ (IsRed(v, Child(v, m, q)) <=> IsRed(t, Child(t, m, q)))
        /\ None \notin D \/ c # None => Weight(v, h, c) = Weight(t, h, c) /\ (IsRed(v, c) <=> IsRed(t, c))
        /\ None \notin D \/ None # t.root => (IsRed(v, v.root) <=> IsRed(t, t.root))
    BY <1>1, <1>2, <1>4, <2>1, <2>2, <2>3, TurnedWeights
  <2> QED
    BY <2>4
<1>8. c # p
  <2>2. Child(t, i, s) # p
    <3>1. SUFFICES ASSUME c = p PROVE FALSE
      OBVIOUS
    <3>2. edge[p][s] = edge[i][s]
      <4>1. p = Child(t, i, s) /\ p # None /\ i \in D
        BY <1>1, <1>2, <3>1
      <4> QED
        BY <4>1, ChildFacts
    <3>3. edge[i][s] = rank[b] + Dir(o)
      <4>1. Opposite(o) = s /\ i = Child(t, b, o) /\ i # None /\ b \in D
        BY <1>1, <1>2, SidesFacts
      <4>2. edge[i][Opposite(o)] = rank[b] + Dir(o)
        BY <4>1, ChildFacts
      <4> QED
        BY <4>1, <4>2
    <3>4. edge[b][s] = edge[p][s]
      BY <1>1, ChildFacts
    <3>5. /\ rank[b] \in Int /\ edge[b]["left"] <= rank[b] /\ rank[b] <= edge[b]["right"]
          /\ edge[b]["left"] \in Int /\ edge[b]["right"] \in Int
      BY <1>1, Fields DEF Placed, Ranks, Edges, Sides
    <3>6. CASE s = "left"
      BY <1>1, <3>2, <3>3, <3>4, <3>5, <3>6, SidesFacts
    <3>7. CASE s = "right"
      BY <1>1, <3>2, <3>3, <3>4, <3>5, <3>7, SidesFacts
    <3> QED
      BY <3>6, <3>7, SidesFacts
  <2> QED
    BY <2>2
<1>9. /\ Child(v, b, o) = c /\ Child(v, i, s) = b /\ Child(v, p, s) = i /\ Child(v, p, o) = n
      /\ Child(v, i, o) = Child(t, i, o)
      /\ Parent(v, p) = Parent(t, p) /\ v.root = t.root
  BY <1>1, <1>2, <1>3, <1>8 DEF Turned
<1>10. /\ \A m \in D : IsRed(v, m) <=> ~ Black(v, m)
       /\ \A m \in D : IsRed(t, m) <=> ~ Black(t, m)
  BY DEF IsRed, Black
<1>11. Weight(v, h, n) = Weight(t, h, n) /\ ~ IsRed(v, n)
  BY <1>1, <1>2, <1>7, <1>9
<1>12. ASSUME NEW m \in D, NEW q \in Sides, m # p \/ q # o PROVE Even(v, h, m, q)
  <2>1. CASE m = b /\ q = o
    BY <2>1, <1>3, <1>4, <1>7, <1>9 DEF Even
  <2>2. CASE m = i /\ q = s
    <3>1. Weight(v, h, b) = h[b]
      BY <1>1, <1>6 DEF Weight
    <3> QED
      BY <2>2, <3>1, <1>4, <1>9 DEF Even
  <2>3. CASE ~ (m = b /\ q = o) /\ ~ (m = i /\ q = s)
    BY <2>3, <1>1, <1>7, <1>12 DEF Even
  <2> QED
    BY <2>1, <2>2, <2>3
<1>13. ASSUME NEW m \in D, NEW q \in Sides PROVE RedApart(v, m, q)
  <2>1. CASE m = b
    <3>1. CASE q = o
      BY <2>1, <3>1, <1>3, <1>7, <1>9 DEF RedApart
    <3>2. CASE q = s
      <4>1. IsRed(v, Child(v, b, s)) <=> IsRed(t, Child(t, b, s))
        BY <1>1, <1>2, <1>7
      <4> QED
        BY <2>1, <3>2, <4>1 DEF RedApart
    <3> QED
      BY <3>1, <3>2, SidesFacts
  <2>2. CASE m = i
    BY <2>2, <1>2, <1>6, <1>10 DEF RedApart
  <2>3. CASE m # b /\ m # i
    <3>1. RedApart(t, m, q) /\ (IsRed(v, m) <=> IsRed(t, m))
      BY <2>3, <1>1, <1>5, <1>10
    <3> QED
      BY <2>3, <3>1, <1>7 DEF RedApart
  <2> QED
    BY <2>1, <2>2, <2>3
<1> QED
  BY <1>1, <1>2, <1>6, <1>7, <1>9, <1>10, <1>11, <1>12, <1>13, Fields DEF Lacking

(* The outer nephew is red: the sibling comes up over the parent and the     *)
(* missing black node is there.                                              *)
LEMMA SiblingLifted ==
  ASSUME NEW D, None \notin D, NEW t \in Trees(D), NEW rank \in Ranks(D),
         NEW edge \in Edges(D), NEW len, Placed(t, rank, edge, len), NEW h \in Heights(D),
         NEW n, NEW p, NEW o \in Sides, Lacking(t, h, n, p, o),
         NEW s \in Sides, s = Opposite(o), NEW b, b = Child(t, p, s), ~ IsRed(t, b),
         NEW x, x = Child(t, b, s), IsRed(t, x), NEW c, c = Child(t, b, o), NEW e \in Sides,
         Parent(t, p) # None => Child(t, Parent(t, p), e) = p,
         NEW u \in Trees(D), Turned(D, t, u, p, s, b, c, e),
         TurnedColors(D, t, u, p, b, TRUE, x),
         NEW h2, h2 = [h EXCEPT ![p] = h[p] - 1, ![b] = h[p]]
  PROVE  h2 \in Heights(D) /\ Calm(u, h2)
<1>0. \A m \in D : Black(u, m) = IF m = b THEN Black(t, p)
                                ELSE IF m = p THEN TRUE ELSE m = x \/ Black(t, m)
  BY DEF TurnedColors
<1> USE <1>0
<1>1. /\ p \in D /\ n = Child(t, p, o) /\ n \in D \cup {None}
      /\ b \in D /\ b # p /\ b # n /\ b # t.root /\ Parent(t, b) = p
      /\ Weight(t, h, n) + 1 = h[p] /\ Weight(t, h, b) = h[p] /\ Weight(t, h, n) \in Nat
      /\ \A m \in D, q \in Sides : (m # p \/ q # o) => Even(t, h, m, q)
      /\ \A m \in D, q \in Sides : RedApart(t, m, q)
      /\ ~ IsRed(t, n) /\ ~ IsRed(t, t.root)
      /\ o = Opposite(s) /\ s # o
  BY LackingFacts
<1>2. /\ x \in D /\ x # b /\ x # p /\ Parent(t, x) = b /\ x # None /\ x # c /\ x # t.root
      /\ x # n
  <2>1. x # None
    BY DEF IsRed
  <2>2. x \in D /\ x # b /\ Parent(t, x) = b /\ x # t.root /\ x # c
    BY <1>1, <2>1, ChildFacts
  <2>3. x # p
    BY <1>1, ChildFacts
  <2>4. x # n
    BY <1>1
  <2> QED
    BY <2>1, <2>2, <2>3, <2>4
<1>3. c \in D \cup {None} /\ Weight(t, h, c) = h[b] /\ c # p /\ c # b
  <2>1. Weight(t, h, c) = h[b]
    BY <1>1 DEF Even
  <2>2. c # p
    BY <1>1, ChildFacts
  <2>3. c # b
    BY <1>1, ChildFacts
  <2> QED
    BY <1>1, <2>1, <2>2, <2>3, Fields
<1>4. h[b] + 1 = h[p] /\ h[x] = h[b] /\ h[b] \in Nat /\ h[p] \in Nat
  <2>1. h[b] + 1 = h[p] /\ h[b] \in Nat /\ h[p] \in Nat
    BY <1>1, WeightFacts DEF Heights
  <2>2. Weight(t, h, x) = h[b]
    BY <1>1 DEF Even
  <2>3. h[x] = h[b]
    BY <1>2, <2>2, WeightFacts
  <2> QED
    BY <2>1, <2>3
<1>5. /\ h2 \in Heights(D) /\ h2[p] = h[b] /\ h2[b] = h[p]
      /\ \A m \in D : m # p /\ m # b => h2[m] = h[m]
  BY <1>1, <1>4 DEF Heights
<1>6. /\ Black(u, b) = Black(t, p) /\ Black(u, p) = TRUE /\ Black(u, x) = TRUE
      /\ \A m \in D : m # p /\ m # b /\ m # x => Black(u, m) = Black(t, m)
  <2>1. \A m \in D : Black(t, m) \in BOOLEAN
    BY Fields
  <2> QED
    BY <1>1, <1>2, <2>1
<1>7. /\ \A m \in D, q \in Sides :
           \/ m = p /\ q = s
           \/ m = b /\ q = o
           \/ Child(t, m, q) = x
           \/ /\ Weight(u, h2, Child(u, m, q)) = Weight(t, h, Child(t, m, q))
              /\ (IsRed(u, Child(u, m, q)) <=> IsRed(t, Child(t, m, q)))
      /\ Weight(u, h2, c) = Weight(t, h, c)
      /\ (IsRed(u, u.root) <=> IsRed(t, t.root))
  <2>1. Kept(D, t, u, h, h2, p, b, x)
    BY <1>1, <1>5, <1>6 DEF Kept
  <2>2. Carried(D, t, u, h, h2, p, s, b, o, c, x)
    BY <1>1, <2>1, TurnedCarried
  <2> QED
    BY <1>2, <2>2 DEF Carried
<1>8. /\ Child(u, p, s) = c /\ Child(u, b, o) = p /\ Child(u, p, o) = n
      /\ Child(u, b, s) = x
  <2>1. p # Parent(t, p)
    BY <1>1, ParentFacts
  <2>2. b # Parent(t, p)
    <3>1. PICK g : g = Parent(t, p)
      OBVIOUS
    <3>2. Child(t, b, e) # p
      BY <1>1, ChildFacts
    <3> QED
      BY <1>1, <3>2
  <2> QED
    BY <1>1, <2>1, <2>2 DEF Turned
<1>9. \A m \in D, q \in Sides : Child(t, m, q) = x => m = b
  BY <1>2, ChildFacts
<1>10. /\ \A m \in D : IsRed(u, m) <=> ~ Black(u, m)
       /\ \A m \in D : IsRed(t, m) <=> ~ Black(t, m)
  BY DEF IsRed, Black
<1>11. Weight(u, h2, n) = Weight(t, h, n) /\ ~ IsRed(u, n)
  BY <1>1, <1>2, <1>7, <1>8, ZenonT(60)
<1>12. /\ Weight(u, h2, p) = h[p] /\ Weight(u, h2, x) = h[p]
       /\ ~ IsRed(u, p) /\ ~ IsRed(u, x)
  BY <1>1, <1>2, <1>4, <1>5, <1>6, <1>10, ZenonT(60) DEF Weight
<1>13. ASSUME NEW m \in D, NEW q \in Sides PROVE Even(u, h2, m, q)
  <2>1. CASE m = p
    <3>1. CASE q = s
      BY <2>1, <3>1, <1>3, <1>5, <1>7, <1>8 DEF Even
    <3>2. CASE q = o
      <4>1. Weight(u, h2, n) = h2[p]
        BY <1>1, <1>4, <1>5, <1>11
      <4> QED
        BY <2>1, <3>2, <4>1, <1>8 DEF Even
    <3> QED
      BY <3>1, <3>2, SidesFacts
  <2>2. CASE m = b
    <3>1. CASE q = s
      BY <2>2, <3>1, <1>5, <1>8, <1>12 DEF Even
    <3>2. CASE q = o
      BY <2>2, <3>2, <1>5, <1>8, <1>12 DEF Even
    <3> QED
      BY <3>1, <3>2, SidesFacts
  <2>3. CASE m # p /\ m # b
    <3>1. Even(t, h, m, q) /\ Child(t, m, q) # x
      BY <2>3, <1>1, <1>9
    <3> QED
      BY <2>3, <3>1, <1>5, <1>7 DEF Even
  <2> QED
    BY <2>1, <2>2, <2>3
<1>14. ASSUME NEW m \in D, NEW q \in Sides PROVE RedApart(u, m, q)
  <2>1. CASE m = p
    BY <2>1, <1>12 DEF RedApart
  <2>2. CASE m = b
    <3>1. CASE q = s
      BY <2>2, <3>1, <1>8, <1>12 DEF RedApart
    <3>2. CASE q = o
      BY <2>2, <3>2, <1>8, <1>12 DEF RedApart
    <3> QED
      BY <3>1, <3>2, SidesFacts
  <2>3. CASE m # p /\ m # b
    <3>1. RedApart(t, m, q) /\ Child(t, m, q) # x
      BY <2>3, <1>1, <1>9
    <3>2. IsRed(u, m) => IsRed(t, m)
      BY <2>3, <1>6, <1>10, <1>12
    <3> QED
      BY <2>3, <3>1, <3>2, <1>7 DEF RedApart
  <2> QED
    BY <2>1, <2>2, <2>3
<1> QED
  BY <1>1, <1>5, <1>7, <1>13, <1>14, Fields, ZenonT(60) DEF Calm

-----------------------------------------------------------------------------
(* The steps of Insert's loop. *)

(* u is t after a setter, or after a few of them. *)
ChildSet(D, t, u, n, s, c) ==
  /\ u \in Trees(D) /\ u.root = t.root
  /\ \A m \in D : Parent(u, m) = Parent(t, m) /\ Black(u, m) = Black(t, m)
  /\ \A m \in D, q \in Sides : Child(u, m, q) = IF m = n /\ q = s THEN c ELSE Child(t, m, q)

ParentSet(D, t, u, n, p) ==
  /\ u \in Trees(D) /\ u.root = t.root
  /\ \A m \in D : /\ Parent(u, m) = IF m = n THEN p ELSE Parent(t, m)
                  /\ Black(u, m) = Black(t, m)
  /\ \A m \in D, q \in Sides : Child(u, m, q) = Child(t, m, q)

GoneOver(D, t, u, n, s, m, c) ==
  /\ u \in Trees(D) /\ u.root = t.root
  /\ \A k \in D : Parent(u, k) = Parent(t, k) /\ Black(u, k) = Black(t, k)
  /\ \A k \in D, q \in Sides :
       Child(u, k, q) = IF k = n /\ q = s THEN c
                        ELSE IF k = m /\ q = Opposite(s) THEN n ELSE Child(t, k, q)

HandedOver(D, t, u, n, s, m, c) ==
  /\ u \in Trees(D) /\ u.root = t.root
  /\ \A k \in D : /\ Parent(u, k) = IF k = c THEN n ELSE Parent(t, k)
                  /\ Black(u, k) = (k = c \/ Black(t, k))
  /\ \A k \in D, q \in Sides :
       Child(u, k, q) = IF k = n /\ q = s THEN c
                        ELSE IF k = m /\ q = Opposite(s) THEN n ELSE Child(t, k, q)

(* SetChild sets that child. *)
LEMMA ChildSetBy ==
  ASSUME NEW D, NEW t \in Trees(D), NEW n \in D, NEW s \in Sides, NEW c \in D \cup {None},
         NEW u, u = SetChild(t, n, s, c)
  PROVE  ChildSet(D, t, u, n, s, c)
  BY DEF Trees, Parent, Black, Child, SetChild, ChildSet

(* SetParent sets that parent, of a node. *)
LEMMA ParentSetBy ==
  ASSUME NEW D, None \notin D, NEW t \in Trees(D), NEW n \in D \cup {None},
         NEW p \in D \cup {None}, NEW u, u = SetParent(t, n, p)
  PROVE  ParentSet(D, t, u, n, p)
  BY DEF Trees, Parent, Black, Child, SetParent, ParentSet

(* SetBlack blackens the node, if it is one. *)
LEMMA BlackenedBy ==
  ASSUME NEW D, None \notin D, NEW t \in Trees(D), NEW n \in D \cup {None},
         NEW u, u = SetBlack(t, n)
  PROVE  Blackened(D, t, u, n)
  BY SetBlackLaw, SMTT(30) DEF Blackened, SameLinks

(* SetRed reddens it. *)
LEMMA ReddenedBy ==
  ASSUME NEW D, NEW t \in Trees(D), NEW n \in D, NEW u, u = SetRed(t, n)
  PROVE  Reddened(D, t, u, n)
  BY SetRedLaw DEF Reddened, SameLinks

(* The first half of a rotation. *)
LEMMA LinkBetweenLaw ==
  ASSUME NEW D, NEW t \in Trees(D), NEW n \in D, NEW s \in Sides, NEW m \in D, n # m,
         NEW c \in D \cup {None}, NEW u, u = LinkBetween(t, n, s, m, c)
  PROVE  GoneOver(D, t, u, n, s, m, c)
<1>1. PICK t1 : t1 = SetChild(t, n, s, c)
  OBVIOUS
<1>2. PICK o \in Sides : o = Opposite(s)
  BY SidesFacts
<1>3. u = SetChild(t1, m, o, n) /\ n \in D \cup {None}
  BY <1>1, <1>2 DEF LinkBetween
<1>4. ChildSet(D, t, t1, n, s, c)
  BY <1>1, ChildSetBy
<1>5. t1 \in Trees(D)
  BY <1>4 DEF ChildSet
<1>6. ChildSet(D, t1, u, m, o, n)
  BY <1>3, <1>5, ChildSetBy
<1> QED
  BY <1>2, <1>4, <1>6 DEF ChildSet, GoneOver

(* The child that goes over is told so, and is black: all of a rotation but  *)
(* RotateSetParents.                                                         *)
LEMMA HandOverLaw ==
  ASSUME NEW D, None \notin D, NEW t \in Trees(D), NEW n \in D, NEW s \in Sides, NEW m \in D,
         n # m, NEW c \in D \cup {None},
         NEW u, u = SetBlack(SetParent(LinkBetween(t, n, s, m, c), c, n), c)
  PROVE  HandedOver(D, t, u, n, s, m, c)
<1>1. PICK t1 : t1 = LinkBetween(t, n, s, m, c)
  OBVIOUS
<1>2. PICK t2 : t2 = SetParent(t1, c, n)
  OBVIOUS
<1>3. u = SetBlack(t2, c) /\ n \in D \cup {None}
  BY <1>1, <1>2
<1>4. GoneOver(D, t, t1, n, s, m, c)
  BY <1>1, LinkBetweenLaw
<1>5. t1 \in Trees(D)
  BY <1>4 DEF GoneOver
<1>6. ParentSet(D, t1, t2, c, n)
  BY <1>2, <1>3, <1>5, ParentSetBy
<1>7. t2 \in Trees(D)
  BY <1>6 DEF ParentSet
<1>8. Blackened(D, t2, u, c)
  BY <1>3, <1>7, BlackenedBy
<1>9. \A k \in D, q \in Sides : Child(u, k, q) = Child(t1, k, q)
  BY <1>6, <1>8 DEF ParentSet, Blackened, SameLinks
<1>10. /\ u \in Trees(D) /\ u.root = t.root
       /\ \A k \in D : /\ Parent(u, k) = IF k = c THEN n ELSE Parent(t, k)
                       /\ Black(u, k) = (k = c \/ Black(t, k))
  BY <1>4, <1>6, <1>8 DEF GoneOver, ParentSet, Blackened, SameLinks
<1> QED
  BY <1>4, <1>9, <1>10 DEF GoneOver, HandedOver

(* The loop is over, and the places are those before. *)
Settled(D, u, rank, len) ==
  /\ u \in Trees(D)
  /\ \E edge \in Edges(D), h \in Heights(D) : Placed(u, rank, edge, len) /\ Calm(u, h)

RisesOn(D, u, rank, len, n, p) ==
  /\ u \in Trees(D)
  /\ \E edge \in Edges(D), h \in Heights(D) : Placed(u, rank, edge, len) /\ Rising(u, h, n, p)

LacksOn(D, u, rank, len, n, p) ==
  /\ u \in Trees(D)
  /\ \E edge \in Edges(D), h \in Heights(D), o \in Sides :
       Placed(u, rank, edge, len) /\ Lacking(u, h, n, p, o)

(* The side the code takes a node for is the one it is on. *)
LEMMA SideOfFacts ==
  ASSUME NEW D, None \notin D, NEW t \in Trees(D), NEW rank \in Ranks(D),
         NEW edge \in Edges(D), NEW len, Placed(t, rank, edge, len),
         NEW g \in D, NEW e \in Sides, NEW p, p = Child(t, g, e), p # None
  PROVE  SideOf(t, g, p) = e
<1>1. Child(t, g, Opposite(e)) # p
  BY ChildFacts
<1> QED
  BY <1>1, SidesFacts DEF SideOf

(* Recolor. *)
LEMMA RecolorStep ==
  ASSUME NEW D, None \notin D, NEW t \in Trees(D), NEW rank \in Ranks(D),
         NEW edge \in Edges(D), NEW len, Placed(t, rank, edge, len), NEW h \in Heights(D),
         NEW n, NEW p, Rising(t, h, n, p), IsRed(t, p), NEW g, g = Parent(t, p),
         NEW s, s = SideOf(t, g, p), NEW x, x = Child(t, g, Opposite(s)), IsRed(t, x),
         NEW u, u = SetRed(SetBlack(SetBlack(t, x), p), g)
  PROVE  /\ g \in D /\ Parent(t, g) \in D \cup {None}
         /\ RisesOn(D, u, rank, len, g, Parent(t, g))
<1>1. /\ n \in D /\ p \in D /\ g \in D /\ n # p /\ n # g /\ p # g /\ p # None
      /\ \E e \in Sides : Child(t, g, e) = p /\ Child(t, g, Opposite(e)) # p
  BY RisingFacts
<1>2. s \in Sides /\ Child(t, g, s) = p
  <2>1. PICK e \in Sides : Child(t, g, e) = p
    BY <1>1
  <2>2. s = e
    BY <1>1, <2>1, SideOfFacts
  <2> QED
    BY <2>1, <2>2
<1>3. PICK o \in Sides : o = Opposite(s)
  BY <1>2, SidesFacts
<1>4. x \in D \cup {None} /\ p \in D \cup {None} /\ Parent(t, g) \in D \cup {None}
  BY <1>1, <1>3, Fields
<1>5. PICK t1 : t1 = SetBlack(t, x)
  OBVIOUS
<1>6. PICK t2 : t2 = SetBlack(t1, p)
  OBVIOUS
<1>7. u = SetRed(t2, g)
  BY <1>5, <1>6
<1>8. Blackened(D, t, t1, x)
  BY <1>4, <1>5, BlackenedBy
<1>9. t1 \in Trees(D)
  BY <1>8 DEF Blackened
<1>10. Blackened(D, t1, t2, p)
  BY <1>4, <1>6, <1>9, BlackenedBy
<1>11. t2 \in Trees(D)
  BY <1>10 DEF Blackened
<1>12. Reddened(D, t2, u, g)
  BY <1>1, <1>7, <1>11, ReddenedBy
<1>13. u \in Trees(D) /\ SameLinks(D, t, u)
  BY <1>8, <1>10, <1>12 DEF Blackened, Reddened, SameLinks
<1>14. Recolored(D, t, u, g, p, x)
  <2>1. \A m \in D : Black(u, m) = (m # g /\ (m = p \/ m = x \/ Black(t, m)))
    BY <1>8, <1>10, <1>12 DEF Blackened, Reddened
  <2> QED
    BY <1>13, <2>1 DEF Recolored
<1>15. PICK h2 : h2 = [h EXCEPT ![g] = h[g] + 1]
  OBVIOUS
<1>16. h2 \in Heights(D) /\ Rising(u, h2, g, Parent(u, g))
  <2>1. x = Child(t, g, o)
    BY <1>3
  <2> QED
    BY <1>2, <1>3, <1>13, <1>14, <1>15, <2>1, RecoloredRising
<1>17. Parent(u, g) = Parent(t, g)
  BY <1>1, <1>13 DEF SameLinks
<1>18. Placed(u, rank, edge, len)
  BY <1>13, SameLinksPlaced
<1> QED
  BY <1>1, <1>4, <1>13, <1>16, <1>17, <1>18 DEF RisesOn

RotatedTo(D, t, u, rank, len, g, s, y, c, black, z) ==
  /\ u \in Trees(D) /\ \E edge \in Edges(D) : Placed(u, rank, edge, len)
  /\ \E e \in Sides : /\ Parent(t, g) # None => Child(t, Parent(t, g), e) = g
                      /\ Turned(D, t, u, g, s, y, c, e)
  /\ TurnedColors(D, t, u, g, y, black, z)

(* A rotation of any loop, with what it needs to know of its node's parent.  *)
LEMMA RotationLaw ==
  ASSUME NEW D, None \notin D, NEW t \in Trees(D), NEW rank \in Ranks(D),
         NEW edge \in Edges(D), NEW len, Placed(t, rank, edge, len),
         NEW g \in D, NEW s \in Sides, NEW o \in Sides, o = Opposite(s),
         NEW y, y = Child(t, g, s), y # None, NEW c, c = Child(t, y, o), NEW z, z # g,
         NEW w \in Trees(D), Lifting(D, t, w, g, s, y, c, z),
         NEW black \in BOOLEAN, NEW u, u = RotateSetParents(w, g, y, black)
  PROVE  RotatedTo(D, t, u, rank, len, g, s, y, c, black, z)
<1>1. y \in D /\ y # g
  BY ChildFacts
<1>2. c \in D \cup {None} /\ c # g /\ c # y
  <2>1. c # g
    BY <1>1, ChildFacts
  <2>2. c # y
    BY <1>1, ChildFacts
  <2> QED
    BY <1>1, <2>1, <2>2, Fields
<1>3. PICK r \in D \cup {None} : r = Parent(t, g)
  BY Fields
<1>4. PICK e \in Sides : r # None => Child(t, r, e) = g /\ Child(t, r, Opposite(e)) # g
  <2>1. r # None => \E e \in Sides : Child(t, r, e) = g /\ Child(t, r, Opposite(e)) # g
    BY <1>3, ParentFacts
  <2> QED
    BY <2>1
<1>5. r # g /\ r # y
  <2>1. r # g
    BY <1>3, ParentFacts
  <2>2. r # y
    <3>1. \A q \in Sides : Child(t, y, q) # g
      BY ChildFacts
    <3> QED
      BY <1>1, <1>4, <3>1
  <2> QED
    BY <2>1, <2>2
<1>6. u \in Trees(D) /\ Turned(D, t, u, g, s, y, c, e) /\ TurnedColors(D, t, u, g, y, black, z)
  BY <1>1, <1>2, <1>3, <1>4, <1>5, LiftLaw
<1>7. Parent(t, g) # None => Child(t, Parent(t, g), e) = g
  BY <1>3, <1>4
<1>8. \E edge2 \in Edges(D) : Placed(u, rank, edge2, len)
  <2>1. PICK edge2 : edge2 = TurnedEdge(rank, edge, g, s, y)
    OBVIOUS
  <2>2. edge2 \in Edges(D) /\ Placed(u, rank, edge2, len)
    BY <1>1, <1>6, <1>7, <2>1, TurnedPlaced
  <2> QED
    BY <2>2
<1> QED
  BY <1>6, <1>7, <1>8 DEF RotatedTo

(* The end of RotateUp: p is on the side s of g, and n on the same side of p. *)
LEMMA SingleRotation ==
  ASSUME NEW D, None \notin D, NEW t \in Trees(D), NEW rank \in Ranks(D),
         NEW edge \in Edges(D), NEW len, Placed(t, rank, edge, len), NEW h \in Heights(D),
         NEW n, NEW p, Rising(t, h, n, p), IsRed(t, p), NEW g, g = Parent(t, p),
         NEW s \in Sides, NEW o \in Sides, o = Opposite(s),
         Child(t, g, s) = p, Child(t, p, s) = n, ~ IsRed(t, Child(t, g, o)),
         NEW c, c = Child(t, p, o), NEW w \in Trees(D), Lifting(D, t, w, g, s, p, c, c),
         NEW u, u = RotateSetParents(w, g, p, FALSE)
  PROVE  Settled(D, u, rank, len)
<1>1. p \in D /\ g \in D /\ p # g /\ p # None
  BY RisingFacts
<1>2. c # g
  BY <1>1, ChildFacts
<1>3. RotatedTo(D, t, u, rank, len, g, s, p, c, FALSE, c)
  <2>1. FALSE \in BOOLEAN /\ p = Child(t, g, s)
    OBVIOUS
  <2> QED
    BY <1>1, <1>2, <2>1, RotationLaw
<1>4. PICK e \in Sides : /\ Parent(t, g) # None => Child(t, Parent(t, g), e) = g
                         /\ Turned(D, t, u, g, s, p, c, e)
  BY <1>3 DEF RotatedTo
<1>5. u \in Trees(D) /\ TurnedColors(D, t, u, g, p, FALSE, c)
  BY <1>3 DEF RotatedTo
<1>6. Calm(u, h)
  BY <1>4, <1>5, RotatedCalm
<1> QED
  BY <1>3, <1>6 DEF RotatedTo, Settled

(* What RotateUp does once the node to come up is on the outer side. *)
RotatedUp(t, g, s, n) ==
  LET c == Child(t, n, Opposite(s))
      w == SetBlack(SetParent(LinkBetween(t, g, s, n, c), c, g), c)
  IN RotateSetParents(w, g, n, FALSE)

(* RotateUp of a node on the inner side: v is the tree with n over p already *)
(* and the link to n set, which the code sets only at the end.               *)
LEMMA DoubleRotation ==
  ASSUME NEW D, None \notin D, NEW t \in Trees(D), NEW rank \in Ranks(D),
         NEW edge \in Edges(D), NEW len, Placed(t, rank, edge, len), NEW h \in Heights(D),
         NEW n, NEW p, Rising(t, h, n, p), IsRed(t, p), NEW g, g = Parent(t, p),
         NEW s \in Sides, NEW o \in Sides, o = Opposite(s),
         Child(t, g, s) = p, Child(t, p, o) = n, ~ IsRed(t, Child(t, g, o)),
         NEW c, c = Child(t, n, s), NEW t2, HandedOver(D, t, t2, p, o, n, c),
         NEW t3, t3 = SetRed(SetParent(t2, p, n), p), NEW u, u = RotatedUp(t3, g, s, n)
  PROVE  Settled(D, u, rank, len)
<1>a. PICK d : d = Child(t3, n, o)
  OBVIOUS
<1>b. PICK w : w = SetBlack(SetParent(LinkBetween(t3, g, s, n, d), d, g), d)
  OBVIOUS
<1>c. u = RotateSetParents(w, g, n, FALSE)
  BY <1>a, <1>b DEF RotatedUp
<1>1. /\ n \in D /\ p \in D /\ g \in D /\ n # p /\ n # g /\ p # g /\ p # None
      /\ p = Parent(t, n) /\ IsRed(t, n) /\ n # None
      /\ \A m \in D, q \in Sides : m # p \/ Child(t, m, q) # n => RedApart(t, m, q)
  BY RisingFacts
<1>2. s # o /\ Opposite(o) = s
  BY SidesFacts
<1>3. c \in D \cup {None} /\ ~ IsRed(t, c) /\ c # p /\ c # n /\ c # g
  <2>1. c # p
    BY <1>1, ChildFacts
  <2>2. c # n
    BY <1>1, ChildFacts
  <2>3. ~ IsRed(t, c)
    BY <1>1 DEF RedApart
  <2>4. c # g
    <3>1. c # None => Parent(t, c) = n
      BY <1>1, ChildFacts
    <3>2. c = g => Parent(t, g) = n
      BY <1>1, <3>1
    <3>3. Parent(t, g) # n
      <4>1. PICK r : r = Parent(t, g)
        OBVIOUS
      <4>2. r # None => \E e \in Sides : Child(t, r, e) = g
        BY <1>1, <4>1, ParentFacts
      <4>3. ASSUME NEW e \in Sides, Child(t, n, e) = g PROVE FALSE
        <5>1. /\ edge[g][e] = edge[n][e] /\ edge[g][Opposite(e)] = rank[n] + Dir(e)
          <6>1. g = Child(t, n, e) /\ g # None /\ n \in D
            BY <1>1, <4>3
          <6> QED
            BY <6>1, ChildFacts
        <5>2. /\ edge[p][s] = edge[g][s] /\ edge[p][o] = rank[g] + Dir(s)
          BY <1>1, ChildFacts
        <5>3. /\ edge[n][o] = edge[p][o] /\ edge[n][s] = rank[p] + Dir(o)
          <6>1. n = Child(t, p, o) /\ n # None /\ p \in D /\ Opposite(o) = s
            BY <1>1, <1>2
          <6>2. edge[n][o] = edge[p][o] /\ edge[n][Opposite(o)] = rank[p] + Dir(o)
            BY <6>1, ChildFacts
          <6> QED
            BY <6>1, <6>2
        <5>4. \A m \in D : /\ rank[m] \in Int /\ edge[m]["left"] \in Int /\ edge[m]["right"] \in Int
                           /\ edge[m]["left"] <= rank[m] /\ rank[m] <= edge[m]["right"]
          BY Fields DEF Placed, Ranks, Edges, Sides
        <5>5. CASE s = "left" /\ e = "left"
          BY <5>1, <5>2, <5>3, <5>4, <5>5, <1>1, SidesFacts
        <5>6. CASE s = "left" /\ e = "right"
          BY <5>1, <5>2, <5>3, <5>4, <5>6, <1>1, SidesFacts
        <5>7. CASE s = "right" /\ e = "left"
          BY <5>1, <5>2, <5>3, <5>4, <5>7, <1>1, SidesFacts
        <5>8. CASE s = "right" /\ e = "right"
          BY <5>1, <5>2, <5>3, <5>4, <5>8, <1>1, SidesFacts
        <5> QED
          BY <5>5, <5>6, <5>7, <5>8, SidesFacts
      <4> QED
        BY <4>1, <4>2, <4>3, <1>1
    <3> QED
      BY <3>2, <3>3
  <2> QED
    BY <1>1, <2>1, <2>2, <2>3, <2>4, Fields
<1>4. /\ \A m \in D : Black(t, m) \in BOOLEAN
      /\ ~ Black(t, p) /\ (c # None => Black(t, c))
  BY <1>1, <1>3, Fields DEF IsRed, Black
<1>5. t2 \in Trees(D)
  BY DEF HandedOver
<1>6. PICK t4 : t4 = SetParent(t2, p, n)
  OBVIOUS
<1>7. ParentSet(D, t2, t4, p, n)
  BY <1>1, <1>5, <1>6, ParentSetBy
<1>8. t4 \in Trees(D)
  BY <1>7 DEF ParentSet
<1>9. t3 = SetRed(t4, p)
  BY <1>6
<1>10. Reddened(D, t4, t3, p)
  BY <1>1, <1>8, <1>9, ReddenedBy
<1>11. /\ t3 \in Trees(D) /\ t3.root = t.root
       /\ \A m \in D : Parent(t3, m) = IF m = p THEN n ELSE IF m = c THEN p ELSE Parent(t, m)
       /\ \A m \in D : Black(t3, m) = Black(t, m)
       /\ \A m \in D, q \in Sides :
            Child(t3, m, q) = IF m = p /\ q = o THEN c
                              ELSE IF m = n /\ q = s THEN p ELSE Child(t, m, q)
  <2>1. \A m \in D : Black(t3, m) = (m # p /\ (m = c \/ Black(t, m)))
    BY <1>7, <1>10 DEF HandedOver, ParentSet, Reddened
  <2>2. \A m \in D : Black(t3, m) = Black(t, m)
    BY <2>1, <1>4
  <2>3. \A m \in D : Parent(t3, m) = IF m = p THEN n ELSE IF m = c THEN p ELSE Parent(t, m)
    BY <1>7, <1>10 DEF HandedOver, ParentSet, Reddened, SameLinks
  <2>4. \A m \in D, q \in Sides :
          Child(t3, m, q) = IF m = p /\ q = o THEN c
                            ELSE IF m = n /\ q = s THEN p ELSE Child(t, m, q)
    <3>1. \A m \in D, q \in Sides : Child(t3, m, q) = Child(t2, m, q)
      BY <1>7, <1>10 DEF ParentSet, Reddened, SameLinks
    <3> QED
      BY <3>1, <1>2 DEF HandedOver
  <2> QED
    BY <2>2, <2>3, <2>4, <1>7, <1>10 DEF HandedOver, ParentSet, Reddened, SameLinks
<1>12. PICK v1 : v1 = SetChild(t3, g, s, n)
  OBVIOUS
<1>13. PICK v : v = SetParent(v1, n, g)
  OBVIOUS
<1>14. ChildSet(D, t3, v1, g, s, n)
  BY <1>1, <1>11, <1>12, ChildSetBy
<1>15. v1 \in Trees(D)
  BY <1>14 DEF ChildSet
<1>16. ParentSet(D, v1, v, n, g)
  BY <1>1, <1>13, <1>15, ParentSetBy
<1>17. v \in Trees(D) /\ Turned(D, t, v, p, o, n, c, s) /\ SameColors(D, t, v)
  <2>1. v.root = t.root /\ Parent(t, p) # None
    BY <1>1, <1>11, <1>14, <1>16 DEF ChildSet, ParentSet
  <2>2. \A m \in D :
          Parent(v, m) = IF m = n THEN g ELSE IF m = p THEN n
                         ELSE IF m = c THEN p ELSE Parent(t, m)
    BY <1>11, <1>14, <1>16 DEF ChildSet, ParentSet
  <2>3. \A m \in D, q \in Sides :
          Child(v, m, q) = IF m = p /\ q = o THEN c ELSE IF m = n /\ q = s THEN p
                           ELSE IF m = g /\ q = s THEN n ELSE Child(t, m, q)
    BY <1>1, <1>11, <1>14, <1>16 DEF ChildSet, ParentSet
  <2>4. SameColors(D, t, v)
    BY <1>11, <1>14, <1>16 DEF ChildSet, ParentSet, SameColors
  <2>5. v \in Trees(D)
    BY <1>16 DEF ParentSet
  <2> QED
    BY <2>1, <2>2, <2>3, <2>4, <2>5, <1>2 DEF Turned
<1>18. /\ Rising(v, h, p, n) /\ IsRed(v, n) /\ Parent(v, n) = g
       /\ Child(v, g, s) = n /\ Child(v, n, s) = p /\ ~ IsRed(v, Child(v, g, o))
       /\ Parent(v, g) = Parent(t, g)
  BY <1>17, StraightenedRising
<1>19. PICK edge1 : edge1 = TurnedEdge(rank, edge, p, o, n)
  OBVIOUS
<1>20. edge1 \in Edges(D) /\ Placed(v, rank, edge1, len)
  <2>1. Parent(t, p) # None => Child(t, Parent(t, p), s) = p
    BY <1>1
  <2>2. c = Child(t, n, Opposite(o)) /\ n = Child(t, p, o)
    BY <1>2
  <2> QED
    BY <1>1, <1>17, <1>19, <2>1, <2>2, TurnedPlaced
<1>21. d = Child(v, n, o) /\ d \in D \cup {None} /\ d # g
  <2>1. d = Child(v, n, o)
    BY <1>a, <1>1, <1>2, <1>14, <1>16 DEF ChildSet, ParentSet
  <2>2. d \in D \cup {None}
    BY <1>1, <1>17, <2>1, Fields
  <2>3. \A q \in Sides : Child(v, n, q) # g
    <3>1. n = Child(v, g, s) /\ n # None /\ g \in D
      BY <1>1, <1>18
    <3> QED
      BY <1>17, <1>20, <3>1, ChildFacts
  <2> QED
    BY <2>1, <2>2, <2>3
<1>22. HandedOver(D, t3, w, g, s, n, d)
  BY <1>b, <1>1, <1>11, <1>21, HandOverLaw
<1>23. w \in Trees(D) /\ Lifting(D, v, w, g, s, n, d, d)
  <2>1. w \in Trees(D) /\ w.root = v.root
    BY <1>14, <1>16, <1>22 DEF HandedOver, ChildSet, ParentSet
  <2>2. \A m \in D : m # n => /\ Parent(w, m) = IF m = d THEN g ELSE Parent(v, m)
                              /\ Black(w, m) = (m = d \/ Black(v, m))
    BY <1>14, <1>16, <1>22 DEF HandedOver, ChildSet, ParentSet
  <2>3. \A m \in D, q \in Sides :
          Child(w, m, q) = IF m = g /\ q = s THEN d
                           ELSE IF m = n /\ q = Opposite(s) THEN g ELSE Child(v, m, q)
    BY <1>14, <1>16, <1>22 DEF HandedOver, ChildSet, ParentSet
  <2> QED
    BY <2>1, <2>2, <2>3 DEF Lifting
<1> QED
  <2>1. /\ v \in Trees(D) /\ edge1 \in Edges(D) /\ Placed(v, rank, edge1, len)
        /\ Rising(v, h, p, n) /\ IsRed(v, n) /\ g = Parent(v, n)
        /\ Child(v, g, s) = n /\ Child(v, n, s) = p /\ ~ IsRed(v, Child(v, g, o))
        /\ d = Child(v, n, o) /\ w \in Trees(D) /\ Lifting(D, v, w, g, s, n, d, d)
    BY <1>17, <1>18, <1>20, <1>21, <1>23
  <2> QED
    BY <1>c, <2>1, SingleRotation, ZenonT(60)

(* RebalanceInsert: a step of the loop ends it or goes on further up. *)
LEMMA RebalanceInsertStep ==
  ASSUME NEW rank \in Ranks(Linked), NEW edge \in Edges(Linked), NEW h \in Heights(Linked),
         None \notin Linked, tree \in Trees(Linked), Placed(tree, rank, edge, length),
         Rising(tree, h, node, parent), parent \in Linked \cup {None}, RebalanceInsert
  PROVE  \/ /\ at' = "idle" /\ node' = None /\ parent' = None
            /\ Settled(Linked, tree', rank, length)
         \/ /\ at' = "insert" /\ node' \in Linked /\ parent' \in Linked \cup {None}
            /\ RisesOn(Linked, tree', rank, length, node', parent')
<1>1. PICK D, t, u, n, p, len :
        D = Linked /\ t = tree /\ u = tree' /\ n = node /\ p = parent /\ len = length
  OBVIOUS
<1>2. /\ rank \in Ranks(D) /\ edge \in Edges(D) /\ h \in Heights(D) /\ None \notin D
      /\ t \in Trees(D) /\ Placed(t, rank, edge, len) /\ Rising(t, h, n, p)
      /\ p \in D \cup {None} /\ DOMAIN t.links = D
  BY <1>1 DEF Linked
<1>3. n \in D
  BY <1>2 DEF Rising
<1>4. CASE p = None
  <2>1. PICK t1 : t1 = SetParent(t, n, None)
    OBVIOUS
  <2>2. u = SetBlack(t1, n) /\ Done
    BY <1>1, <1>4, <2>1 DEF RebalanceInsert
  <2>3. ParentSet(D, t, t1, n, None)
    BY <1>2, <1>3, <2>1, ParentSetBy
  <2>4. t1 \in Trees(D)
    BY <2>3 DEF ParentSet
  <2>5. Blackened(D, t1, u, n)
    BY <1>2, <1>3, <2>2, <2>4, BlackenedBy
  <2>6. Parent(t, n) = None
    BY <1>2, <1>4 DEF Rising
  <2>7. u \in Trees(D) /\ Blackened(D, t, u, n)
    BY <2>3, <2>5, <2>6 DEF ParentSet, Blackened, SameLinks
  <2>8. Calm(u, h)
    <3>1. Rising(t, h, n, None)
      BY <1>2, <1>4
    <3> QED
      BY <1>2, <2>7, <3>1, RootSettles
  <2>9. Placed(u, rank, edge, len)
    BY <1>2, <2>7, SameLinksPlaced DEF Blackened
  <2>10. Settled(D, u, rank, len)
    BY <1>2, <2>7, <2>8, <2>9 DEF Settled
  <2> QED
    BY <1>1, <2>2, <2>10 DEF Done
<1>5. CASE p # None /\ ~ IsRed(t, p)
  <2>1. u = t /\ Done
    BY <1>1, <1>5 DEF RebalanceInsert
  <2>2. Calm(t, h)
    BY <1>2, <1>5, RisingSettles
  <2>3. Settled(D, u, rank, len)
    BY <1>2, <2>1, <2>2 DEF Settled
  <2> QED
    BY <1>1, <2>1, <2>3 DEF Done
<1>6. CASE p # None /\ IsRed(t, p)
  <2>1. PICK g, s, x : g = Parent(t, p) /\ s = SideOf(t, g, p) /\ x = Child(t, g, Opposite(s))
    OBVIOUS
  <2>2. IF IsRed(t, x) THEN Recolor(p, g, x) ELSE RotateUp(n, p, g, s)
    BY <1>1, <1>6, <2>1 DEF RebalanceInsert
  <2>3. CASE IsRed(t, x)
    <3>1. /\ u = SetRed(SetBlack(SetBlack(t, x), p), g)
          /\ node' = g /\ parent' = Parent(t, g) /\ at' = at
      BY <1>1, <2>2, <2>3 DEF Recolor, Continue
    <3>2. /\ g \in D /\ Parent(t, g) \in D \cup {None}
          /\ RisesOn(D, u, rank, len, g, Parent(t, g))
      BY <1>2, <1>6, <2>1, <2>3, <3>1, RecolorStep
    <3> QED
      BY <1>1, <3>1, <3>2 DEF RebalanceInsert
  <2>4. CASE ~ IsRed(t, x)
    <3>1. /\ p \in D /\ g \in D /\ n # p /\ p # g /\ p # None /\ n # None
          /\ \E e \in Sides : Child(t, g, e) = p /\ Child(t, g, Opposite(e)) # p
          /\ \E e \in Sides : Child(t, p, e) = n /\ Child(t, p, Opposite(e)) # n
      BY <1>2, <1>3, <1>6, <2>1, RisingFacts
    <3>2. s \in Sides /\ Child(t, g, s) = p
      <4>1. PICK e \in Sides : Child(t, g, e) = p
        BY <3>1
      <4>2. s = e
        BY <1>2, <2>1, <3>1, <4>1, SideOfFacts
      <4> QED
        BY <4>1, <4>2
    <3>3. PICK o \in Sides : o = Opposite(s)
      BY <3>2, SidesFacts
    <3>4. PICK y : y = Straighten(t, n, p, s)
      OBVIOUS
    <3>5. PICK c : c = Child(y.tree, y.top, o)
      OBVIOUS
    <3>6. PICK w : w = SetBlack(SetParent(LinkBetween(y.tree, g, s, y.top, c), c, g), c)
      OBVIOUS
    <3>7. u = RotateSetParents(w, g, y.top, FALSE) /\ Done
      BY <1>1, <2>2, <2>4, <3>3, <3>4, <3>5, <3>6 DEF RotateUp
    <3>8. Settled(D, u, rank, len)
      <4>1. CASE Child(t, p, o) # n
        <5>1. y.tree = t /\ y.top = p
          BY <3>3, <3>4, <4>1 DEF Straighten
        <5>2. Child(t, p, s) = n
          BY <3>1, <3>2, <3>3, <4>1, SidesFacts
        <5>3. c = Child(t, p, o) /\ c \in D \cup {None}
          BY <1>2, <3>1, <3>5, <5>1, Fields
        <5>4. w = SetBlack(SetParent(LinkBetween(t, g, s, p, c), c, g), c)
          BY <3>6, <5>1
        <5>5. HandedOver(D, t, w, g, s, p, c)
          BY <1>2, <3>1, <3>2, <5>3, <5>4, HandOverLaw
        <5>6. w \in Trees(D) /\ Lifting(D, t, w, g, s, p, c, c)
          BY <5>5 DEF HandedOver, Lifting
        <5>7. u = RotateSetParents(w, g, p, FALSE) /\ ~ IsRed(t, Child(t, g, o))
          BY <2>1, <2>4, <3>3, <3>7, <5>1
        <5> QED
          BY <1>2, <1>6, <2>1, <3>2, <3>3, <5>2, <5>3, <5>6, <5>7, SingleRotation
      <4>2. CASE Child(t, p, o) = n
        <5>1. PICK d : d = Child(t, n, s)
          OBVIOUS
        <5>2. PICK t2 : t2 = SetBlack(SetParent(LinkBetween(t, p, o, n, d), d, p), d)
          OBVIOUS
        <5>3. PICK t3 : t3 = SetRed(SetParent(t2, p, n), p)
          OBVIOUS
        <5>4. y.tree = t3 /\ y.top = n
          BY <3>3, <3>4, <4>2, <5>1, <5>2, <5>3 DEF Straighten
        <5>5. d \in D \cup {None}
          BY <1>2, <1>3, <3>2, <5>1, Fields
        <5>6. HandedOver(D, t, t2, p, o, n, d)
          BY <1>2, <1>3, <3>1, <5>2, <5>5, HandOverLaw
        <5>7. u = RotatedUp(t3, g, s, n) /\ ~ IsRed(t, Child(t, g, o))
          BY <2>1, <2>4, <3>3, <3>5, <3>6, <3>7, <5>4 DEF RotatedUp
        <5> QED
          <6>1. /\ None \notin D /\ t \in Trees(D) /\ Placed(t, rank, edge, len)
                /\ Rising(t, h, n, p) /\ IsRed(t, p) /\ g = Parent(t, p)
                /\ s \in Sides /\ o \in Sides /\ o = Opposite(s)
                /\ Child(t, g, s) = p /\ Child(t, p, o) = n /\ ~ IsRed(t, Child(t, g, o))
            BY <1>2, <1>6, <2>1, <3>2, <3>3, <4>2, <5>7
          <6>2. rank \in Ranks(D) /\ edge \in Edges(D) /\ h \in Heights(D)
            BY <1>2
          <6> QED
            BY <5>1, <5>3, <5>6, <5>7, <6>1, <6>2, DoubleRotation
      <4> QED
        BY <4>1, <4>2
    <3> QED
      BY <1>1, <3>7, <3>8 DEF Done
  <2> QED
    BY <2>3, <2>4
<1> QED
  BY <1>4, <1>5, <1>6

-----------------------------------------------------------------------------
(* The steps of Erase's loop. *)

(* The node that lacks a black node has a black sibling. *)
BlackBeside(D, t, rank, len, h, n, p, o) ==
  /\ t \in Trees(D) /\ \E edge \in Edges(D) : Placed(t, rank, edge, len)
  /\ Lacking(t, h, n, p, o) /\ ~ IsRed(t, Child(t, p, Opposite(o)))

(* LiftRedSibling, when the sibling is red. *)
LEMMA RedSiblingRotation ==
  ASSUME NEW D, None \notin D, NEW t \in Trees(D), NEW rank \in Ranks(D),
         NEW edge \in Edges(D), NEW len, Placed(t, rank, edge, len), NEW h \in Heights(D),
         NEW n, NEW p, NEW o \in Sides, Lacking(t, h, n, p, o),
         NEW s \in Sides, s = Opposite(o), NEW b, b = Child(t, p, s), IsRed(t, b),
         NEW c, c = Child(t, b, o),
         NEW w, w = SetBlack(SetParent(LinkBetween(t, p, s, b, c), c, p), c),
         NEW u, u = RotateSetParents(w, p, b, FALSE)
  PROVE  BlackBeside(D, u, rank, len, h, n, p, o)
<1>1. p \in D /\ b \in D /\ b # p /\ b # None /\ o = Opposite(s)
  BY LackingFacts
<1>2. c \in D \cup {None} /\ c # p
  <2>1. c # p
    BY <1>1, ChildFacts
  <2> QED
    BY <1>1, <2>1, Fields
<1>3. HandedOver(D, t, w, p, s, b, c)
  BY <1>1, <1>2, HandOverLaw
<1>4. w \in Trees(D) /\ Lifting(D, t, w, p, s, b, c, c)
  BY <1>3 DEF HandedOver, Lifting
<1>5. RotatedTo(D, t, u, rank, len, p, s, b, c, FALSE, c)
  <2>1. FALSE \in BOOLEAN
    OBVIOUS
  <2> QED
    BY <1>1, <1>2, <1>4, <2>1, RotationLaw
<1>6. PICK e \in Sides : /\ Parent(t, p) # None => Child(t, Parent(t, p), e) = p
                         /\ Turned(D, t, u, p, s, b, c, e)
  BY <1>5 DEF RotatedTo
<1>7. u \in Trees(D) /\ TurnedColors(D, t, u, p, b, FALSE, c)
  BY <1>5 DEF RotatedTo
<1>8. Lacking(u, h, n, p, o) /\ ~ IsRed(u, Child(u, p, s))
  BY <1>6, <1>7, RedSiblingLifted, ZenonT(60)
<1> QED
  BY <1>5, <1>8 DEF RotatedTo, BlackBeside

(* LiftRedSibling. *)
LEMMA LiftRedSiblingStep ==
  ASSUME NEW D, None \notin D, NEW t \in Trees(D), NEW rank \in Ranks(D),
         NEW edge \in Edges(D), NEW len, Placed(t, rank, edge, len), NEW h \in Heights(D),
         NEW n, NEW p, NEW o \in Sides, Lacking(t, h, n, p, o),
         NEW s \in Sides, s = Opposite(o), NEW u, u = LiftRedSibling(t, p, s)
  PROVE  BlackBeside(D, u, rank, len, h, n, p, o)
<1>1. PICK b : b = Child(t, p, s)
  OBVIOUS
<1>2. o = Opposite(s)
  BY SidesFacts
<1>3. CASE ~ IsRed(t, b)
  BY <1>1, <1>3 DEF LiftRedSibling, BlackBeside
<1>4. CASE IsRed(t, b)
  <2>1. PICK c : c = Child(t, b, o)
    OBVIOUS
  <2>2. PICK w : w = SetBlack(SetParent(LinkBetween(t, p, s, b, c), c, p), c)
    OBVIOUS
  <2>3. u = RotateSetParents(w, p, b, FALSE)
    BY <1>1, <1>2, <1>4, <2>1, <2>2 DEF LiftRedSibling
  <2> QED
    BY <1>1, <1>4, <2>1, <2>2, <2>3, RedSiblingRotation, ZenonT(60)
<1> QED
  BY <1>3, <1>4

(* No nephew is red. *)
LEMMA RedSiblingStep ==
  ASSUME NEW D, None \notin D, NEW t \in Trees(D), NEW rank \in Ranks(D),
         NEW edge \in Edges(D), NEW len, Placed(t, rank, edge, len), NEW h \in Heights(D),
         NEW n, NEW p, NEW o \in Sides, Lacking(t, h, n, p, o),
         NEW s \in Sides, s = Opposite(o), NEW b, b = Child(t, p, s), ~ IsRed(t, b),
         ~ IsRed(t, Child(t, b, s)), ~ IsRed(t, Child(t, b, o)),
         NEW t1, t1 = SetRed(SetParent(t, b, p), b),
         NEW u, u = IF IsRed(t1, p) THEN SetBlack(t1, p) ELSE t1
  PROVE  /\ p \in D /\ (IsRed(t1, p) <=> IsRed(t, p)) /\ Parent(t1, p) = Parent(t, p)
         /\ IsRed(t, p) \/ Parent(t, p) = None => Settled(D, u, rank, len)
         /\ ~ IsRed(t, p) /\ Parent(t, p) # None => LacksOn(D, u, rank, len, p, Parent(t, p))
<1>1. p \in D /\ b \in D /\ b # p /\ Parent(t, b) = p /\ p # None
  BY LackingFacts
<1>2. PICK t2 : t2 = SetParent(t, b, p)
  OBVIOUS
<1>3. ParentSet(D, t, t2, b, p)
  BY <1>1, <1>2, ParentSetBy
<1>4. t2 \in Trees(D) /\ t1 = SetRed(t2, b)
  BY <1>2, <1>3 DEF ParentSet
<1>5. Reddened(D, t2, t1, b)
  BY <1>1, <1>4, ReddenedBy
<1>6. /\ t1 \in Trees(D) /\ SameLinks(D, t, t1)
      /\ \A m \in D : Black(t1, m) = (m # b /\ Black(t, m))
  BY <1>1, <1>3, <1>5 DEF ParentSet, Reddened, SameLinks
<1>7. \A m \in D : Black(t, m) \in BOOLEAN /\ Black(t1, m) \in BOOLEAN
  BY <1>6, Fields
<1>8. /\ IsRed(t1, p) <=> ~ Black(t1, p)
      /\ IsRed(t, p) <=> ~ Black(t, p)
      /\ IsRed(t1, p) <=> IsRed(t, p)
  <2>1. (IsRed(t1, p) <=> ~ Black(t1, p)) /\ (IsRed(t, p) <=> ~ Black(t, p))
    BY <1>1 DEF IsRed, Black
  <2> QED
    BY <2>1, <1>1, <1>6
<1>9. u \in Trees(D) /\ BlackPassed(D, t, u, b, p)
  <2>1. CASE IsRed(t1, p)
    <3>1. u = SetBlack(t1, p) /\ t1 \in Trees(D)
      BY <2>1, <1>6
    <3>2. Blackened(D, t1, u, p)
      BY <1>1, <3>1, BlackenedBy
    <3>3. \A m \in D : Black(u, m) = (m # b /\ (m = p \/ Black(t, m)))
      BY <1>1, <1>6, <1>7, <3>2 DEF Blackened
    <3> QED
      BY <1>6, <3>2, <3>3 DEF Blackened, BlackPassed, SameLinks
  <2>2. CASE ~ IsRed(t1, p)
    <3>1. u = t1 /\ Black(t, p)
      BY <2>2, <1>1, <1>7, <1>8
    <3>2. \A m \in D : Black(u, m) = (m # b /\ (m = p \/ Black(t, m)))
      BY <1>1, <1>6, <1>7, <3>1
    <3> QED
      BY <1>6, <3>1, <3>2 DEF BlackPassed
  <2> QED
    BY <2>1, <2>2
<1>10. PICK h2 : h2 = [h EXCEPT ![p] = h[p] - 1]
  OBVIOUS
<1>11. /\ h2 \in Heights(D)
       /\ \A m \in D, q \in Sides : RedApart(u, m, q)
       /\ \A m \in D, q \in Sides : (IsRed(t, p) \/ Child(t, m, q) # p) => Even(u, h2, m, q)
       /\ ~ IsRed(t, p) => Weight(u, h2, p) + 1 = Weight(t, h, p)
       /\ ~ IsRed(u, p) /\ ~ IsRed(u, u.root)
  <2>1. Passed(D, t, u, h, h2, p)
    BY <1>9, <1>10, SiblingReddened
  <2> QED
    BY <2>1 DEF Passed
<1>12. Placed(u, rank, edge, len)
  BY <1>9, SameLinksPlaced DEF BlackPassed
<1>13. PICK g : g = Parent(t, p)
  OBVIOUS
<1>14. DOMAIN u.links = D
  BY <1>9, Fields
<1>15. ASSUME IsRed(t, p) \/ g = None PROVE Settled(D, u, rank, len)
  <2>1. g = None => \A m \in D, q \in Sides : Child(t, m, q) # p
    <3>1. g = None => p = t.root
      BY <1>1, <1>13, ParentFacts
    <3> QED
      BY <1>1, <3>1, ChildFacts
  <2>2. Calm(u, h2)
    BY <1>11, <1>14, <1>15, <2>1 DEF Calm
  <2> QED
    BY <1>9, <1>11, <1>12, <2>2 DEF Settled
<1>16. ASSUME ~ IsRed(t, p), g # None PROVE LacksOn(D, u, rank, len, p, g)
  <2>1. g \in D /\ g # p /\ \E e \in Sides : Child(t, g, e) = p /\ Child(t, g, Opposite(e)) # p
    BY <1>1, <1>13, <1>16, ParentFacts
  <2>2. PICK e \in Sides : Child(t, g, e) = p
    BY <2>1
  <2>3. Weight(t, h, p) = h[g] /\ h2[g] = h[g]
    <3>1. Even(t, h, g, e)
      BY <2>1, LackingFacts
    <3> QED
      BY <2>1, <2>2, <3>1, <1>1, <1>10 DEF Even, Heights
  <2>4. \A m \in D, q \in Sides : Child(t, m, q) = p => m = g /\ q = e
    <3>1. ASSUME NEW m \in D, NEW q \in Sides, Child(t, m, q) = p PROVE m = g /\ q = e
      <4>1. m = g
        BY <1>1, <1>13, <3>1, ChildFacts
      <4>2. Child(t, g, Opposite(e)) # p
        BY <1>1, <2>1, <2>2, ChildFacts
      <4> QED
        BY <3>1, <4>1, <4>2, SidesFacts
    <3> QED
      BY <3>1
  <2>5. p = Child(u, g, e)
    BY <1>9, <2>1, <2>2 DEF BlackPassed, SameLinks
  <2>6. Lacking(u, h2, p, g, e)
    <3>1. g \in DOMAIN u.links /\ Weight(u, h2, p) + 1 = h2[g]
      BY <1>11, <1>14, <1>16, <2>1, <2>3
    <3>2. ~ IsRed(u, p) /\ ~ IsRed(u, u.root)
      BY <1>11, <1>16
    <3>3. \A m \in DOMAIN u.links, q \in Sides :
            ((m # g \/ q # e) => Even(u, h2, m, q)) /\ RedApart(u, m, q)
      BY <1>11, <1>14, <2>4
    <3> QED
      BY <2>5, <3>1, <3>2, <3>3 DEF Lacking
  <2> QED
    BY <1>9, <1>11, <1>12, <2>6 DEF LacksOn
<1>17. Parent(t1, p) = Parent(t, p)
  BY <1>1, <1>6 DEF SameLinks
<1> QED
  BY <1>1, <1>8, <1>13, <1>15, <1>16, <1>17

(* All of LiftSibling but RotateSetParents. *)
NephewUp(D, t, w, p, s, b, c, x) ==
  /\ w \in Trees(D) /\ w.root = t.root
  /\ \A m \in D : /\ Parent(w, m) = IF m = c THEN p ELSE IF m = x THEN b ELSE Parent(t, m)
                  /\ Black(w, m) = (m = x \/ Black(t, m))
  /\ \A m \in D, q \in Sides :
       Child(w, m, q) = IF m = p /\ q = s THEN c
                        ELSE IF m = b /\ q = Opposite(s) THEN p ELSE Child(t, m, q)

(* So the fields are, link by link. *)
LEMMA NephewUpLaw ==
  ASSUME NEW D, None \notin D, NEW t \in Trees(D), NEW p \in D, NEW s \in Sides, NEW b \in D,
         p # b, NEW c \in D \cup {None}, NEW x \in D,
         NEW w, w = SetParent(SetBlack(SetParent(LinkBetween(t, p, s, b, c), x, b), x), c, p)
  PROVE  NephewUp(D, t, w, p, s, b, c, x)
<1>1. PICK t1 : t1 = LinkBetween(t, p, s, b, c)
  OBVIOUS
<1>2. PICK t2 : t2 = SetParent(t1, x, b)
  OBVIOUS
<1>3. PICK t3 : t3 = SetBlack(t2, x)
  OBVIOUS
<1>4. w = SetParent(t3, c, p)
  BY <1>1, <1>2, <1>3
<1>5. p \in D \cup {None} /\ b \in D \cup {None} /\ x \in D \cup {None}
  OBVIOUS
<1>6. GoneOver(D, t, t1, p, s, b, c)
  BY <1>1, LinkBetweenLaw
<1>7. t1 \in Trees(D)
  BY <1>6 DEF GoneOver
<1>8. ParentSet(D, t1, t2, x, b)
  BY <1>2, <1>5, <1>7, ParentSetBy
<1>9. t2 \in Trees(D)
  BY <1>8 DEF ParentSet
<1>10. Blackened(D, t2, t3, x)
  BY <1>3, <1>5, <1>9, BlackenedBy
<1>11. t3 \in Trees(D)
  BY <1>10 DEF Blackened
<1>12. ParentSet(D, t3, w, c, p)
  BY <1>4, <1>5, <1>11, ParentSetBy
<1>13. \A m \in D, q \in Sides : Child(w, m, q) = Child(t1, m, q)
  BY <1>8, <1>10, <1>12 DEF ParentSet, Blackened, SameLinks
<1>14. /\ w \in Trees(D) /\ w.root = t.root
       /\ \A m \in D : /\ Parent(w, m) = IF m = c THEN p ELSE IF m = x THEN b ELSE Parent(t, m)
                       /\ Black(w, m) = (m = x \/ Black(t, m))
  BY <1>6, <1>8, <1>10, <1>12 DEF GoneOver, ParentSet, Blackened, SameLinks
<1> QED
  BY <1>6, <1>13, <1>14 DEF GoneOver, NephewUp

(* LiftSibling, with w on the way to it. *)
LEMMA NephewRotation ==
  ASSUME NEW D, None \notin D, NEW t \in Trees(D), NEW rank \in Ranks(D),
         NEW edge \in Edges(D), NEW len, Placed(t, rank, edge, len), NEW h \in Heights(D),
         NEW n, NEW p, NEW o \in Sides, Lacking(t, h, n, p, o),
         NEW s \in Sides, s = Opposite(o), NEW b, b = Child(t, p, s), ~ IsRed(t, b),
         NEW x, x = Child(t, b, s), IsRed(t, x), NEW c, c = Child(t, b, o),
         NEW w \in Trees(D), Lifting(D, t, w, p, s, b, c, x),
         NEW u, u = RotateSetParents(w, p, b, TRUE)
  PROVE  Settled(D, u, rank, len)
<1>1. p \in D /\ b \in D /\ b # p /\ b # None /\ o = Opposite(s)
  BY LackingFacts
<1>2. x # p
  BY <1>1, ChildFacts
<1>3. RotatedTo(D, t, u, rank, len, p, s, b, c, TRUE, x)
  <2>1. TRUE \in BOOLEAN
    OBVIOUS
  <2> QED
    BY <1>1, <1>2, <2>1, RotationLaw
<1>4. PICK e \in Sides : /\ Parent(t, p) # None => Child(t, Parent(t, p), e) = p
                         /\ Turned(D, t, u, p, s, b, c, e)
  BY <1>3 DEF RotatedTo
<1>5. u \in Trees(D) /\ TurnedColors(D, t, u, p, b, TRUE, x)
  BY <1>3 DEF RotatedTo
<1>6. PICK h2 : h2 = [h EXCEPT ![p] = h[p] - 1, ![b] = h[p]]
  OBVIOUS
<1>7. h2 \in Heights(D) /\ Calm(u, h2)
  BY <1>4, <1>5, <1>6, SiblingLifted, ZenonT(60)
<1> QED
  BY <1>3, <1>7 DEF RotatedTo, Settled

(* The outer nephew is red. *)
LEMMA OuterNephewStep ==
  ASSUME NEW D, None \notin D, NEW t \in Trees(D), NEW rank \in Ranks(D),
         NEW edge \in Edges(D), NEW len, Placed(t, rank, edge, len), NEW h \in Heights(D),
         NEW n, NEW p, NEW o \in Sides, Lacking(t, h, n, p, o),
         NEW s \in Sides, s = Opposite(o), NEW b, b = Child(t, p, s), ~ IsRed(t, b),
         NEW x, x = Child(t, b, s), IsRed(t, x), NEW u, u = LiftSibling(t, p, s)
  PROVE  Settled(D, u, rank, len)
<1>1. p \in D /\ b \in D /\ b # p /\ o = Opposite(s)
  BY LackingFacts
<1>2. x \in D /\ Parent(t, x) = b
  <2>1. x # None
    BY DEF IsRed
  <2> QED
    BY <1>1, <2>1, ChildFacts
<1>3. PICK c : c = Child(t, b, o)
  OBVIOUS
<1>4. c \in D \cup {None} /\ c # x
  <2>1. c # x
    <3>1. x = Child(t, b, s) /\ x # None
      BY <1>2
    <3>2. x # Child(t, b, Opposite(s))
      BY <1>1, <3>1, ChildFacts
    <3> QED
      BY <1>1, <1>3, <3>2
  <2> QED
    BY <1>1, <1>3, <2>1, Fields
<1>5. PICK w : w = SetParent(SetBlack(SetParent(LinkBetween(t, p, s, b, c), x, b), x), c, p)
  OBVIOUS
<1>6. u = RotateSetParents(w, p, b, TRUE)
  BY <1>1, <1>3, <1>5 DEF LiftSibling
<1>7. NephewUp(D, t, w, p, s, b, c, x)
  BY <1>1, <1>2, <1>4, <1>5, NephewUpLaw
<1>8. w \in Trees(D) /\ Lifting(D, t, w, p, s, b, c, x)
  BY <1>2, <1>7 DEF NephewUp, Lifting
<1> QED
  BY <1>3, <1>6, <1>8, NephewRotation

(* Only the inner nephew is red: v is the tree with it over the sibling      *)
(* already, with the parents and the colors that the code sets at the end.   *)
LEMMA InnerNephewStep ==
  ASSUME NEW D, None \notin D, NEW t \in Trees(D), NEW rank \in Ranks(D),
         NEW edge \in Edges(D), NEW len, Placed(t, rank, edge, len), NEW h \in Heights(D),
         NEW n, NEW p, NEW o \in Sides, Lacking(t, h, n, p, o),
         NEW s \in Sides, s = Opposite(o), NEW b, b = Child(t, p, s), ~ IsRed(t, b),
         NEW i, i = Child(t, b, o), IsRed(t, i), ~ IsRed(t, Child(t, b, s)),
         NEW u, u = LiftSibling(TurnSibling(t, p, s), p, s)
  PROVE  Settled(D, u, rank, len)
<1>1. /\ p \in D /\ b \in D /\ b # p /\ o = Opposite(s) /\ s # o /\ Parent(t, b) = p /\ b # None
      /\ \A m \in D, q \in Sides : RedApart(t, m, q)
  BY LackingFacts
<1>2. i \in D /\ i # b /\ Parent(t, i) = b /\ i # None /\ i # p
  <2>1. i # None
    BY DEF IsRed
  <2>2. i # p
    BY <1>1, ChildFacts
  <2> QED
    BY <1>1, <2>1, <2>2, ChildFacts
<1>3. PICK c : c = Child(t, i, s)
  OBVIOUS
<1>4. c \in D \cup {None} /\ ~ IsRed(t, c) /\ c # i /\ c # b
  <2>1. RedApart(t, i, s)
    BY <1>1, <1>2
  <2>2. c # i
    BY <1>2, <1>3, ChildFacts
  <2>3. i = Child(t, b, o) /\ i # None /\ b \in D /\ o \in Sides
    BY <1>1, <1>2
  <2>4. \A q \in Sides : Child(t, i, q) # b
    BY <2>3, ChildFacts
  <2> QED
    BY <1>2, <1>3, <2>1, <2>2, <2>4, Fields DEF RedApart
<1>5. /\ \A m \in D : Black(t, m) \in BOOLEAN
      /\ ~ Black(t, i) /\ Black(t, b) /\ (c # None => Black(t, c))
  BY <1>1, <1>2, <1>4, Fields DEF IsRed, Black
<1>6. PICK t1 : t1 = LinkBetween(t, b, o, i, c)
  OBVIOUS
<1>7. PICK t2 : t2 = SetChild(t1, p, s, i)
  OBVIOUS
<1>8. PICK t3 : t3 = SetParent(t2, c, b)
  OBVIOUS
<1>9. PICK t4 : t4 = SetBlack(t3, c)
  OBVIOUS
<1>10. t4 = TurnSibling(t, p, s)
  BY <1>1, <1>3, <1>6, <1>7, <1>8, <1>9 DEF TurnSibling
<1>11. GoneOver(D, t, t1, b, o, i, c)
  BY <1>1, <1>2, <1>4, <1>6, LinkBetweenLaw
<1>12. t1 \in Trees(D) /\ i \in D \cup {None} /\ b \in D \cup {None} /\ p \in D \cup {None}
  BY <1>1, <1>2, <1>11 DEF GoneOver
<1>13. ChildSet(D, t1, t2, p, s, i)
  BY <1>1, <1>7, <1>12, ChildSetBy
<1>14. t2 \in Trees(D)
  BY <1>13 DEF ChildSet
<1>15. ParentSet(D, t2, t3, c, b)
  BY <1>4, <1>8, <1>12, <1>14, ParentSetBy
<1>16. t3 \in Trees(D)
  BY <1>15 DEF ParentSet
<1>17. Blackened(D, t3, t4, c)
  BY <1>4, <1>9, <1>16, BlackenedBy
<1>18. /\ t4 \in Trees(D) /\ t4.root = t.root
       /\ \A m \in D : Parent(t4, m) = IF m = c THEN b ELSE Parent(t, m)
       /\ \A m \in D : Black(t4, m) = Black(t, m)
       /\ \A m \in D, q \in Sides :
            Child(t4, m, q) = IF m = p /\ q = s THEN i ELSE IF m = b /\ q = o THEN c
                              ELSE IF m = i /\ q = s THEN b ELSE Child(t, m, q)
  <2>1. \A m \in D, q \in Sides : Child(t4, m, q) = Child(t2, m, q)
    BY <1>15, <1>17 DEF ParentSet, Blackened, SameLinks
  <2>2. \A m \in D, q \in Sides :
          Child(t4, m, q) = IF m = p /\ q = s THEN i ELSE IF m = b /\ q = o THEN c
                            ELSE IF m = i /\ q = s THEN b ELSE Child(t, m, q)
    <3>1. Opposite(o) = s
      OBVIOUS
    <3> QED
      BY <2>1, <3>1, <1>11, <1>13 DEF GoneOver, ChildSet
  <2>3. \A m \in D : Parent(t4, m) = IF m = c THEN b ELSE Parent(t, m)
    BY <1>11, <1>13, <1>15, <1>17 DEF GoneOver, ChildSet, ParentSet, Blackened, SameLinks
  <2>4. \A m \in D : Black(t4, m) = (m = c \/ Black(t, m))
    BY <1>11, <1>13, <1>15, <1>17 DEF GoneOver, ChildSet, ParentSet, Blackened
  <2>5. \A m \in D : Black(t4, m) = Black(t, m)
    BY <2>4, <1>5
  <2>6. t4 \in Trees(D) /\ t4.root = t.root
    BY <1>11, <1>13, <1>15, <1>17 DEF GoneOver, ChildSet, ParentSet, Blackened, SameLinks
  <2> QED
    BY <2>2, <2>3, <2>5, <2>6
<1>19. PICK v1 : v1 = SetParent(t4, b, i)
  OBVIOUS
<1>20. PICK v2 : v2 = SetParent(v1, i, p)
  OBVIOUS
<1>21. PICK v3 : v3 = SetBlack(v2, i)
  OBVIOUS
<1>22. PICK v : v = SetRed(v3, b)
  OBVIOUS
<1>23. t4 \in Trees(D)
  BY <1>18
<1>24. ParentSet(D, t4, v1, b, i)
  BY <1>12, <1>19, <1>23, ParentSetBy
<1>25. v1 \in Trees(D)
  BY <1>24 DEF ParentSet
<1>26. ParentSet(D, v1, v2, i, p)
  BY <1>12, <1>20, <1>25, ParentSetBy
<1>27. v2 \in Trees(D)
  BY <1>26 DEF ParentSet
<1>28. Blackened(D, v2, v3, i)
  BY <1>12, <1>21, <1>27, BlackenedBy
<1>29. v3 \in Trees(D)
  BY <1>28 DEF Blackened
<1>30. Reddened(D, v3, v, b)
  BY <1>1, <1>22, <1>29, ReddenedBy
<1>31. /\ v \in Trees(D) /\ v.root = t.root
       /\ \A m \in D : Parent(v, m) = IF m = i THEN p ELSE IF m = b THEN i
                                      ELSE IF m = c THEN b ELSE Parent(t, m)
       /\ \A m \in D : Black(v, m) = IF m = i THEN TRUE ELSE IF m = b THEN FALSE ELSE Black(t, m)
       /\ \A m \in D, q \in Sides : Child(v, m, q) = Child(t4, m, q)
  <2>1. \A m \in D, q \in Sides : Child(v, m, q) = Child(t4, m, q)
    BY <1>24, <1>26, <1>28, <1>30 DEF ParentSet, Blackened, Reddened, SameLinks
  <2>2. \A m \in D : Parent(v, m) = IF m = i THEN p ELSE IF m = b THEN i ELSE Parent(t4, m)
    BY <1>24, <1>26, <1>28, <1>30 DEF ParentSet, Blackened, Reddened, SameLinks
  <2>3. \A m \in D : Black(v, m) = (m # b /\ (m = i \/ Black(t4, m)))
    BY <1>24, <1>26, <1>28, <1>30 DEF ParentSet, Blackened, Reddened
  <2>4. v \in Trees(D) /\ v.root = t.root
    BY <1>18, <1>24, <1>26, <1>28, <1>30 DEF ParentSet, Blackened, Reddened, SameLinks
  <2>5. \A m \in D : Parent(v, m) = IF m = i THEN p ELSE IF m = b THEN i
                                    ELSE IF m = c THEN b ELSE Parent(t, m)
    <3>1. \A m \in D : Parent(t4, m) = IF m = c THEN b ELSE Parent(t, m)
      BY <1>18
    <3> QED
      BY <2>2, <3>1
  <2>6. \A m \in D : Black(v, m) = IF m = i THEN TRUE ELSE IF m = b THEN FALSE ELSE Black(t, m)
    <3>1. \A m \in D : Black(t4, m) = Black(t, m) /\ Black(t, m) \in BOOLEAN
      BY <1>5, <1>18
    <3> QED
      BY <2>3, <3>1, <1>2
  <2> QED
    BY <2>1, <2>4, <2>5, <2>6
<1>32. Turned(D, t, v, b, o, i, c, s) /\ SwappedColors(D, t, v, b, i) /\ v \in Trees(D)
  <2>1. \A m \in D, q \in Sides :
          Child(v, m, q) = IF m = b /\ q = o THEN c ELSE IF m = i /\ q = Opposite(o) THEN b
                           ELSE IF m = Parent(t, b) /\ q = s THEN i ELSE Child(t, m, q)
    BY <1>1, <1>2, <1>18, <1>31
  <2>2. \A m \in D :
          Parent(v, m) = IF m = i THEN Parent(t, b) ELSE IF m = b THEN i
                         ELSE IF m = c THEN b ELSE Parent(t, m)
    BY <1>1, <1>31
  <2>3. v.root = IF Parent(t, b) = None THEN i ELSE t.root
    BY <1>1, <1>31
  <2> QED
    BY <2>1, <2>2, <2>3, <1>31 DEF Turned, SwappedColors
<1>33. /\ Lacking(v, h, n, p, o) /\ Child(v, p, s) = i /\ ~ IsRed(v, i)
       /\ Child(v, i, s) = b /\ IsRed(v, b) /\ Child(v, i, o) = Child(t, i, o)
       /\ Parent(v, p) = Parent(t, p)
  BY <1>3, <1>32, SiblingTurned
<1>34. PICK edge1 : edge1 = TurnedEdge(rank, edge, b, o, i)
  OBVIOUS
<1>35. edge1 \in Edges(D) /\ Placed(v, rank, edge1, len)
  <2>1. Parent(t, b) # None => Child(t, Parent(t, b), s) = b
    BY <1>1
  <2>2. c = Child(t, i, Opposite(o)) /\ i = Child(t, b, o) /\ i # None /\ b \in D
    BY <1>1, <1>2, <1>3
  <2> QED
    BY <1>1, <1>2, <1>32, <1>34, <2>1, <2>2, TurnedPlaced
<1>36. PICK d : d = Child(v, i, o)
  OBVIOUS
<1>37. d \in D \cup {None}
  BY <1>2, <1>32, <1>36, Fields
<1>38. PICK w : w = SetParent(SetBlack(SetParent(LinkBetween(t4, p, s, i, d), b, i), b), d, p)
  OBVIOUS
<1>39. u = RotateSetParents(w, p, i, TRUE)
  <2>1. Child(t4, p, s) = i /\ Child(t4, i, s) = b /\ Child(t4, i, o) = d
    BY <1>1, <1>2, <1>31, <1>33, <1>36
  <2>2. u = LiftSibling(t4, p, s)
    BY <1>10
  <2> QED
    BY <1>1, <1>38, <2>1, <2>2 DEF LiftSibling
<1>40. NephewUp(D, t4, w, p, s, i, d, b)
  BY <1>1, <1>2, <1>23, <1>37, <1>38, NephewUpLaw
<1>41. w \in Trees(D) /\ Lifting(D, v, w, p, s, i, d, b)
  <2>1. \A m \in D : m # i => Parent(w, m) = IF m = d THEN p ELSE Parent(v, m)
    <3>1. d # b
      <4>1. i = Child(t, b, o) /\ i # None /\ b \in D /\ o \in Sides
        BY <1>1, <1>2
      <4>2. \A q \in Sides : Child(t, i, q) # b
        BY <4>1, ChildFacts
      <4> QED
        BY <4>2, <1>33, <1>36
    <3>2. \A m \in D : Parent(w, m) = IF m = d THEN p ELSE IF m = b THEN i ELSE Parent(t4, m)
      BY <1>40 DEF NephewUp
    <3> QED
      BY <3>1, <3>2, <1>18, <1>31
  <2>2. \A m \in D : m # i => Black(w, m) = (m = b \/ Black(v, m))
    <3>1. \A m \in D : Black(w, m) = (m = b \/ Black(t4, m))
      BY <1>40 DEF NephewUp
    <3> QED
      BY <3>1, <1>18, <1>31
  <2>3. w \in Trees(D) /\ w.root = v.root
    BY <1>18, <1>31, <1>40 DEF NephewUp
  <2>4. \A m \in D, q \in Sides :
          Child(w, m, q) = IF m = p /\ q = s THEN d
                           ELSE IF m = i /\ q = Opposite(s) THEN p ELSE Child(v, m, q)
    BY <1>31, <1>40 DEF NephewUp
  <2> QED
    BY <2>1, <2>2, <2>3, <2>4 DEF Lifting
<1> QED
  <2>1. /\ v \in Trees(D) /\ edge1 \in Edges(D) /\ Placed(v, rank, edge1, len)
        /\ Lacking(v, h, n, p, o) /\ i = Child(v, p, s) /\ ~ IsRed(v, i)
        /\ b = Child(v, i, s) /\ IsRed(v, b) /\ d = Child(v, i, o)
    BY <1>32, <1>33, <1>35, <1>36
  <2> QED
    BY <2>1, <1>39, <1>41, NephewRotation

(* RebalanceErase: a step of the loop ends it or goes on further up. *)
LEMMA RebalanceEraseStep ==
  ASSUME NEW rank \in Ranks(Linked), NEW edge \in Edges(Linked), NEW h \in Heights(Linked),
         None \notin Linked, tree \in Trees(Linked), Placed(tree, rank, edge, length),
         NEW o \in Sides, Lacking(tree, h, node, parent, o), RebalanceErase
  PROVE  \/ /\ at' = "idle" /\ node' = None /\ parent' = None
            /\ Settled(Linked, tree', rank, length)
         \/ /\ at' = "erase" /\ node' \in Linked /\ parent' \in Linked \cup {None}
            /\ LacksOn(Linked, tree', rank, length, node', parent')
<1>1. PICK D, t0, u, n, p, len :
        D = Linked /\ t0 = tree /\ u = tree' /\ n = node /\ p = parent /\ len = length
  OBVIOUS
<1>2. /\ rank \in Ranks(D) /\ edge \in Edges(D) /\ h \in Heights(D) /\ None \notin D
      /\ t0 \in Trees(D) /\ Placed(t0, rank, edge, len) /\ Lacking(t0, h, n, p, o)
      /\ at = "erase"
  BY <1>1 DEF RebalanceErase
<1>3. PICK s \in Sides : s = Opposite(o)
  BY SidesFacts
<1>4. s = IF n = Child(t0, p, "right") THEN "left" ELSE "right"
  <2>1. PICK b : b = Child(t0, p, s)
    OBVIOUS
  <2>2. n = Child(t0, p, o) /\ b # n
    BY <1>2, <1>3, <2>1, LackingFacts
  <2> QED
    BY <1>3, <2>1, <2>2, SidesFacts
<1>5. PICK t : t = LiftRedSibling(t0, p, s)
  OBVIOUS
<1>6. BlackBeside(D, t, rank, len, h, n, p, o)
  BY <1>2, <1>3, <1>5, LiftRedSiblingStep
<1>7. PICK edge1 \in Edges(D) : Placed(t, rank, edge1, len)
  BY <1>6 DEF BlackBeside
<1>8. PICK b : b = Child(t, p, s)
  OBVIOUS
<1>9. /\ t \in Trees(D) /\ Lacking(t, h, n, p, o) /\ ~ IsRed(t, b)
  BY <1>3, <1>6, <1>8 DEF BlackBeside
<1>10. PICK t1 : t1 = SetRed(SetParent(t, b, p), b)
  OBVIOUS
<1>11. IF \E side \in {"left", "right"} : IsRed(t, Child(t, b, side))
       THEN u = LiftSibling(TurnSibling(t, p, s), p, s) /\ Done
       ELSE IF IsRed(t1, p) THEN u = SetBlack(t1, p) /\ Done
            ELSE /\ u = t1
                 /\ IF Parent(t1, p) = None THEN Done ELSE Continue(p, Parent(t1, p))
  BY <1>1, <1>4, <1>5, <1>8, <1>10 DEF RebalanceErase
<1>12. CASE IsRed(t, Child(t, b, s))
  <2>1. u = LiftSibling(TurnSibling(t, p, s), p, s) /\ Done
    BY <1>11, <1>12, SidesFacts DEF Sides
  <2>2. TurnSibling(t, p, s) = t
    BY <1>8, <1>12 DEF TurnSibling
  <2>3. u = LiftSibling(t, p, s)
    BY <2>1, <2>2
  <2>4. PICK x : x = Child(t, b, s)
    OBVIOUS
  <2>5. IsRed(t, x)
    BY <1>12, <2>4
  <2>6. Settled(D, u, rank, len)
    BY <1>2, <1>3, <1>7, <1>8, <1>9, <2>3, <2>4, <2>5, OuterNephewStep
  <2> QED
    BY <1>1, <2>1, <2>6 DEF Done
<1>13. CASE ~ IsRed(t, Child(t, b, s)) /\ IsRed(t, Child(t, b, o))
  <2>1. u = LiftSibling(TurnSibling(t, p, s), p, s) /\ Done
    BY <1>11, <1>13, SidesFacts DEF Sides
  <2>2. PICK i : i = Child(t, b, o)
    OBVIOUS
  <2>3. IsRed(t, i) /\ ~ IsRed(t, Child(t, b, s))
    BY <1>13, <2>2
  <2>4. Settled(D, u, rank, len)
    BY <1>2, <1>3, <1>7, <1>8, <1>9, <2>1, <2>2, <2>3, InnerNephewStep
  <2> QED
    BY <1>1, <2>1, <2>4 DEF Done
<1>14. CASE ~ IsRed(t, Child(t, b, s)) /\ ~ IsRed(t, Child(t, b, o))
  <2>1. \A side \in {"left", "right"} : ~ IsRed(t, Child(t, b, side))
    BY <1>3, <1>14, SidesFacts DEF Sides
  <2>2. u = IF IsRed(t1, p) THEN SetBlack(t1, p) ELSE t1
    BY <1>11, <2>1
  <2>3. /\ p \in D /\ (IsRed(t1, p) <=> IsRed(t, p)) /\ Parent(t1, p) = Parent(t, p)
        /\ IsRed(t, p) \/ Parent(t, p) = None => Settled(D, u, rank, len)
        /\ ~ IsRed(t, p) /\ Parent(t, p) # None => LacksOn(D, u, rank, len, p, Parent(t, p))
    BY <1>2, <1>3, <1>7, <1>8, <1>9, <1>10, <1>14, <2>2, RedSiblingStep
  <2>4. CASE IsRed(t, p) \/ Parent(t, p) = None
    <3>1. Done
      BY <1>11, <2>1, <2>3, <2>4
    <3>2. Settled(D, u, rank, len)
      BY <2>3, <2>4
    <3> QED
      BY <1>1, <3>1, <3>2 DEF Done
  <2>5. CASE ~ IsRed(t, p) /\ Parent(t, p) # None
    <3>1. Continue(p, Parent(t, p))
      BY <1>11, <2>1, <2>3, <2>5
    <3>2. LacksOn(D, u, rank, len, p, Parent(t, p)) /\ Parent(t, p) \in D \cup {None}
      BY <1>9, <2>3, <2>5, Fields
    <3> QED
      BY <1>1, <1>2, <2>3, <3>1, <3>2 DEF Continue
  <2> QED
    BY <2>4, <2>5
<1> QED
  BY <1>12, <1>13, <1>14
-----------------------------------------------------------------------------
(* Places, and arguments along the ways down and up. *)

(* What holds of the tree, its places and its keys between any two steps. *)
Ordered(D, t, rank, edge, len) ==
  /\ None \notin D /\ t \in Trees(D) /\ rank \in Ranks(D) /\ edge \in Edges(D) /\ len \in Nat
  /\ Placed(t, rank, edge, len) /\ Numbered(D, rank, len)

(* Of natural numbers, one is the least. *)
LEMMA LeastValue ==
  ASSUME NEW S, S # {}, NEW f \in [S -> Nat]
  PROVE  \E n \in S : \A m \in S : f[n] <= f[m]
<1>1. PICK T : T = {f[n] : n \in S}
  OBVIOUS
<1>2. T \subseteq Nat /\ T # {}
  BY <1>1
<1>3. PICK x \in T : \A y \in T : ~ (<<y, x>> \in OpToRel(<, Nat))
  BY <1>2, NatLessThanWellFounded, WFMin, Zenon
<1>4. \A y \in T : ~ y < x
  BY <1>2, <1>3 DEF OpToRel
<1>5. PICK n \in S : f[n] = x
  BY <1>1, <1>3
<1>6. \A m \in S : f[m] \in T
  BY <1>1
<1> QED
  BY <1>2, <1>4, <1>5, <1>6

(* The places under a node are places of the tree, around its own. *)
LEMMA EdgeBounds ==
  ASSUME NEW D, NEW t, NEW rank, NEW edge, NEW len, Ordered(D, t, rank, edge, len)
  PROVE  \A n \in D : /\ rank[n] \in 1 .. len
                      /\ edge[n]["left"] \in 1 .. rank[n] /\ edge[n]["right"] \in rank[n] .. len
<1>1. /\ None \notin D /\ t \in Trees(D) /\ rank \in Ranks(D) /\ edge \in Edges(D)
      /\ len \in Nat /\ Placed(t, rank, edge, len)
      /\ \A n \in D : rank[n] \in 1 .. len
  BY DEF Ordered, Numbered
<1>2. \A n \in D : /\ edge[n]["left"] \in Int /\ edge[n]["right"] \in Int
                   /\ edge[n]["left"] <= rank[n] /\ rank[n] <= edge[n]["right"]
  BY <1>1, Fields DEF Placed, Edges, Sides
<1>3. ASSUME NEW n \in D, NEW p, p = Parent(t, n), p # None
      PROVE  /\ p \in D
             /\ \/ /\ edge[n]["left"] = edge[p]["left"] /\ edge[n]["right"] = rank[p] - 1
                \/ /\ edge[n]["right"] = edge[p]["right"] /\ edge[n]["left"] = rank[p] + 1
  <2>1. p \in D /\ \E e \in Sides : Child(t, p, e) = n
    BY <1>1, <1>3, ParentFacts
  <2>2. PICK e \in Sides : Child(t, p, e) = n
    BY <2>1
  <2>3. edge[n][e] = edge[p][e] /\ edge[n][Opposite(e)] = rank[p] + Dir(e)
    BY <1>1, <2>1, <2>2, ChildFacts
  <2>4. CASE e = "left"
    BY <1>1, <2>1, <2>3, <2>4, SidesFacts
  <2>5. CASE e = "right"
    BY <1>1, <2>1, <2>3, <2>5, SidesFacts
  <2> QED
    BY <2>1, <2>4, <2>5, SidesFacts
<1>4. \A n \in D : n = t.root => edge[n]["left"] = 1 /\ edge[n]["right"] = len
  BY <1>1 DEF Placed, Rooted
<1>5. \A n \in D : Parent(t, n) = None => n = t.root
  BY <1>1, ParentFacts
<1>6. \A n \in D : 1 <= edge[n]["left"]
  <2>1. SUFFICES ASSUME NEW S, S = {n \in D : ~ 1 <= edge[n]["left"]}, S # {} PROVE FALSE
    OBVIOUS
  <2>2. PICK f : f = [n \in S |-> len - rank[n]]
    OBVIOUS
  <2>3. f \in [S -> Nat] /\ \A n \in S : f[n] = len - rank[n]
    BY <1>1, <2>1, <2>2
  <2>4. PICK n \in S : \A m \in S : f[n] <= f[m]
    <3>1. S # {} /\ f \in [S -> Nat]
      BY <2>1, <2>3
    <3> QED
      BY <3>1, LeastValue
  <2>5. PICK p : p = Parent(t, n)
    OBVIOUS
  <2>6. n \in D /\ ~ 1 <= edge[n]["left"] /\ p # None
    BY <1>4, <1>5, <2>1, <2>5
  <2>7. /\ p \in D
        /\ \/ /\ edge[n]["left"] = edge[p]["left"] /\ edge[n]["right"] = rank[p] - 1
           \/ /\ edge[n]["right"] = edge[p]["right"] /\ edge[n]["left"] = rank[p] + 1
    BY <1>3, <2>5, <2>6
  <2>8. edge[n]["left"] = edge[p]["left"] /\ rank[n] < rank[p]
    BY <1>1, <1>2, <2>6, <2>7
  <2>9. p \in S
    BY <2>1, <2>6, <2>7, <2>8
  <2> QED
    BY <1>1, <2>3, <2>4, <2>6, <2>7, <2>8, <2>9
<1>7. \A n \in D : edge[n]["right"] <= len
  <2>1. SUFFICES ASSUME NEW S, S = {n \in D : ~ edge[n]["right"] <= len}, S # {} PROVE FALSE
    OBVIOUS
  <2>2. PICK f : f = [n \in S |-> rank[n]]
    OBVIOUS
  <2>3. f \in [S -> Nat] /\ \A n \in S : f[n] = rank[n]
    BY <1>1, <2>1, <2>2
  <2>4. PICK n \in S : \A m \in S : f[n] <= f[m]
    <3>1. S # {} /\ f \in [S -> Nat]
      BY <2>1, <2>3
    <3> QED
      BY <3>1, LeastValue
  <2>5. PICK p : p = Parent(t, n)
    OBVIOUS
  <2>6. n \in D /\ ~ edge[n]["right"] <= len /\ p # None
    BY <1>1, <1>4, <1>5, <2>1, <2>5
  <2>7. /\ p \in D
        /\ \/ /\ edge[n]["left"] = edge[p]["left"] /\ edge[n]["right"] = rank[p] - 1
           \/ /\ edge[n]["right"] = edge[p]["right"] /\ edge[n]["left"] = rank[p] + 1
    BY <1>3, <2>5, <2>6
  <2>8. edge[n]["right"] = edge[p]["right"] /\ rank[p] < rank[n]
    BY <1>1, <1>2, <2>6, <2>7
  <2>9. p \in S
    BY <2>1, <2>6, <2>7, <2>8
  <2> QED
    BY <1>1, <2>3, <2>4, <2>6, <2>7, <2>8, <2>9
<1> QED
  BY <1>1, <1>2, <1>6, <1>7

(* The places under a child are those on its side of the node. *)
LEMMA ChildPlaces ==
  ASSUME NEW D, NEW t, NEW rank, NEW edge, NEW len, Ordered(D, t, rank, edge, len),
         NEW n \in D, NEW s \in Sides, NEW c, c = Child(t, n, s)
  PROVE  /\ c = None => edge[n][s] = rank[n]
         /\ c # None =>
              /\ c \in D /\ Parent(t, c) = n /\ c # n
              /\ edge[c][s] = edge[n][s] /\ edge[c][Opposite(s)] = rank[n] + Dir(s)
              /\ s = "left" => /\ edge[c]["left"] = edge[n]["left"]
                               /\ edge[c]["right"] = rank[n] - 1
              /\ s = "right" => /\ edge[c]["right"] = edge[n]["right"]
                                /\ edge[c]["left"] = rank[n] + 1
<1>1. /\ None \notin D /\ t \in Trees(D) /\ rank \in Ranks(D) /\ edge \in Edges(D)
      /\ len \in Nat /\ Placed(t, rank, edge, len) /\ DOMAIN t.links = D
  BY Fields DEF Ordered
<1>2. rank[n] \in Int
  BY EdgeBounds
<1>3. CASE c = None
  BY <1>1, <1>3 DEF Placed, Hangs
<1>4. CASE c # None
  <2>1. /\ c \in D /\ Parent(t, c) = n /\ c # n
        /\ edge[c][s] = edge[n][s] /\ edge[c][Opposite(s)] = rank[n] + Dir(s)
    BY <1>1, <1>4, ChildFacts
  <2>2. CASE s = "left"
    BY <1>2, <1>4, <2>1, <2>2, SidesFacts
  <2>3. CASE s = "right"
    BY <1>2, <1>4, <2>1, <2>3, SidesFacts
  <2> QED
    BY <1>4, <2>1, <2>2, <2>3, SidesFacts
<1> QED
  BY <1>3, <1>4

(* Of nodes, one is lowest: its children are not among them. *)
LEMMA Lowest ==
  ASSUME NEW D, NEW t, NEW rank, NEW edge, NEW len, Ordered(D, t, rank, edge, len),
         NEW S, S \subseteq D, S # {}
  PROVE  \E n \in S : \A q \in Sides : Child(t, n, q) \notin S
<1>1. PICK f : f = [n \in S |-> edge[n]["right"] - edge[n]["left"]]
  OBVIOUS
<1>2. \A n \in D : /\ rank[n] \in Int /\ edge[n]["left"] \in Int /\ edge[n]["right"] \in Int
                   /\ edge[n]["left"] <= rank[n] /\ rank[n] <= edge[n]["right"]
  BY EdgeBounds
<1>3. f \in [S -> Nat] /\ \A n \in S : f[n] = edge[n]["right"] - edge[n]["left"]
  BY <1>1, <1>2
<1>4. PICK n \in S : \A m \in S : f[n] <= f[m]
  BY <1>3, LeastValue
<1>5. ASSUME NEW q \in Sides, NEW c, c = Child(t, n, q), c \in S PROVE FALSE
  <2>1. n \in D /\ c \in D /\ c # None
    BY <1>5 DEF Ordered
  <2>2. /\ q = "left" => /\ edge[c]["left"] = edge[n]["left"] /\ edge[c]["right"] = rank[n] - 1
        /\ q = "right" => /\ edge[c]["right"] = edge[n]["right"] /\ edge[c]["left"] = rank[n] + 1
    BY <1>5, <2>1, ChildPlaces
  <2>3. f[c] < f[n]
    BY <1>2, <1>3, <1>5, <2>1, <2>2, SidesFacts
  <2> QED
    BY <1>3, <1>4, <1>5, <2>3
<1> QED
  BY <1>5

(* And one is highest: its parent is not among them. *)
LEMMA Highest ==
  ASSUME NEW D, NEW t, NEW rank, NEW edge, NEW len, Ordered(D, t, rank, edge, len),
         NEW S, S \subseteq D, S # {}
  PROVE  \E n \in S : Parent(t, n) \notin S
<1>1. PICK f : f = [n \in S |-> len - (edge[n]["right"] - edge[n]["left"])]
  OBVIOUS
<1>2. \A n \in D : /\ rank[n] \in Int /\ edge[n]["left"] \in Int /\ edge[n]["right"] \in Int
                   /\ edge[n]["left"] <= rank[n] /\ rank[n] <= edge[n]["right"]
                   /\ 1 <= edge[n]["left"] /\ edge[n]["right"] <= len
  BY EdgeBounds DEF Ordered
<1>3. /\ len \in Nat /\ f \in [S -> Nat]
      /\ \A n \in S : f[n] = len - (edge[n]["right"] - edge[n]["left"])
  BY <1>1, <1>2 DEF Ordered
<1>4. PICK n \in S : \A m \in S : f[n] <= f[m]
  BY <1>3, LeastValue
<1>5. ASSUME NEW p, p = Parent(t, n), p \in S PROVE FALSE
  <2>1. n \in D /\ p \in D /\ p # None
    BY <1>5 DEF Ordered
  <2>2. PICK e \in Sides : Child(t, p, e) = n
    <3>1. \E e \in Sides : Child(t, p, e) = n /\ Child(t, p, Opposite(e)) # n
      BY <1>5, <2>1, ParentFacts DEF Ordered
    <3> QED
      BY <3>1
  <2>3. n # None
    BY <2>1 DEF Ordered
  <2>4. /\ e = "left" => /\ edge[n]["left"] = edge[p]["left"] /\ edge[n]["right"] = rank[p] - 1
        /\ e = "right" => /\ edge[n]["right"] = edge[p]["right"] /\ edge[n]["left"] = rank[p] + 1
    BY <2>1, <2>2, <2>3, ChildPlaces
  <2>5. f[p] < f[n]
    BY <1>2, <1>3, <1>5, <2>1, <2>4, SidesFacts
  <2> QED
    BY <1>3, <1>4, <1>5, <2>5
<1> QED
  BY <1>5

(* The node at a place. *)
At(D, rank, i) == CHOOSE m \in D : rank[m] = i

(* There is one. *)
LEMMA AtFacts ==
  ASSUME NEW D, NEW t, NEW rank, NEW edge, NEW len, Ordered(D, t, rank, edge, len)
  PROVE  /\ \A i \in 1 .. len : At(D, rank, i) \in D /\ rank[At(D, rank, i)] = i
         /\ \A m \in D : At(D, rank, rank[m]) = m
         /\ \A m, n \in D : rank[m] = rank[n] => m = n
<1>1. /\ \A i \in 1 .. len : \E m \in D : rank[m] = i
      /\ \A m, n \in D : rank[m] = rank[n] => m = n
  BY DEF Ordered, Numbered
<1> QED
  BY <1>1, Zenon DEF At

(* Farthest goes to the edge. *)
LEMMA FarthestLaw ==
  ASSUME NEW D, NEW t, NEW rank, NEW edge, NEW len, Ordered(D, t, rank, edge, len),
         NEW s \in Sides
  PROVE  \A n \in D : Farthest(t, s)[n] \in D /\ rank[Farthest(t, s)[n]] = edge[n][s]
<1> DEFINE eq(f) == f = [n \in DOMAIN t.links |->
                           IF Child(t, n, s) = None THEN n ELSE f[Child(t, n, s)]]
<1>1. PICK F : F = Farthest(t, s)
  OBVIOUS
<1>2. F = CHOOSE f : eq(f)
  BY <1>1 DEF Farthest
<1>3. DOMAIN t.links = D
  BY Fields DEF Ordered
<1>4. \E f : eq(f)
  <2>1. PICK f : f = [n \in D |-> At(D, rank, edge[n][s])]
    OBVIOUS
  <2>2. \A n \in D : f[n] = IF Child(t, n, s) = None THEN n ELSE f[Child(t, n, s)]
    <3>1. SUFFICES ASSUME NEW n \in D, NEW c, c = Child(t, n, s)
                   PROVE  f[n] = IF c = None THEN n ELSE f[c]
      OBVIOUS
    <3>2. /\ c = None => edge[n][s] = rank[n]
          /\ c # None => c \in D /\ edge[c][s] = edge[n][s]
      BY <3>1, ChildPlaces
    <3>3. At(D, rank, rank[n]) = n
      BY AtFacts
    <3> QED
      BY <2>1, <3>2, <3>3
  <2> QED
    BY <1>3, <2>1, <2>2
<1>5. eq(F)
  <2> HIDE DEF eq
  <2> QED
    BY <1>2, <1>4, Zenon
<1>6. \A n \in D : F[n] = IF Child(t, n, s) = None THEN n ELSE F[Child(t, n, s)]
  BY <1>3, <1>5
<1> HIDE DEF eq
<1>7. SUFFICES ASSUME NEW S, S = {n \in D : ~ (F[n] \in D /\ rank[F[n]] = edge[n][s])}, S # {}
               PROVE  FALSE
  BY <1>1
<1>8. PICK n \in S : \A q \in Sides : Child(t, n, q) \notin S
  <2>1. S \subseteq D /\ S # {}
    BY <1>7
  <2> QED
    BY <2>1, Lowest
<1>9. n \in D
  BY <1>7
<1>10. PICK c : c = Child(t, n, s) /\ c \notin S
  BY <1>8
<1>11. /\ c = None => edge[n][s] = rank[n]
       /\ c # None => c \in D /\ edge[c][s] = edge[n][s]
  BY <1>9, <1>10, ChildPlaces
<1> QED
  BY <1>6, <1>7, <1>9, <1>10, <1>11

(* Climb goes to the place beside the edge, if there is one. *)
LEMMA ClimbLaw ==
  ASSUME NEW D, NEW t, NEW rank, NEW edge, NEW len, Ordered(D, t, rank, edge, len),
         NEW s \in Sides
  PROVE  \A n \in D : IF edge[n][s] + Dir(s) \in 1 .. len
                      THEN /\ Climb(t, s)[n] \in D
                           /\ rank[Climb(t, s)[n]] = edge[n][s] + Dir(s)
                      ELSE Climb(t, s)[n] = None
<1> DEFINE eq(f) == f = [n \in DOMAIN t.links |->
                           LET p == Parent(t, n)
                           IN IF p # None /\ n = Child(t, p, s) THEN f[p] ELSE p]
<1> DEFINE F == Climb(t, s)
<1> DEFINE good(n) == IF edge[n][s] + Dir(s) \in 1 .. len
                      THEN F[n] \in D /\ rank[F[n]] = edge[n][s] + Dir(s)
                      ELSE F[n] = None
<1>1. SUFFICES \A n \in D : good(n)
  OBVIOUS
<1>2. F = CHOOSE f : eq(f)
  BY DEF Climb
<1> HIDE DEF F
<1>3. DOMAIN t.links = D /\ None \notin D /\ t \in Trees(D)
  BY Fields DEF Ordered
<1>4. ASSUME NEW n \in D, NEW p, p = Parent(t, n)
      PROVE  \/ p = None /\ edge[n][s] + Dir(s) \notin 1 .. len
             \/ /\ p # None /\ p \in D /\ n = Child(t, p, s) /\ edge[n][s] = edge[p][s]
             \/ /\ p # None /\ p \in D /\ n # Child(t, p, s) /\ edge[n][s] + Dir(s) = rank[p]
  <2>1. CASE p = None
    <3>1. n = t.root
      BY <1>4, <2>1, ParentFacts DEF Ordered
    <3>2. edge[n]["left"] = 1 /\ edge[n]["right"] = len /\ len \in Nat
      BY <1>3, <3>1 DEF Ordered, Placed, Rooted
    <3>3. CASE s = "left"
      BY <2>1, <3>2, <3>3, SidesFacts
    <3>4. CASE s = "right"
      BY <2>1, <3>2, <3>4, SidesFacts
    <3> QED
      BY <3>3, <3>4, SidesFacts
  <2>2. CASE p # None
    <3>1. p \in D /\ \E e \in Sides : Child(t, p, e) = n /\ Child(t, p, Opposite(e)) # n
      BY <1>4, <2>2, ParentFacts DEF Ordered
    <3>2. PICK e \in Sides : Child(t, p, e) = n /\ Child(t, p, Opposite(e)) # n
      BY <3>1
    <3>3. n # None
      BY <1>3
    <3>4. edge[n][e] = edge[p][e] /\ edge[n][Opposite(e)] = rank[p] + Dir(e)
      BY <3>1, <3>2, <3>3, ChildPlaces
    <3>5. CASE e = s
      BY <2>2, <3>1, <3>2, <3>4, <3>5
    <3>6. CASE s = Opposite(e)
      <4>1. edge[n][s] = rank[p] + Dir(e) /\ Dir(e) \in Int /\ Dir(s) = - Dir(e)
        BY <3>4, <3>6, SidesFacts
      <4>2. rank[p] \in Int
        BY <3>1, EdgeBounds
      <4> QED
        BY <2>2, <3>1, <3>2, <3>6, <4>1, <4>2
    <3> QED
      BY <3>2, <3>5, <3>6, SidesFacts
  <2> QED
    BY <2>1, <2>2
<1>5. \E f : eq(f)
  <2>1. PICK f : f = [n \in D |-> IF edge[n][s] + Dir(s) \in 1 .. len
                                  THEN At(D, rank, edge[n][s] + Dir(s)) ELSE None]
    OBVIOUS
  <2>2. \A n \in D : f[n] = LET p == Parent(t, n)
                            IN IF p # None /\ n = Child(t, p, s) THEN f[p] ELSE p
    <3>1. SUFFICES ASSUME NEW n \in D, NEW p, p = Parent(t, n)
                   PROVE  f[n] = IF p # None /\ n = Child(t, p, s) THEN f[p] ELSE p
      OBVIOUS
    <3>2. p \in D => At(D, rank, rank[p]) = p /\ rank[p] \in 1 .. len
      BY AtFacts, EdgeBounds
    <3> QED
      BY <1>4, <2>1, <3>1, <3>2
  <2> QED
    BY <1>3, <2>1, <2>2
<1>6. eq(F)
  <2> HIDE DEF eq
  <2> QED
    BY <1>2, <1>5, Zenon
<1>7. \A n \in D : F[n] = LET p == Parent(t, n)
                          IN IF p # None /\ n = Child(t, p, s) THEN F[p] ELSE p
  BY <1>3, <1>6
<1> HIDE DEF eq, good
<1>8. SUFFICES ASSUME NEW S, S = {n \in D : ~ good(n)}, S # {}
               PROVE  FALSE
  OBVIOUS
<1> USE DEF good
<1>9. PICK n \in S : Parent(t, n) \notin S
  <2>1. S \subseteq D /\ S # {}
    BY <1>8
  <2> QED
    BY <2>1, Highest
<1>10. PICK p : p = Parent(t, n) /\ p \notin S /\ n \in D /\ ~ good(n)
  BY <1>8, <1>9
<1>11. p \in D => rank[p] \in 1 .. len /\ good(p)
  BY <1>8, <1>10, EdgeBounds
<1>12. F[n] = IF p # None /\ n = Child(t, p, s) THEN F[p] ELSE p
  BY <1>7, <1>10
<1>13. \/ p = None /\ edge[n][s] + Dir(s) \notin 1 .. len
       \/ p # None /\ p \in D /\ n = Child(t, p, s) /\ edge[n][s] = edge[p][s]
       \/ p # None /\ p \in D /\ n # Child(t, p, s) /\ edge[n][s] + Dir(s) = rank[p]
  BY <1>4, <1>10
<1> QED
  BY <1>10, <1>11, <1>12, <1>13

(* Next() and Prev() go to the place beside that of the node. *)
LEMMA NeighbourLaw ==
  ASSUME NEW D, NEW t, NEW rank, NEW edge, NEW len, Ordered(D, t, rank, edge, len),
         NEW s \in Sides, NEW n \in D, NEW m, m = Neighbour(t, n, s)
  PROVE  /\ rank[n] + Dir(s) \in 1 .. len => m \in D /\ rank[m] = rank[n] + Dir(s)
         /\ rank[n] + Dir(s) \notin 1 .. len => m = None
<1>1. PICK c : c = Child(t, n, s)
  OBVIOUS
<1>2. /\ c = None => edge[n][s] = rank[n]
      /\ c # None => c \in D /\ edge[c][Opposite(s)] = rank[n] + Dir(s)
  BY <1>1, ChildPlaces
<1>3. CASE c = None
  <2>1. m = Climb(t, s)[n]
    BY <1>1, <1>3 DEF Neighbour
  <2>2. IF edge[n][s] + Dir(s) \in 1 .. len
        THEN /\ Climb(t, s)[n] \in D
             /\ rank[Climb(t, s)[n]] = edge[n][s] + Dir(s)
        ELSE Climb(t, s)[n] = None
    BY ClimbLaw
  <2> QED
    BY <1>2, <1>3, <2>1, <2>2
<1>4. CASE c # None
  <2>1. PICK o \in Sides : o = Opposite(s)
    BY SidesFacts
  <2>2. m = Farthest(t, o)[c]
    BY <1>1, <1>4, <2>1 DEF Neighbour
  <2>3. \A k \in D : Farthest(t, o)[k] \in D /\ rank[Farthest(t, o)[k]] = edge[k][o]
    BY FarthestLaw
  <2>4. m \in D /\ rank[m] = edge[c][o]
    BY <1>2, <1>4, <2>2, <2>3
  <2>5. rank[m] \in 1 .. len
    BY <2>4, EdgeBounds
  <2> QED
    BY <1>2, <1>4, <2>1, <2>4, <2>5
<1> QED
  BY <1>3, <1>4

(* Begin() is the node at the first place. *)
LEMMA BeginLaw ==
  ASSUME NEW D, NEW t, NEW rank, NEW edge, NEW len, Ordered(D, t, rank, edge, len),
         NEW m, m = BeginOf(t)
  PROVE  /\ len = 0 => m = None
         /\ len # 0 => m \in D /\ rank[m] = 1
<1>1. /\ None \notin D /\ t \in Trees(D) /\ len \in Nat
      /\ Placed(t, rank, edge, len) /\ Numbered(D, rank, len)
  BY DEF Ordered
<1>2. CASE t.root = None
  <2>1. D = {}
    BY <1>1, <1>2, Fields DEF Placed, Rooted
  <2>2. len = 0
    <3>1. \A i \in 1 .. len : FALSE
      BY <1>1, <2>1 DEF Numbered
    <3> QED
      BY <1>1, <3>1
  <2> QED
    BY <1>2, <2>2 DEF BeginOf
<1>3. CASE t.root # None
  <2>1. PICK r \in D : r = t.root
    BY <1>1, <1>3, Fields
  <2>2. edge[r]["left"] = 1
    BY <1>1, <1>3, <2>1 DEF Placed, Rooted
  <2>3. m = Farthest(t, "left")[r]
    BY <1>3, <2>1 DEF BeginOf
  <2>4. m \in D /\ rank[m] = edge[r]["left"]
    BY <2>1, <2>3, FarthestLaw, SidesFacts
  <2>5. rank[m] \in 1 .. len
    BY <2>4, EdgeBounds
  <2> QED
    BY <1>1, <2>2, <2>4, <2>5
<1> QED
  BY <1>2, <1>3

(* The node at the edge has no child on that side. *)
LEMMA EdgeNode ==
  ASSUME NEW D, NEW t, NEW rank, NEW edge, NEW len, Ordered(D, t, rank, edge, len),
         NEW s \in Sides
  PROVE  \A n, m \in D : rank[m] = edge[n][s] => Child(t, m, s) = None
<1>1. SUFFICES ASSUME NEW S, S # {},
                      S = {n \in D : \E m \in D : rank[m] = edge[n][s] /\ Child(t, m, s) # None}
               PROVE  FALSE
  OBVIOUS
<1>2. PICK n \in S : \A q \in Sides : Child(t, n, q) \notin S
  <2>1. S \subseteq D /\ S # {}
    BY <1>1
  <2> QED
    BY <2>1, Lowest
<1>3. PICK m \in D : rank[m] = edge[n][s] /\ Child(t, m, s) # None
  BY <1>1, <1>2
<1>4. PICK c : c = Child(t, n, s) /\ c \notin S /\ n \in D
  BY <1>1, <1>2
<1>5. /\ c = None => edge[n][s] = rank[n]
      /\ c # None => c \in D /\ edge[c][s] = edge[n][s]
  BY <1>4, ChildPlaces
<1>6. rank[m] = rank[n] => m = n
  BY <1>4, AtFacts
<1> QED
  BY <1>1, <1>3, <1>4, <1>5, <1>6

-----------------------------------------------------------------------------
(* The search for a place. *)

(* R holds the nodes of the first k places. *)
Cuts(D, rank, R, k) == \A n \in D : n \in R <=> rank[n] <= k

(* What Descend returns. *)
Ends(p, s, l, r) ==
  [parent |-> p, side |-> s, last |-> [q \in {"left", "right"} |-> IF q = "left" THEN l ELSE r]]

(* A node on the way, noted for its side unless there is one further down. *)
Noted(e, s, n) == [e EXCEPT !.last[s] = IF @ = None THEN n ELSE @]

(* The last of the first k places under n, and the first of the others. *)
LastRight(D, rank, edge, k, n) ==
  IF edge[n]["left"] <= k
  THEN At(D, rank, IF k < edge[n]["right"] THEN k ELSE edge[n]["right"]) ELSE None
LastLeft(D, rank, edge, k, n) ==
  IF k < edge[n]["right"]
  THEN At(D, rank, IF k < edge[n]["left"] THEN edge[n]["left"] ELSE k + 1) ELSE None

EndOf(D, t, rank, edge, k, n) ==
  LET l == LastLeft(D, rank, edge, k, n)
      r == LastRight(D, rank, edge, k, n)
  IN IF r # None /\ Child(t, r, "right") = None THEN Ends(r, "right", l, r)
     ELSE Ends(l, "left", l, r)

(* The fields of Ends, and how the walk changes them. *)
LEMMA EndsFields ==
  ASSUME NEW p, NEW s, NEW l, NEW r, NEW n
  PROVE  /\ Ends(p, s, l, r).parent = p /\ Ends(p, s, l, r).side = s
         /\ Ends(p, s, l, r).last["left"] = l /\ Ends(p, s, l, r).last["right"] = r
         /\ Noted(Ends(p, s, l, r), "left", n) = Ends(p, s, IF l = None THEN n ELSE l, r)
         /\ Noted(Ends(p, s, l, r), "right", n) = Ends(p, s, l, IF r = None THEN n ELSE r)
<1> DEFINE f(a, b) == [q \in {"left", "right"} |-> IF q = "left" THEN a ELSE b]
<1>1. PICK g : g = f(l, r)
  OBVIOUS
<1>2. /\ DOMAIN g = {"left", "right"} /\ g["left"] = l /\ g["right"] = r
      /\ g = [q \in {"left", "right"} |-> g[q]]
  BY <1>1
<1>3. Ends(p, s, l, r) = [parent |-> p, side |-> s, last |-> g]
  BY <1>1 DEF Ends
<1>4. PICK a, b : a = (IF l = None THEN n ELSE l) /\ b = (IF r = None THEN n ELSE r)
  OBVIOUS
<1>5. [g EXCEPT !["left"] = a] = f(a, r)
  BY <1>1
<1>6. [g EXCEPT !["right"] = b] = f(l, b)
  BY <1>1
<1>7. Noted(Ends(p, s, l, r), "left", n)
        = [parent |-> p, side |-> s, last |-> [g EXCEPT !["left"] = a]]
  BY <1>2, <1>3, <1>4 DEF Noted
<1>8. Noted(Ends(p, s, l, r), "right", n)
        = [parent |-> p, side |-> s, last |-> [g EXCEPT !["right"] = b]]
  BY <1>2, <1>3, <1>4 DEF Noted
<1>9. /\ Ends(p, s, l, r).parent = p /\ Ends(p, s, l, r).side = s
      /\ Ends(p, s, l, r).last["left"] = l /\ Ends(p, s, l, r).last["right"] = r
  BY <1>2, <1>3
<1>10. Ends(p, s, a, r) = [parent |-> p, side |-> s, last |-> f(a, r)]
  BY DEF Ends
<1>11. Ends(p, s, l, b) = [parent |-> p, side |-> s, last |-> f(l, b)]
  BY DEF Ends
<1> HIDE DEF f
<1> QED
  BY <1>4, <1>5, <1>6, <1>7, <1>8, <1>9, <1>10, <1>11

(* EndOf goes on as the walk does. *)
LEMMA EndOfStep ==
  ASSUME NEW D, NEW t, NEW rank, NEW edge, NEW len, Ordered(D, t, rank, edge, len),
         NEW k \in 0 .. len, NEW n \in D, NEW s, s = IF rank[n] <= k THEN "right" ELSE "left",
         NEW c, c = Child(t, n, s)
  PROVE  EndOf(D, t, rank, edge, k, n) =
           IF c = None THEN Ends(n, s, IF s = "left" THEN n ELSE None,
                                 IF s = "right" THEN n ELSE None)
           ELSE Noted(EndOf(D, t, rank, edge, k, c), s, n)
<1>1. PICK l, r, lo, hi, i :
        /\ l = LastLeft(D, rank, edge, k, n) /\ r = LastRight(D, rank, edge, k, n)
        /\ lo = edge[n]["left"] /\ hi = edge[n]["right"] /\ i = rank[n]
  OBVIOUS
<1>2. /\ i \in Int /\ lo \in Int /\ hi \in Int /\ k \in Int /\ len \in Int
      /\ 1 <= lo /\ lo <= i /\ i <= hi /\ hi <= len
  BY <1>1, EdgeBounds DEF Ordered
<1>3. /\ l = IF k < hi THEN At(D, rank, IF k < lo THEN lo ELSE k + 1) ELSE None
      /\ r = IF lo <= k THEN At(D, rank, IF k < hi THEN k ELSE hi) ELSE None
  BY <1>1 DEF LastLeft, LastRight
<1>4. EndOf(D, t, rank, edge, k, n) =
        IF r # None /\ Child(t, r, "right") = None THEN Ends(r, "right", l, r)
        ELSE Ends(l, "left", l, r)
  BY <1>1 DEF EndOf
<1>5. At(D, rank, i) = n /\ n # None /\ None \notin D
  BY <1>1, AtFacts DEF Ordered
<1>6. \A j \in 1 .. len : At(D, rank, j) \in D /\ At(D, rank, j) # None
  BY <1>5, AtFacts
<1>7. CASE i <= k /\ c = None
  <2>1. s = "right" /\ hi = i
    BY <1>1, <1>7, ChildPlaces, SidesFacts
  <2>2. r = n /\ l = None
    BY <1>2, <1>3, <1>5, <1>7, <2>1
  <2> QED
    BY <1>4, <1>5, <1>7, <2>1, <2>2
<1>8. CASE ~ i <= k /\ c = None
  <2>1. s = "left" /\ lo = i
    BY <1>1, <1>8, ChildPlaces, SidesFacts
  <2>2. r = None /\ l = n
    BY <1>2, <1>3, <1>5, <1>8, <2>1
  <2> QED
    BY <1>4, <1>5, <1>8, <2>1, <2>2
<1>9. CASE c # None
  <2>1. PICK l1, r1, lo1, hi1 :
          /\ l1 = LastLeft(D, rank, edge, k, c) /\ r1 = LastRight(D, rank, edge, k, c)
          /\ lo1 = edge[c]["left"] /\ hi1 = edge[c]["right"]
    OBVIOUS
  <2>2. /\ l1 = IF k < hi1 THEN At(D, rank, IF k < lo1 THEN lo1 ELSE k + 1) ELSE None
        /\ r1 = IF lo1 <= k THEN At(D, rank, IF k < hi1 THEN k ELSE hi1) ELSE None
    BY <2>1 DEF LastLeft, LastRight
  <2>3. EndOf(D, t, rank, edge, k, c) =
          IF r1 # None /\ Child(t, r1, "right") = None THEN Ends(r1, "right", l1, r1)
          ELSE Ends(l1, "left", l1, r1)
    BY <2>1 DEF EndOf
  <2>4. s \in Sides /\ c \in D
    BY <1>9, ChildPlaces, SidesFacts
  <2>5. lo1 \in Int /\ hi1 \in Int /\ 1 <= lo1 /\ lo1 <= hi1 /\ hi1 <= len
    BY <1>2, <2>1, <2>4, EdgeBounds DEF Ordered
  <2>6. CASE i <= k
    <3>1. s = "right" /\ lo1 = i + 1 /\ hi1 = hi
      BY <1>1, <1>9, <2>1, <2>4, <2>6, ChildPlaces
    <3>2. l1 = l
      <4>1. k < hi => (IF k < lo1 THEN lo1 ELSE k + 1) = (IF k < lo THEN lo ELSE k + 1)
        BY <1>2, <2>5, <2>6, <3>1
      <4> QED
        BY <1>3, <2>2, <3>1, <4>1
    <3>3. CASE lo1 <= k
      <4>1. r1 = r /\ r # None
        <5>1. lo <= k /\ (IF k < hi THEN k ELSE hi) \in 1 .. len
          BY <1>2, <2>6
        <5> QED
          BY <1>3, <1>6, <2>2, <3>1, <3>3, <5>1
      <4> QED
        BY <1>4, <1>9, <2>3, <3>1, <3>2, <4>1, EndsFields
    <3>4. CASE ~ lo1 <= k
      <4>1. r1 = None
        BY <2>2, <3>4
      <4>2. lo <= k /\ k < hi /\ k = i
        BY <1>2, <2>5, <2>6, <3>1, <3>4
      <4>3. r = n
        BY <1>3, <1>5, <4>2
      <4>4. Child(t, r, "right") # None
        BY <1>9, <3>1, <4>3
      <4> QED
        BY <1>4, <1>5, <1>9, <2>3, <3>1, <3>2, <4>1, <4>3, <4>4, EndsFields
    <3> QED
      BY <3>3, <3>4
  <2>7. CASE ~ i <= k
    <3>1. s = "left" /\ lo1 = lo /\ hi1 = i - 1
      BY <1>1, <1>9, <2>1, <2>4, <2>7, ChildPlaces
    <3>2. r1 = r
      <4>1. lo <= k => (IF k < hi1 THEN k ELSE hi1) = (IF k < hi THEN k ELSE hi)
        BY <1>2, <2>5, <2>7, <3>1
      <4> QED
        BY <1>3, <2>2, <3>1, <4>1
    <3>3. CASE k < hi1
      <4>1. l1 = l /\ l # None
        <5>1. k < hi /\ (IF k < lo THEN lo ELSE k + 1) \in 1 .. len
          BY <1>2, <2>7
        <5> QED
          BY <1>3, <1>6, <2>2, <3>1, <3>3, <5>1
      <4> QED
        BY <1>4, <1>9, <2>3, <3>1, <3>2, <4>1, EndsFields
    <3>4. CASE ~ k < hi1
      <4>1. l1 = None
        BY <2>2, <3>4
      <4>2. k = hi1 /\ lo <= k /\ k < hi /\ k + 1 = i /\ k \in 1 .. len
        BY <1>2, <2>5, <2>7, <3>1, <3>4
      <4>3. l = n
        BY <1>2, <1>3, <1>5, <4>2
      <4>4. r = At(D, rank, k)
        BY <1>3, <4>2
      <4>5. r \in D /\ r # None /\ rank[r] = edge[c]["right"]
        BY <1>6, <2>1, <4>2, <4>4, AtFacts
      <4>6. Child(t, r, "right") = None
        BY <2>4, <4>5, EdgeNode, SidesFacts
      <4> QED
        BY <1>4, <1>5, <1>9, <2>3, <3>1, <3>2, <4>1, <4>3, <4>5, <4>6, EndsFields
    <3> QED
      BY <3>3, <3>4
  <2> QED
    BY <2>6, <2>7
<1> QED
  BY <1>1, <1>7, <1>8, <1>9

(* Descend ends there. *)
LEMMA DescendLaw ==
  ASSUME NEW D, NEW t, NEW rank, NEW edge, NEW len, Ordered(D, t, rank, edge, len),
         NEW k \in 0 .. len, NEW R, Cuts(D, rank, R, k)
  PROVE  \A n \in D : Descend(t, R)[n] = EndOf(D, t, rank, edge, k, n)
<1> DEFINE step(f, n) ==
             LET s == IF n \in R THEN "right" ELSE "left"
                 c == Child(t, n, s)
             IN IF c = None
                THEN [parent |-> n, side |-> s,
                      last |-> [q \in {"left", "right"} |-> IF q = s THEN n ELSE None]]
                ELSE [f[c] EXCEPT !.last[s] = IF @ = None THEN n ELSE @]
           eq(f) == f = [n \in DOMAIN t.links |-> step(f, n)]
<1>1. PICK F : F = Descend(t, R)
  OBVIOUS
<1>2. F = CHOOSE f : eq(f)
  BY <1>1 DEF Descend
<1>3. DOMAIN t.links = D /\ None \notin D
  BY Fields DEF Ordered
<1>4. ASSUME NEW n \in D, NEW s, s = IF n \in R THEN "right" ELSE "left",
             NEW c, c = Child(t, n, s)
      PROVE  /\ s = (IF rank[n] <= k THEN "right" ELSE "left") /\ s \in Sides
             /\ c # None => c \in D
             /\ EndOf(D, t, rank, edge, k, n) =
                  IF c = None THEN Ends(n, s, IF s = "left" THEN n ELSE None,
                                        IF s = "right" THEN n ELSE None)
                  ELSE Noted(EndOf(D, t, rank, edge, k, c), s, n)
  <2>1. s = (IF rank[n] <= k THEN "right" ELSE "left") /\ s \in Sides
    BY <1>4, SidesFacts DEF Cuts
  <2>2. c # None => c \in D
    BY <1>4, <2>1, ChildPlaces
  <2>3. EndOf(D, t, rank, edge, k, n) =
          IF c = None THEN Ends(n, s, IF s = "left" THEN n ELSE None,
                                IF s = "right" THEN n ELSE None)
          ELSE Noted(EndOf(D, t, rank, edge, k, c), s, n)
    BY <1>4, <2>1, EndOfStep
  <2> QED
    BY <2>1, <2>2, <2>3
<1>5. ASSUME NEW f, NEW n \in D, NEW s, s = (IF n \in R THEN "right" ELSE "left"),
             NEW c, c = Child(t, n, s)
      PROVE  step(f, n) = IF c = None THEN Ends(n, s, IF s = "left" THEN n ELSE None,
                                                IF s = "right" THEN n ELSE None)
                          ELSE Noted(f[c], s, n)
  <2>1. s \in Sides /\ "left" # "right"
    BY <1>5, SidesFacts
  <2>2. [q \in {"left", "right"} |-> IF q = s THEN n ELSE None]
          = [q \in {"left", "right"} |-> IF q = "left" THEN IF s = "left" THEN n ELSE None
                                         ELSE IF s = "right" THEN n ELSE None]
    BY <2>1 DEF Sides
  <2> QED
    BY <1>5, <2>2 DEF Ends, Noted
<1> HIDE DEF step
<1>6. \E f : eq(f)
  <2>1. PICK f : f = [n \in D |-> EndOf(D, t, rank, edge, k, n)]
    OBVIOUS
  <2>2. ASSUME NEW n \in D PROVE f[n] = step(f, n)
    <3>1. PICK s : s = IF n \in R THEN "right" ELSE "left"
      OBVIOUS
    <3>2. PICK c : c = Child(t, n, s)
      OBVIOUS
    <3>3. f[n] = EndOf(D, t, rank, edge, k, n)
      BY <2>1
    <3>4. c # None => f[c] = EndOf(D, t, rank, edge, k, c)
      BY <1>4, <2>1, <3>1, <3>2
    <3> QED
      BY <1>4, <1>5, <3>1, <3>2, <3>3, <3>4
  <2>3. f = [n \in D |-> step(f, n)]
    BY <2>1, <2>2
  <2> QED
    BY <1>3, <2>3
<1>7. eq(F)
  <2> HIDE DEF eq
  <2> QED
    BY <1>2, <1>6, Zenon
<1>8. \A n \in D : F[n] = step(F, n)
  BY <1>3, <1>7
<1> HIDE DEF eq
<1>9. SUFFICES ASSUME NEW S, S = {n \in D : F[n] # EndOf(D, t, rank, edge, k, n)}, S # {}
               PROVE  FALSE
  BY <1>1
<1>10. PICK n \in S : \A q \in Sides : Child(t, n, q) \notin S
  <2>1. S \subseteq D /\ S # {}
    BY <1>9
  <2> QED
    BY <2>1, Lowest
<1>11. n \in D /\ F[n] # EndOf(D, t, rank, edge, k, n)
  BY <1>9
<1>12. PICK s : s = IF n \in R THEN "right" ELSE "left"
  OBVIOUS
<1>13. PICK c : c = Child(t, n, s)
  OBVIOUS
<1>14. /\ s \in Sides
       /\ c # None => c \in D
       /\ EndOf(D, t, rank, edge, k, n) =
            IF c = None THEN Ends(n, s, IF s = "left" THEN n ELSE None,
                                  IF s = "right" THEN n ELSE None)
            ELSE Noted(EndOf(D, t, rank, edge, k, c), s, n)
  BY <1>4, <1>11, <1>12, <1>13
<1>15. c # None => F[c] = EndOf(D, t, rank, edge, k, c)
  BY <1>9, <1>10, <1>13, <1>14
<1>16. step(F, n) = IF c = None THEN Ends(n, s, IF s = "left" THEN n ELSE None,
                                          IF s = "right" THEN n ELSE None)
                    ELSE Noted(F[c], s, n)
  BY <1>5, <1>11, <1>12, <1>13
<1> QED
  BY <1>8, <1>11, <1>14, <1>15, <1>16

(* The nodes beside the k-th gap between the places, and the free child there. *)
Found(D, t, rank, len, k, path) ==
  /\ k = 0 => path.last["right"] = None
  /\ k # 0 => path.last["right"] \in D /\ rank[path.last["right"]] = k
  /\ k = len => path.last["left"] = None
  /\ k # len => path.last["left"] \in D /\ rank[path.last["left"]] = k + 1
  /\ len = 0 => path.parent = None
  /\ len # 0 => /\ path.parent \in D /\ path.side \in Sides
                /\ Child(t, path.parent, path.side) = None
                /\ path.side = "left" => rank[path.parent] = k + 1
                /\ path.side = "right" => rank[path.parent] = k

(* No place, no root. *)
LEMMA RootFacts ==
  ASSUME NEW D, NEW t, NEW rank, NEW edge, NEW len, Ordered(D, t, rank, edge, len)
  PROVE  /\ t.root = None <=> len = 0
         /\ t.root = None <=> D = {}
         /\ t.root # None => /\ t.root \in D /\ Parent(t, t.root) = None
                             /\ edge[t.root]["left"] = 1 /\ edge[t.root]["right"] = len
<1>1. /\ None \notin D /\ t \in Trees(D) /\ len \in Nat /\ DOMAIN t.links = D
      /\ Placed(t, rank, edge, len) /\ Numbered(D, rank, len)
  BY Fields DEF Ordered
<1>2. CASE t.root = None
  <2>1. D = {}
    BY <1>1, <1>2 DEF Placed, Rooted
  <2>2. len = 0
    <3>1. \A i \in 1 .. len : FALSE
      BY <1>1, <2>1 DEF Numbered
    <3> QED
      BY <1>1, <3>1
  <2> QED
    BY <1>2, <2>1, <2>2
<1>3. CASE t.root # None
  <2>1. /\ t.root \in D /\ Parent(t, t.root) = None
        /\ edge[t.root]["left"] = 1 /\ edge[t.root]["right"] = len
    BY <1>1, <1>3, Fields DEF Placed, Rooted
  <2>2. rank[t.root] \in 1 .. len
    BY <2>1, EdgeBounds
  <2> QED
    BY <1>1, <1>3, <2>1, <2>2
<1> QED
  BY <1>2, <1>3

(* The search for a place ends beside it. *)
LEMMA SearchPathLaw ==
  ASSUME NEW D, NEW t, NEW rank, NEW edge, NEW len, Ordered(D, t, rank, edge, len),
         NEW k \in 0 .. len, NEW R, Cuts(D, rank, R, k), NEW path, path = SearchPath(t, R)
  PROVE  Found(D, t, rank, len, k, path)
<1>1. len \in Nat /\ None \notin D
  BY DEF Ordered
<1>2. CASE t.root = None
  <2>1. len = 0 /\ k = 0
    BY <1>1, <1>2, RootFacts
  <2>2. path = [parent |-> None, side |-> "left", last |-> [q \in {"left", "right"} |-> None]]
    BY <1>2 DEF SearchPath
  <2>3. path.parent = None /\ path.last["left"] = None /\ path.last["right"] = None
    BY <2>2
  <2> QED
    BY <2>1, <2>3 DEF Found
<1>3. CASE t.root # None
  <2>1. PICK n : n = t.root
    OBVIOUS
  <2>2. n \in D /\ edge[n]["left"] = 1 /\ edge[n]["right"] = len /\ len # 0
    BY <1>3, <2>1, RootFacts
  <2>3. path = EndOf(D, t, rank, edge, k, n)
    BY <1>3, <2>1, <2>2, DescendLaw DEF SearchPath
  <2>4. PICK l, r : l = LastLeft(D, rank, edge, k, n) /\ r = LastRight(D, rank, edge, k, n)
    OBVIOUS
  <2>5. /\ l = IF k < len THEN At(D, rank, IF k < 1 THEN 1 ELSE k + 1) ELSE None
        /\ r = IF 1 <= k THEN At(D, rank, IF k < len THEN k ELSE len) ELSE None
    BY <2>2, <2>4 DEF LastLeft, LastRight
  <2>6. l = (IF k < len THEN At(D, rank, k + 1) ELSE None)
    <3>1. k < len => (IF k < 1 THEN 1 ELSE k + 1) = k + 1
      BY <1>1
    <3> QED
      BY <2>5, <3>1
  <2>7. r = (IF 1 <= k THEN At(D, rank, k) ELSE None)
    <3>1. (IF k < len THEN k ELSE len) = k
      BY <1>1
    <3> QED
      BY <2>5, <3>1
  <2>8. path = IF r # None /\ Child(t, r, "right") = None THEN Ends(r, "right", l, r)
               ELSE Ends(l, "left", l, r)
    BY <2>3, <2>4 DEF EndOf
  <2>9. path.last["left"] = l /\ path.last["right"] = r
    BY <2>8, EndsFields
  <2>10. k < len => l \in D /\ rank[l] = k + 1 /\ l # None
    BY <1>1, <2>6, AtFacts
  <2>11. 1 <= k => r \in D /\ rank[r] = k /\ r # None
    BY <1>1, <2>7, AtFacts
  <2>12. CASE r # None /\ Child(t, r, "right") = None
    <3>1. path.parent = r /\ path.side = "right" /\ "right" \in Sides /\ "right" # "left"
      BY <2>8, <2>12, EndsFields, SidesFacts
    <3>2. 1 <= k
      BY <2>7, <2>12
    <3> QED
      BY <1>1, <2>2, <2>6, <2>7, <2>9, <2>10, <2>11, <2>12, <3>1, <3>2 DEF Found
  <2>13. CASE ~ (r # None /\ Child(t, r, "right") = None)
    <3>1. path.parent = l /\ path.side = "left" /\ "left" \in Sides /\ "left" # "right"
      BY <2>8, <2>13, EndsFields, SidesFacts
    <3>2. k < len /\ Child(t, l, "left") = None
      <4>1. CASE k = 0
        <5>1. k < len
          BY <1>1, <2>2, <4>1
        <5>2. rank[l] = edge[n]["left"] /\ l \in D
          BY <2>2, <2>10, <4>1, <5>1
        <5> QED
          BY <2>2, <5>1, <5>2, EdgeNode, SidesFacts
      <4>2. CASE k # 0
        <5>1. PICK c : c = Child(t, r, "right")
          OBVIOUS
        <5>2. r \in D /\ rank[r] = k /\ c # None
          BY <1>1, <2>11, <2>13, <4>2, <5>1
        <5>3. c \in D /\ edge[c]["left"] = k + 1
          BY <5>1, <5>2, ChildPlaces, SidesFacts
        <5>4. rank[c] \in 1 .. len /\ edge[c]["left"] \in 1 .. rank[c]
          BY <5>3, EdgeBounds
        <5>5. k < len
          BY <1>1, <5>3, <5>4
        <5>6. rank[l] = edge[c]["left"] /\ l \in D
          BY <2>10, <5>3, <5>5
        <5> QED
          BY <5>3, <5>5, <5>6, EdgeNode, SidesFacts
      <4> QED
        BY <4>1, <4>2
    <3> QED
      BY <1>1, <2>2, <2>6, <2>7, <2>9, <2>10, <2>11, <3>1, <3>2 DEF Found
  <2> QED
    BY <2>12, <2>13
<1> QED
  BY <1>2, <1>3

-----------------------------------------------------------------------------
(* The nodes in order, and the black nodes on the way up. *)

(* l holds the nodes at the places from lo to hi. *)
Lists(D, rank, l, lo, hi) ==
  l \in Seq(D) /\ Len(l) = hi - lo + 1 /\ \A i \in 1 .. Len(l) : rank[l[i]] = lo + i - 1

(* There is one such sequence. *)
LEMMA ListsUnique ==
  ASSUME NEW D, NEW rank, \A m, n \in D : rank[m] = rank[n] => m = n,
         NEW lo, NEW hi, NEW a, NEW b, Lists(D, rank, a, lo, hi), Lists(D, rank, b, lo, hi)
  PROVE  a = b
<1>1. /\ a \in Seq(D) /\ b \in Seq(D) /\ Len(a) = Len(b)
      /\ \A i \in 1 .. Len(a) : rank[a[i]] = rank[b[i]] /\ a[i] \in D /\ b[i] \in D
  BY DEF Lists
<1>2. \A i \in 1 .. Len(a) : a[i] = b[i]
  BY <1>1
<1> QED
  BY <1>1, <1>2, SeqEqual

(* Two sequences in a row. *)
Joined(S, a, b, c) ==
  /\ c \in Seq(S) /\ Len(c) = Len(a) + Len(b)
  /\ \A i \in 1 .. Len(a) : c[i] = a[i]
  /\ \A i \in 1 .. Len(b) : c[Len(a) + i] = b[i]

(* That is what \o does. *)
LEMMA JoinedBy ==
  ASSUME NEW S, NEW a \in Seq(S), NEW b \in Seq(S), NEW c, c = a \o b
  PROVE  Joined(S, a, b, c)
  BY DEF Joined

(* A node between those before it and those behind it. *)
LEMMA ListsAround ==
  ASSUME NEW D, NEW rank \in Ranks(D), NEW n \in D, NEW lo \in Int, NEW hi \in Int,
         NEW a, NEW b, Lists(D, rank, a, lo, rank[n] - 1), Lists(D, rank, b, rank[n] + 1, hi)
  PROVE  Lists(D, rank, a \o <<n>> \o b, lo, hi)
<1>1. PICK x : x = <<n>>
  OBVIOUS
<1>2. x \in Seq(D) /\ Len(x) = 1 /\ x[1] = n
  BY <1>1
<1>3. PICK y : y = a \o x
  OBVIOUS
<1>4. /\ a \in Seq(D) /\ Len(a) = rank[n] - 1 - lo + 1 /\ rank[n] \in Int /\ Len(a) \in Nat
      /\ \A i \in 1 .. Len(a) : rank[a[i]] = lo + i - 1
  BY DEF Lists, Ranks
<1>5. /\ b \in Seq(D) /\ Len(b) = hi - (rank[n] + 1) + 1 /\ Len(b) \in Nat
      /\ \A i \in 1 .. Len(b) : rank[b[i]] = rank[n] + 1 + i - 1
  BY DEF Lists
<1>6. Joined(D, a, x, y)
  BY <1>2, <1>3, <1>4, JoinedBy
<1>7. PICK z : z = y \o b
  OBVIOUS
<1>8. y \in Seq(D)
  BY <1>6 DEF Joined
<1>9. Joined(D, y, b, z)
  BY <1>5, <1>7, <1>8, JoinedBy
<1>10. Len(y) = Len(a) + 1 /\ Len(z) = Len(y) + Len(b)
  BY <1>2, <1>6, <1>9 DEF Joined
<1>11. Len(y) = rank[n] - lo + 1 /\ Len(y) \in Nat /\ Len(z) = hi - lo + 1
  <2>1. PICK r \in Int, la \in Nat, lb \in Nat : r = rank[n] /\ la = Len(a) /\ lb = Len(b)
    BY <1>4, <1>5
  <2>2. la = r - 1 - lo + 1 /\ lb = hi - (r + 1) + 1
    BY <1>4, <1>5, <2>1
  <2>3. Len(y) = la + 1 /\ Len(z) = la + 1 + lb
    BY <1>10, <2>1
  <2>4. la + 1 = r - lo + 1 /\ la + 1 + lb = hi - lo + 1 /\ la + 1 \in Nat
    BY <2>2
  <2> QED
    BY <2>1, <2>3, <2>4
<1>12. \A i \in 1 .. Len(a) : rank[y[i]] = lo + i - 1
  BY <1>4, <1>6 DEF Joined
<1>13. y[Len(a) + 1] = n
  BY <1>2, <1>6 DEF Joined
<1>14. \A i \in 1 .. Len(y) : rank[y[i]] = lo + i - 1
  <2>1. \A i \in 1 .. Len(y) : i \in 1 .. Len(a) \/ i = Len(a) + 1
    BY <1>4, <1>10, SMTT(30)
  <2>2. rank[n] = lo + (Len(a) + 1) - 1
    BY <1>4
  <2> QED
    BY <1>12, <1>13, <2>1, <2>2
<1>15. \A i \in 1 .. Len(z) : rank[z[i]] = lo + i - 1
  <2>1. \A i \in 1 .. Len(y) : rank[z[i]] = lo + i - 1
    BY <1>9, <1>14 DEF Joined
  <2>2. \A j \in 1 .. Len(b) : rank[z[Len(y) + j]] = rank[n] + 1 + j - 1
    BY <1>5, <1>9 DEF Joined
  <2>3. SUFFICES ASSUME NEW i \in 1 .. Len(z), i \notin 1 .. Len(y)
                 PROVE  rank[z[i]] = lo + i - 1
    BY <2>1
  <2>4. PICK j \in 1 .. Len(b) : i = Len(y) + j
    <3>1. i - Len(y) \in 1 .. Len(b) /\ i = Len(y) + (i - Len(y))
      BY <1>5, <1>10, <1>11, <2>3
    <3> QED
      BY <3>1
  <2>5. rank[z[i]] = rank[n] + 1 + j - 1
    BY <2>2, <2>4
  <2>6. PICK r \in Int, ly \in Nat, k \in Int :
          r = rank[n] /\ ly = Len(y) /\ k = j /\ ly = r - lo + 1
    BY <1>4, <1>5, <1>11, SMTT(30)
  <2>7. i = ly + k /\ rank[z[i]] = r + 1 + k - 1
    BY <2>4, <2>5, <2>6
  <2>8. lo + (ly + k) - 1 = r + 1 + k - 1
    <3>1. ly = r - lo + 1 /\ r \in Int /\ k \in Int /\ lo \in Int
      BY <2>6
    <3> QED
      BY <3>1
  <2> QED
    BY <2>7, <2>8
<1>16. z = (a \o <<n>>) \o b
  BY <1>1, <1>3, <1>7
<1> QED
  BY <1>16, <1>9, <1>11, <1>15 DEF Joined, Lists

(* InOrder lists the nodes under a node. *)
LEMMA InOrderLaw ==
  ASSUME NEW D, NEW t, NEW rank, NEW edge, NEW len, Ordered(D, t, rank, edge, len)
  PROVE  /\ InOrder(t)[None] = <<>>
         /\ \A n \in D : Lists(D, rank, InOrder(t)[n], edge[n]["left"], edge[n]["right"])
<1> DEFINE step(f, n) == IF n = None THEN <<>>
                         ELSE f[Child(t, n, "left")] \o <<n>> \o f[Child(t, n, "right")]
           eq(f) == f = [n \in DOMAIN t.links \cup {None} |-> step(f, n)]
           good(f, n) == Lists(D, rank, f[n], edge[n]["left"], edge[n]["right"])
<1>1. PICK F : F = InOrder(t)
  OBVIOUS
<1>2. F = CHOOSE f : eq(f)
  BY <1>1 DEF InOrder
<1>3. DOMAIN t.links = D /\ None \notin D /\ rank \in Ranks(D)
  BY Fields DEF Ordered
<1>4. ASSUME NEW f, f[None] = <<>>, NEW n \in D,
             \A q \in Sides : Child(t, n, q) # None => good(f, Child(t, n, q))
      PROVE  Lists(D, rank, step(f, n), edge[n]["left"], edge[n]["right"])
  <2>1. PICK a, b : a = f[Child(t, n, "left")] /\ b = f[Child(t, n, "right")]
    OBVIOUS
  <2>2. PICK lo, hi : lo = edge[n]["left"] /\ hi = edge[n]["right"]
    OBVIOUS
  <2>3. lo \in Int /\ hi \in Int /\ rank[n] \in Int
    BY <2>2, EdgeBounds
  <2>4. \A i \in Int : Lists(D, rank, <<>>, i, i - 1)
    BY DEF Lists
  <2>5. Lists(D, rank, a, lo, rank[n] - 1)
    <3>1. PICK c : c = Child(t, n, "left")
      OBVIOUS
    <3>2. /\ c = None => lo = rank[n]
          /\ c # None => edge[c]["left"] = lo /\ edge[c]["right"] = rank[n] - 1
      BY <2>2, <3>1, ChildPlaces, SidesFacts
    <3>3. CASE c = None
      BY <1>4, <2>1, <2>3, <2>4, <3>1, <3>2, <3>3
    <3>4. CASE c # None
      <4>1. good(f, c)
        BY <1>4, <3>1, <3>4, SidesFacts
      <4> QED
        BY <2>1, <3>1, <3>2, <3>4, <4>1
    <3> QED
      BY <3>3, <3>4
  <2>6. Lists(D, rank, b, rank[n] + 1, hi)
    <3>1. PICK c : c = Child(t, n, "right")
      OBVIOUS
    <3>2. /\ c = None => hi = rank[n]
          /\ c # None => edge[c]["right"] = hi /\ edge[c]["left"] = rank[n] + 1
      BY <2>2, <3>1, ChildPlaces, SidesFacts
    <3>3. CASE c = None
      <4>1. hi = (rank[n] + 1) - 1 /\ rank[n] + 1 \in Int
        BY <2>3, <3>2, <3>3
      <4> QED
        BY <1>4, <2>1, <2>4, <3>1, <3>3, <4>1
    <3>4. CASE c # None
      <4>1. good(f, c)
        BY <1>4, <3>1, <3>4, SidesFacts
      <4> QED
        BY <2>1, <3>1, <3>2, <3>4, <4>1
    <3> QED
      BY <3>3, <3>4
  <2>7. Lists(D, rank, a \o <<n>> \o b, lo, hi)
    BY <1>3, <2>3, <2>5, <2>6, ListsAround
  <2>8. step(f, n) = a \o <<n>> \o b
    BY <1>3, <2>1
  <2> QED
    BY <2>2, <2>7, <2>8
<1>5. \E f : eq(f)
  <2>1. PICK f : f = [n \in D \cup {None} |->
                        IF n = None THEN <<>>
                        ELSE [i \in 1 .. edge[n]["right"] - edge[n]["left"] + 1 |->
                                At(D, rank, edge[n]["left"] + i - 1)]]
    OBVIOUS
  <2>2. f[None] = <<>>
    BY <2>1
  <2>3. \A n \in D : good(f, n)
    <3>1. SUFFICES ASSUME NEW n \in D PROVE good(f, n)
      OBVIOUS
    <3>2. PICK lo, hi : lo = edge[n]["left"] /\ hi = edge[n]["right"]
      OBVIOUS
    <3>3. PICK d \in Nat : d = hi - lo + 1
      BY <3>2, EdgeBounds
    <3>4. PICK l : l = [i \in 1 .. d |-> At(D, rank, lo + i - 1)]
      OBVIOUS
    <3>5. f[n] = l
      BY <1>3, <2>1, <3>2, <3>3, <3>4
    <3>6. \A i \in 1 .. d : l[i] \in D /\ rank[l[i]] = lo + i - 1
      <4>1. SUFFICES ASSUME NEW i \in 1 .. d PROVE l[i] \in D /\ rank[l[i]] = lo + i - 1
        OBVIOUS
      <4>2. lo + i - 1 \in 1 .. len
        BY <3>2, <3>3, EdgeBounds DEF Ordered
      <4> QED
        BY <3>4, <4>2, AtFacts
    <3>7. l \in Seq(D) /\ Len(l) = d
      BY <3>4, <3>6
    <3> QED
      BY <3>2, <3>3, <3>5, <3>6, <3>7 DEF Lists
  <2>4. ASSUME NEW n \in D PROVE f[n] = step(f, n)
    <3>1. \A q \in Sides : Child(t, n, q) # None => good(f, Child(t, n, q))
      <4>1. \A q \in Sides : Child(t, n, q) # None => Child(t, n, q) \in D
        BY ChildPlaces
      <4> QED
        BY <2>3, <4>1
    <3>2. Lists(D, rank, step(f, n), edge[n]["left"], edge[n]["right"])
      BY <1>4, <2>2, <3>1
    <3>3. Lists(D, rank, f[n], edge[n]["left"], edge[n]["right"])
      BY <2>3
    <3>4. \A m, k \in D : rank[m] = rank[k] => m = k
      BY AtFacts
    <3> HIDE DEF step
    <3>5. PICK a, b : a = f[n] /\ b = step(f, n)
      OBVIOUS
    <3>6. a = b
      BY <3>2, <3>3, <3>4, <3>5, ListsUnique
    <3> QED
      BY <3>5, <3>6
  <2>5. f[None] = step(f, None)
    BY <2>2
  <2> HIDE DEF step
  <2>6. f = [n \in D \cup {None} |-> step(f, n)]
    BY <2>1, <2>4, <2>5
  <2> QED
    BY <1>3, <2>6
<1>6. eq(F)
  <2> HIDE DEF eq
  <2> QED
    BY <1>2, <1>5, Zenon
<1>7. /\ F[None] = <<>>
      /\ \A n \in D : F[n] = step(F, n)
  <2>1. \A n \in D \cup {None} : F[n] = step(F, n)
    <3> HIDE DEF step
    <3> QED
      BY <1>3, <1>6
  <2> QED
    BY <2>1
<1> HIDE DEF eq, step
<1>8. SUFFICES ASSUME NEW S, S = {n \in D : ~ good(F, n)}, S # {} PROVE FALSE
  BY <1>1, <1>7
<1>9. PICK n \in S : \A q \in Sides : Child(t, n, q) \notin S
  <2>1. S \subseteq D /\ S # {}
    BY <1>8
  <2> QED
    BY <2>1, Lowest
<1>10. n \in D /\ ~ good(F, n)
  BY <1>8
<1>11. \A q \in Sides : Child(t, n, q) # None => Child(t, n, q) \in D
  BY <1>10, ChildPlaces
<1>12. \A q \in Sides : Child(t, n, q) # None => good(F, Child(t, n, q))
  BY <1>8, <1>9, <1>11
<1>13. Lists(D, rank, step(F, n), edge[n]["left"], edge[n]["right"])
  BY <1>4, <1>7, <1>10, <1>12
<1> QED
  BY <1>7, <1>10, <1>13

(* S is behind the first k places. *)
Behind(D, rank, S, k) == \A n \in D : rank[n] <= k => n \notin S

FirstPlace(l, S) == SelectInSeq(l, LAMBDA n : n \in S)

(* The first of the nodes outside an initial part of the order. *)
LEMMA SelectLaw ==
  ASSUME NEW D, NEW rank, NEW len \in Nat, NEW l, Lists(D, rank, l, 1, len),
         NEW S, NEW k \in 0 .. len, NEW i, i = FirstPlace(l, S),
         Behind(D, rank, S, k)
  PROVE  /\ k = len => i = 0
         /\ k # len /\ l[k + 1] \in S => i = k + 1 /\ rank[l[i]] = k + 1 /\ l[i] \in D
<1>1. PICK I : I = {j \in 1 .. Len(l) : l[j] \in S}
  OBVIOUS
<1>2. /\ i = IF I # {} THEN Min(I) ELSE 0
  BY <1>1 DEF FirstPlace, SelectInSeq
<1>3. /\ l \in Seq(D) /\ Len(l) = len /\ \A j \in 1 .. len : l[j] \in D /\ rank[l[j]] = j
  BY DEF Lists
<1>4. \A j \in I : j \in 1 .. len /\ j > k
  BY <1>1, <1>3 DEF Behind
<1>5. CASE k = len
  <2>1. I = {}
    BY <1>4, <1>5
  <2> QED
    BY <1>2, <1>5, <2>1
<1>6. CASE k # len /\ l[k + 1] \in S
  <2>1. k + 1 \in I
    BY <1>1, <1>3, <1>6
  <2>2. \A j \in I : k + 1 <= j
    BY <1>4
  <2>3. i = CHOOSE x \in I : \A y \in I : x <= y
    BY <1>2, <2>1 DEF Min
  <2>4. \E x \in I : \A y \in I : x <= y
    BY <2>1, <2>2
  <2>5. i \in I /\ \A y \in I : i <= y
    BY <2>3, <2>4, Zenon
  <2>6. i = k + 1
    BY <1>4, <2>1, <2>2, <2>5
  <2>7. k + 1 \in 1 .. len
    BY <1>6
  <2> QED
    BY <1>3, <1>6, <2>6, <2>7
<1> QED
  BY <1>5, <1>6

(* InOrder from the root lists all the nodes. *)
LEMMA InOrderLists ==
  ASSUME NEW D, NEW t, NEW rank, NEW edge, NEW len, Ordered(D, t, rank, edge, len),
         NEW l, l = InOrder(t)[t.root]
  PROVE  Lists(D, rank, l, 1, len)
<1>1. CASE t.root = None
  <2>1. len = 0 /\ l = <<>>
    BY <1>1, RootFacts, InOrderLaw
  <2> QED
    BY <2>1 DEF Lists
<1>2. CASE t.root # None
  <2>1. t.root \in D /\ edge[t.root]["left"] = 1 /\ edge[t.root]["right"] = len
    BY <1>2, RootFacts
  <2>2. Lists(D, rank, InOrder(t)[t.root], edge[t.root]["left"], edge[t.root]["right"])
    BY <2>1, InOrderLaw
  <2> QED
    BY <2>1, <2>2
<1> QED
  BY <1>1, <1>2

(* Contents lists all the nodes. *)
LEMMA ContentsLaw ==
  ASSUME NEW rank, NEW edge, Ordered(Linked, tree, rank, edge, length)
  PROVE  Lists(Linked, rank, contents, 1, length)
  BY InOrderLists DEF contents

(* FirstIn is the first node behind those of the first k places. *)
LEMMA FirstInLaw ==
  ASSUME NEW rank, NEW edge, Ordered(Linked, tree, rank, edge, length),
         NEW S, NEW k \in 0 .. length, \A n \in Linked : rank[n] <= k => n \notin S,
         \A n \in Linked : rank[n] = k + 1 => n \in S
  PROVE  /\ k = length => FirstIn(S) = None
         /\ k # length => FirstIn(S) \in Linked /\ rank[FirstIn(S)] = k + 1
<1>1. length \in Nat
  BY DEF Ordered
<1>2. Lists(Linked, rank, contents, 1, length)
  BY ContentsLaw
<1>3. PICK i : i = FirstPlace(contents, S)
  OBVIOUS
<1>4. FirstIn(S) = IF i = 0 THEN None ELSE contents[i]
  BY <1>3 DEF FirstIn, FirstPlace
<1>5. PICK D, l, len : D = Linked /\ l = contents /\ len = length
  OBVIOUS
<1>6. /\ k = len => i = 0
      /\ k # len /\ l[k + 1] \in S => i = k + 1 /\ rank[l[i]] = k + 1 /\ l[i] \in D
  <2>1. Lists(D, rank, l, 1, len) /\ len \in Nat /\ k \in 0 .. len
    BY <1>1, <1>2, <1>5
  <2>2. Behind(D, rank, S, k)
    BY <1>5 DEF Behind
  <2>3. i = FirstPlace(l, S)
    BY <1>3, <1>5
  <2> QED
    BY <2>1, <2>2, <2>3, SelectLaw
<1>7. k # len => l[k + 1] \in S
  <2>1. l \in Seq(D) /\ Len(l) = len /\ \A j \in 1 .. len : l[j] \in D /\ rank[l[j]] = j
    BY <1>1, <1>2, <1>5 DEF Lists
  <2>2. k # len => k + 1 \in 1 .. len
    BY <1>1, <1>5
  <2> QED
    BY <1>5, <2>1, <2>2
<1>8. k \in Nat
  OBVIOUS
<1>9. CASE k = len
  BY <1>4, <1>5, <1>6, <1>9
<1>10. CASE k # len
  <2>1. i = k + 1 /\ rank[l[i]] = k + 1 /\ l[i] \in D /\ i # 0
    BY <1>6, <1>7, <1>8, <1>10
  <2> QED
    BY <1>4, <1>5, <1>10, <2>1
<1> QED
  BY <1>9, <1>10

(* In a balanced tree each node without a child on some side has the same    *)
(* number of black nodes above it.                                           *)
LEMMA BlackAboveLaw ==
  ASSUME NEW rank, NEW edge, Ordered(Linked, tree, rank, edge, length),
         NEW h \in Heights(Linked), Calm(tree, h)
  PROVE  \A m, n \in Linked : ~ HasTwoChildren(m) /\ ~ HasTwoChildren(n) =>
           BlackAbove(m) = BlackAbove(n)
<1>1. PICK D, t : D = Linked /\ t = tree
  OBVIOUS
<1> DEFINE step(f, m) == IF m = None THEN 0
                         ELSE f[Parent(t, m)] + (IF IsRed(t, m) THEN 0 ELSE 1)
           eq(f) == f = [m \in D \cup {None} |-> step(f, m)]
<1>2. PICK F : F = CHOOSE f : eq(f)
  OBVIOUS
<1>3. \A n : BlackAbove(n) = F[n]
  BY <1>1, <1>2 DEF BlackAbove
<1>4. /\ DOMAIN t.links = D /\ None \notin D /\ t \in Trees(D) /\ length \in Nat
      /\ Placed(t, rank, edge, length) /\ rank \in Ranks(D) /\ edge \in Edges(D)
      /\ h \in Heights(D) /\ Calm(t, h)
  BY <1>1, Fields DEF Ordered
<1>5. PICK top \in Nat : \A r \in D : r = t.root => top = h[r] + 1
  <2>1. CASE t.root \in D
    <3>1. h[t.root] + 1 \in Nat
      BY <1>4, <2>1 DEF Heights
    <3> QED
      BY <3>1
  <2>2. CASE t.root \notin D
    BY <2>2
  <2> QED
    BY <2>1, <2>2
<1>6. ASSUME NEW m \in D, NEW p, p = Parent(t, m)
      PROVE  /\ h[m] \in Nat
             /\ p = None => ~ IsRed(t, m) /\ top - h[m] = 1
             /\ p # None => /\ p \in D /\ h[p] \in Nat
                            /\ top - h[m] = top - h[p] + (IF IsRed(t, m) THEN 0 ELSE 1)
  <2>1. h[m] \in Nat
    BY <1>4 DEF Heights
  <2>2. CASE p = None
    <3>1. m = t.root
      <4>1. p = None <=> m = t.root
        BY <1>4, <1>6, ParentFacts
      <4> QED
        BY <2>2, <4>1
    <3>2. ~ IsRed(t, m)
      BY <1>4, <3>1 DEF Calm
    <3> QED
      BY <1>5, <2>1, <2>2, <3>1, <3>2
  <2>3. CASE p # None
    <3>1. p \in D /\ \E e \in Sides : Child(t, p, e) = m /\ Child(t, p, Opposite(e)) # m
      BY <1>4, <1>6, <2>3, ParentFacts
    <3>2. PICK e \in Sides : Child(t, p, e) = m
      BY <3>1
    <3>3. Weight(t, h, m) = h[p]
      BY <1>4, <3>1, <3>2 DEF Calm, Even
    <3>4. /\ m # None /\ (IsRed(t, m) => Weight(t, h, m) = h[m])
          /\ ~ IsRed(t, m) => Weight(t, h, m) = h[m] + 1
      BY <1>4, WeightFacts
    <3>5. h[p] \in Nat
      BY <1>4, <3>1 DEF Heights
    <3> QED
      BY <2>1, <2>3, <3>1, <3>3, <3>4, <3>5
  <2> QED
    BY <2>1, <2>2, <2>3
<1>7. \E f : eq(f)
  <2>1. PICK f : f = [m \in D \cup {None} |-> IF m = None THEN 0 ELSE top - h[m]]
    OBVIOUS
  <2>2. f[None] = step(f, None)
    BY <2>1
  <2>3. ASSUME NEW m \in D PROVE f[m] = step(f, m)
    <3>1. PICK p : p = Parent(t, m)
      OBVIOUS
    <3>2. /\ m # None /\ f[m] = top - h[m] /\ f[None] = 0
          /\ p # None /\ p \in D => f[p] = top - h[p]
      BY <1>4, <2>1
    <3>3. step(f, m) = f[p] + (IF IsRed(t, m) THEN 0 ELSE 1)
      BY <3>1, <3>2
    <3> HIDE DEF step
    <3>4. CASE p = None
      <4>1. step(f, m) = 0 + 1 /\ top - h[m] = 1
        BY <1>6, <3>1, <3>2, <3>3, <3>4
      <4> QED
        BY <3>2, <4>1
    <3>5. CASE p # None
      BY <1>6, <3>1, <3>2, <3>3, <3>5
    <3> QED
      BY <3>4, <3>5
  <2> HIDE DEF step
  <2>4. f = [m \in D \cup {None} |-> step(f, m)]
    BY <2>1, <2>2, <2>3
  <2> QED
    BY <2>4
<1>8. eq(F)
  <2> HIDE DEF eq
  <2> QED
    BY <1>2, <1>7, Zenon
<1>9. /\ F[None] = 0
      /\ \A m \in D : F[m] = F[Parent(t, m)] + (IF IsRed(t, m) THEN 0 ELSE 1)
  <2>1. \A m \in D \cup {None} : F[m] = step(F, m)
    <3> HIDE DEF step
    <3> QED
      BY <1>8
  <2> QED
    BY <1>4, <2>1
<1> HIDE DEF eq, step
<1>10. \A n \in D : F[n] = top - h[n]
  <2>1. SUFFICES ASSUME NEW S, S = {n \in D : F[n] # top - h[n]}, S # {} PROVE FALSE
    OBVIOUS
  <2>2. PICK n \in S : Parent(t, n) \notin S
    <3>1. S \subseteq D /\ S # {} /\ Ordered(D, t, rank, edge, length)
      BY <1>1, <2>1
    <3> QED
      BY <3>1, Highest
  <2>3. n \in D /\ F[n] # top - h[n]
    BY <2>1
  <2>4. PICK p : p = Parent(t, n)
    OBVIOUS
  <2>5. /\ p = None => ~ IsRed(t, n) /\ top - h[n] = 1
        /\ p # None => /\ p \in D
                       /\ top - h[n] = top - h[p] + (IF IsRed(t, n) THEN 0 ELSE 1)
    BY <1>6, <2>3, <2>4
  <2>6. p # None => F[p] = top - h[p]
    BY <2>1, <2>2, <2>4, <2>5
  <2>7. F[n] = F[p] + (IF IsRed(t, n) THEN 0 ELSE 1)
    BY <1>9, <2>3, <2>4
  <2> QED
    BY <1>9, <2>3, <2>5, <2>6, <2>7
<1>11. ASSUME NEW n \in D, ~ HasTwoChildren(n) PROVE F[n] = top
  <2>1. PICK s \in Sides : Child(t, n, s) = None
    BY <1>1, <1>11 DEF HasTwoChildren, Sides
  <2>2. h[n] = 0
    BY <1>4, <2>1 DEF Calm, Even, Weight
  <2> QED
    BY <1>10, <2>2
<1> QED
  BY <1>1, <1>3, <1>11

-----------------------------------------------------------------------------
(* The queries. *)

(* m is the node at place i, or None if there is no such place. *)
IsAt(D, rank, len, m, i) ==
  /\ i \in 1 .. len => m \in D /\ rank[m] = i
  /\ i \notin 1 .. len => m = None

(* One node is at a place. *)
LEMMA IsAtUnique ==
  ASSUME NEW D, NEW t, NEW rank, NEW edge, NEW len, Ordered(D, t, rank, edge, len),
         NEW m, NEW n, NEW i, IsAt(D, rank, len, m, i), IsAt(D, rank, len, n, i)
  PROVE  m = n
<1>1. \A x, y \in D : rank[x] = rank[y] => x = y
  BY AtFacts
<1> QED
  BY <1>1 DEF IsAt

(* S starts behind the first k places. *)
Starts(D, rank, S, k) ==
  /\ \A n \in D : rank[n] <= k => n \notin S
  /\ \A n \in D : rank[n] = k + 1 => n \in S

(* FirstIn is the node there. *)
LEMMA FirstInAt ==
  ASSUME NEW rank, NEW edge, Ordered(Linked, tree, rank, edge, length),
         NEW S, NEW k \in 0 .. length, Starts(Linked, rank, S, k), NEW m, m = FirstIn(S)
  PROVE  IsAt(Linked, rank, length, m, k + 1)
<1>1. /\ \A n \in Linked : rank[n] <= k => n \notin S
      /\ \A n \in Linked : rank[n] = k + 1 => n \in S
  BY DEF Starts
<1>2. /\ k = length => FirstIn(S) = None
      /\ k # length => FirstIn(S) \in Linked /\ rank[FirstIn(S)] = k + 1
  BY <1>1, FirstInLaw
<1>3. length \in Nat
  BY DEF Ordered
<1>4. k + 1 \in 1 .. length <=> k # length
  BY <1>3
<1> QED
  BY <1>2, <1>4 DEF IsAt

(* Next() and Prev(), so stated. *)
LEMMA NeighbourAt ==
  ASSUME NEW D, NEW t, NEW rank, NEW edge, NEW len, Ordered(D, t, rank, edge, len),
         NEW s \in Sides, NEW n \in D, NEW m, m = Neighbour(t, n, s)
  PROVE  IsAt(D, rank, len, m, rank[n] + Dir(s))
  BY NeighbourLaw DEF IsAt

(* A set that holds with a node all nodes before it ends at some place. *)
LEMMA CutExists ==
  ASSUME NEW D, NEW t, NEW rank, NEW edge, NEW len, Ordered(D, t, rank, edge, len),
         NEW R, \A m, n \in D : n \in R /\ rank[m] < rank[n] => m \in R
  PROVE  \E k \in 0 .. len : Cuts(D, rank, R, k)
<1>1. len \in Nat /\ (\A n \in D : rank[n] \in 1 .. len)
      /\ (\A m, n \in D : rank[m] = rank[n] => m = n)
  BY EdgeBounds, AtFacts DEF Ordered
<1>2. PICK S : S = D \ R
  OBVIOUS
<1>3. CASE S = {}
  <2>1. Cuts(D, rank, R, len) /\ len \in 0 .. len
    BY <1>1, <1>2, <1>3 DEF Cuts
  <2> QED
    BY <2>1
<1>4. CASE S # {}
  <2>1. PICK f : f = [n \in S |-> rank[n]]
    OBVIOUS
  <2>2. f \in [S -> Nat] /\ \A n \in S : f[n] = rank[n]
    BY <1>1, <1>2, <2>1
  <2>3. PICK n \in S : \A m \in S : f[n] <= f[m]
    BY <1>4, <2>2, LeastValue
  <2>4. \A m \in S : rank[n] <= rank[m]
    BY <2>2, <2>3
  <2>5. PICK k \in 0 .. len : k = rank[n] - 1
    BY <1>1, <1>2
  <2>6. n \in D /\ n \notin R
    BY <1>2
  <2>7. ASSUME NEW m \in D PROVE m \in R <=> rank[m] <= k
    <3>1. m \notin R => ~ rank[m] <= k
      BY <1>1, <1>2, <2>4, <2>5, <2>6
    <3>2. ASSUME m \in R, ~ rank[m] <= k PROVE FALSE
      <4>1. rank[n] < rank[m] \/ rank[n] = rank[m]
        BY <1>1, <2>5, <2>6, <3>2
      <4> QED
        BY <1>1, <2>6, <3>2, <4>1
    <3> QED
      BY <3>1, <3>2
  <2> QED
    BY <2>7 DEF Cuts
<1> QED
  BY <1>3, <1>4

(* Sorted by key, the nodes below a key and those up to it are such sets.     *)
LEMMA KeyCuts ==
  ASSUME NEW D \in SUBSET Nodes, NEW t, NEW rank, NEW edge, NEW len,
         Ordered(D, t, rank, edge, len), NEW key \in Int
  PROVE  /\ \E k \in 0 .. len : Cuts(D, rank, Below(key), k)
         /\ \E k \in 0 .. len : Cuts(D, rank, UpTo(key), k)
<1>1. \A n \in D : n \in Nodes /\ Key[n] \in Int
  BY KeyAssumption
<1>2. \A m, n \in D : rank[m] < rank[n] => Key[m] <= Key[n]
  BY DEF Ordered, Numbered
<1>3. \A m, n \in D : n \in Below(key) /\ rank[m] < rank[n] => m \in Below(key)
  BY <1>1, <1>2 DEF Below
<1>4. \A m, n \in D : n \in UpTo(key) /\ rank[m] < rank[n] => m \in UpTo(key)
  BY <1>1, <1>2 DEF UpTo
<1>5. PICK R : R = Below(key)
  OBVIOUS
<1>6. PICK U : U = UpTo(key)
  OBVIOUS
<1>7. \E k \in 0 .. len : Cuts(D, rank, R, k)
  BY <1>3, <1>5, CutExists
<1>8. \E k \in 0 .. len : Cuts(D, rank, U, k)
  BY <1>4, <1>6, CutExists
<1> QED
  BY <1>5, <1>6, <1>7, <1>8

(* LowerBound is the first node not below the key. *)
LEMMA LowerBoundLaw ==
  ASSUME NEW D, NEW t, NEW rank, NEW edge, NEW len, Ordered(D, t, rank, edge, len),
         NEW key, NEW k \in 0 .. len, Cuts(D, rank, Below(key), k),
         NEW m, m = LowerBound(t, key)
  PROVE  IsAt(D, rank, len, m, k + 1)
<1>1. PICK R : R = Below(key)
  OBVIOUS
<1>2. PICK path : path = SearchPath(t, R)
  OBVIOUS
<1>3. Found(D, t, rank, len, k, path) /\ len \in Nat
  BY <1>1, <1>2, SearchPathLaw DEF Ordered
<1>4. m = path.last["left"]
  BY <1>1, <1>2 DEF LowerBound
<1>5. k + 1 \in 1 .. len <=> k # len
  BY <1>3
<1> QED
  BY <1>3, <1>4, <1>5 DEF Found, IsAt

(* UpperBound is the first node above a key that some node comes up to. *)
LEMMA UpperBoundLaw ==
  ASSUME NEW D \in SUBSET Nodes, NEW t, NEW rank, NEW edge, NEW len,
         Ordered(D, t, rank, edge, len),
         NEW key \in Int, NEW k \in 1 .. len, Cuts(D, rank, UpTo(key), k),
         NEW m, m = UpperBound(t, key)
  PROVE  IsAt(D, rank, len, m, k + 1)
<1>1. PICK R : R = UpTo(key)
  OBVIOUS
<1>2. PICK path : path = SearchPath(t, R)
  OBVIOUS
<1>3. len \in Nat /\ k \in 0 .. len /\ k # 0 /\ None \notin D
  BY DEF Ordered
<1>4. Found(D, t, rank, len, k, path)
  BY <1>1, <1>2, <1>3, SearchPathLaw
<1>5. PICK f : f = path.last["right"]
  OBVIOUS
<1>6. f \in D /\ rank[f] = k /\ f # None
  BY <1>3, <1>4, <1>5 DEF Found
<1>7. f \in R
  BY <1>1, <1>3, <1>6 DEF Cuts
<1>8. ~ key < Key[f]
  BY <1>1, <1>7 DEF UpTo
<1>9. m = Neighbour(t, f, "right")
  BY <1>1, <1>2, <1>5, <1>6, <1>8 DEF UpperBound, NextNode
<1>10. IsAt(D, rank, len, m, rank[f] + Dir("right"))
  BY <1>6, <1>9, NeighbourAt, SidesFacts
<1> QED
  BY <1>6, <1>10, SidesFacts

(* Find is the first node with the key. *)
LEMMA FindLaw ==
  ASSUME NEW rank, NEW edge, Ordered(Linked, tree, rank, edge, length),
         Linked \in SUBSET Nodes, NEW key \in Int,
         NEW m, m = Find(tree, key), NEW n, n = FirstIn({k \in Nodes : Key[k] = key})
  PROVE  m = n
<1>1. PICK k \in 0 .. length : Cuts(Linked, rank, Below(key), k)
  BY KeyCuts
<1>2. PICK f : f = LowerBound(tree, key)
  OBVIOUS
<1>3. IsAt(Linked, rank, length, f, k + 1)
  BY <1>1, <1>2, LowerBoundLaw
<1>4. m = IF f # None /\ ~ key < Key[f] THEN f ELSE None
  BY <1>2 DEF Find
<1>5. PICK S : S = {i \in Nodes : Key[i] = key}
  OBVIOUS
<1>6. length \in Nat /\ None \notin Linked /\ n = FirstIn(S) /\ k \in Nat
  BY <1>5 DEF Ordered
<1>7. \A i \in Linked : /\ i \in Nodes /\ Key[i] \in Int /\ rank[i] \in 1 .. length
                        /\ i \in Below(key) <=> Key[i] < key
                        /\ i \in S <=> Key[i] = key
  BY <1>5, EdgeBounds, KeyAssumption DEF Below
<1>8. \A i \in Linked : Key[i] < key <=> rank[i] <= k
  BY <1>1, <1>7 DEF Cuts
<1>9. \A i, j \in Linked : (rank[i] < rank[j] => Key[i] <= Key[j])
                           /\ (rank[i] = rank[j] => i = j)
  BY AtFacts DEF Ordered, Numbered
<1>10. CASE f # None /\ ~ key < Key[f]
  <2>1. f \in Linked /\ rank[f] = k + 1 /\ k + 1 \in 1 .. length
    BY <1>3, <1>10 DEF IsAt
  <2>2. Key[f] = key
    BY <1>6, <1>7, <1>8, <1>10, <2>1
  <2>3. Starts(Linked, rank, S, k)
    BY <1>6, <1>7, <1>8, <1>9, <2>1, <2>2 DEF Starts
  <2>4. IsAt(Linked, rank, length, n, k + 1)
    BY <1>6, <2>3, FirstInAt
  <2> QED
    BY <1>3, <1>4, <1>10, <2>4, IsAtUnique
<1>11. CASE ~ (f # None /\ ~ key < Key[f])
  <2>1. \A i \in Linked : i \notin S
    <3>1. SUFFICES ASSUME NEW i \in Linked, Key[i] = key PROVE FALSE
      BY <1>7
    <3>2. ~ rank[i] <= k /\ rank[i] \in 1 .. length
      BY <1>7, <1>8, <3>1
    <3>3. k + 1 \in 1 .. length
      BY <1>6, <3>2
    <3>4. f \in Linked /\ rank[f] = k + 1
      BY <1>3, <3>3 DEF IsAt
    <3>5. key < Key[f]
      BY <1>6, <1>11, <3>4
    <3>6. rank[f] < rank[i] \/ rank[f] = rank[i]
      BY <1>6, <3>2, <3>4
    <3> QED
      BY <1>7, <1>9, <3>1, <3>4, <3>5, <3>6
  <2>2. Starts(Linked, rank, S, length)
    <3>1. \A i \in Linked : rank[i] # length + 1
      BY <1>6, <1>7
    <3> QED
      BY <2>1, <3>1 DEF Starts
  <2>3. IsAt(Linked, rank, length, n, length + 1)
    BY <1>6, <2>2, FirstInAt
  <2>4. n = None
    <3>1. length + 1 \notin 1 .. length
      BY <1>6
    <3> QED
      BY <2>3, <3>1 DEF IsAt
  <2> QED
    BY <1>4, <1>11, <2>4
<1> QED
  BY <1>10, <1>11

-----------------------------------------------------------------------------
(* The two invariants, from the measures. *)

(* Between two operations, the tree is balanced. *)
LEMMA MeasuredBalanced ==
  ASSUME NEW rank, NEW edge, Ordered(Linked, tree, rank, edge, length),
         NEW h \in Heights(Linked), Phase(h)
  PROVE  Balanced
<1>1. SUFFICES ASSUME at = "idle"
               PROVE  /\ ~ IsRed(tree, tree.root)
                      /\ tree.root # None => Parent(tree, tree.root) = None
                      /\ \A n \in Linked, s \in {"left", "right"} :
                           LET c == Child(tree, n, s)
                           IN c # None =>
                                Parent(tree, c) = n /\ ~ (IsRed(tree, n) /\ IsRed(tree, c))
                      /\ \A m, n \in {k \in Linked : ~ HasTwoChildren(k)} :
                           BlackAbove(m) = BlackAbove(n)
  BY DEF Balanced
<1>2. Calm(tree, h)
  BY <1>1 DEF Phase
<1>3. ~ IsRed(tree, tree.root)
  BY <1>2 DEF Calm
<1>4. tree.root # None => Parent(tree, tree.root) = None
  BY RootFacts
<1>5. ASSUME NEW n \in Linked, NEW s \in {"left", "right"}, NEW c, c = Child(tree, n, s),
             c # None
      PROVE  Parent(tree, c) = n /\ ~ (IsRed(tree, n) /\ IsRed(tree, c))
  <2>1. s \in Sides
    BY DEF Sides
  <2>2. Parent(tree, c) = n
    BY <1>5, <2>1, ChildPlaces
  <2>3. RedApart(tree, n, s)
    BY <1>2, <2>1 DEF Calm, Linked
  <2> QED
    BY <1>5, <2>2, <2>3 DEF RedApart
<1>6. \A m, n \in Linked : ~ HasTwoChildren(m) /\ ~ HasTwoChildren(n) =>
        BlackAbove(m) = BlackAbove(n)
  BY <1>2, BlackAboveLaw
<1> QED
  BY <1>3, <1>4, <1>5, <1>6

(* Queries answer from the places. *)
LEMMA OrderedQueries ==
  ASSUME NEW rank, NEW edge, Ordered(Linked, tree, rank, edge, length),
         Linked \in SUBSET Nodes
  PROVE  QueriesAgree
<1>1. length \in Nat /\ None \notin Linked
  BY DEF Ordered
<1>2. /\ contents \in Seq(Linked) /\ Len(contents) = length
      /\ \A i \in 1 .. length : contents[i] \in Linked /\ rank[contents[i]] = i
  <2>1. Lists(Linked, rank, contents, 1, length)
    BY ContentsLaw
  <2> QED
    BY <1>1, <2>1 DEF Lists
<1>3. \A n \in Linked : rank[n] \in 1 .. length /\ n \in Nodes /\ Key[n] \in Int
  BY EdgeBounds, KeyAssumption
<1>4. \A i \in 1 .. length : IsAt(Linked, rank, length, contents[i], i)
  BY <1>2 DEF IsAt
<1>5. BeginOf(tree) = FirstIn(Nodes)
  <2>1. PICK m, n : m = BeginOf(tree) /\ n = FirstIn(Nodes)
    OBVIOUS
  <2>2. IsAt(Linked, rank, length, m, 1)
    <3>1. /\ length = 0 => m = None
          /\ length # 0 => m \in Linked /\ rank[m] = 1
      BY <2>1, BeginLaw
    <3> QED
      BY <1>1, <3>1 DEF IsAt
  <2>3. PICK k \in 0 .. length : k = 0
    BY <1>1
  <2>4. Starts(Linked, rank, Nodes, k)
    BY <1>3, <2>3 DEF Starts
  <2>5. IsAt(Linked, rank, length, n, k + 1)
    BY <2>1, <2>4, FirstInAt
  <2>6. k + 1 = 1
    BY <2>3
  <2> QED
    BY <2>1, <2>2, <2>5, <2>6, IsAtUnique
<1>6. ASSUME NEW i \in 1 .. length
      PROVE  NextNode(tree, contents[i]) = IF i = length THEN None ELSE contents[i + 1]
  <2>1. PICK n, m : n = contents[i] /\ m = Neighbour(tree, n, "right")
    OBVIOUS
  <2>2. n \in Linked /\ rank[n] = i
    BY <1>2, <2>1
  <2>3. IsAt(Linked, rank, length, m, i + 1)
    <3>1. IsAt(Linked, rank, length, m, rank[n] + Dir("right"))
      BY <2>1, <2>2, NeighbourAt, SidesFacts
    <3> QED
      BY <2>2, <3>1, SidesFacts
  <2>4. CASE i = length
    <3>1. i + 1 \notin 1 .. length
      BY <1>1, <2>4
    <3> QED
      BY <2>1, <2>3, <2>4, <3>1 DEF NextNode, IsAt
  <2>5. CASE i # length
    <3>1. i + 1 \in 1 .. length
      BY <1>1, <2>5
    <3>2. PICK k : k = contents[i + 1]
      OBVIOUS
    <3>3. IsAt(Linked, rank, length, k, i + 1)
      BY <1>4, <3>1, <3>2
    <3>4. m = k
      BY <2>3, <3>3, IsAtUnique
    <3> QED
      BY <2>1, <2>5, <3>2, <3>4 DEF NextNode
  <2> QED
    BY <2>4, <2>5
<1>7. ASSUME NEW i \in 1 .. length
      PROVE  PrevNode(tree, contents[i]) = IF i = 1 THEN None ELSE contents[i - 1]
  <2>1. PICK n, m : n = contents[i] /\ m = Neighbour(tree, n, "left")
    OBVIOUS
  <2>2. n \in Linked /\ rank[n] = i
    BY <1>2, <2>1
  <2>3. IsAt(Linked, rank, length, m, i - 1)
    <3>1. IsAt(Linked, rank, length, m, rank[n] + Dir("left"))
      BY <2>1, <2>2, NeighbourAt, SidesFacts
    <3>2. i + Dir("left") = i - 1
      BY SidesFacts
    <3> QED
      BY <2>2, <3>1, <3>2
  <2>4. CASE i = 1
    <3>1. i - 1 \notin 1 .. length
      BY <2>4
    <3> QED
      BY <2>1, <2>3, <2>4, <3>1 DEF PrevNode, IsAt
  <2>5. CASE i # 1
    <3>1. i - 1 \in 1 .. length
      BY <1>1, <2>5
    <3>2. PICK k : k = contents[i - 1]
      OBVIOUS
    <3>3. IsAt(Linked, rank, length, k, i - 1)
      BY <1>4, <3>1, <3>2
    <3>4. m = k
      BY <2>3, <3>3, IsAtUnique
    <3> QED
      BY <2>1, <2>5, <3>2, <3>4 DEF PrevNode
  <2> QED
    BY <2>4, <2>5
<1>8. ASSUME NEW key \in Int
      PROVE  /\ Find(tree, key) = FirstIn({n \in Nodes : Key[n] = key})
             /\ LowerBound(tree, key) = FirstIn(Nodes \ Below(key))
             /\ (\E n \in Linked : Key[n] <= key) =>
                  UpperBound(tree, key) = FirstIn(Nodes \ UpTo(key))
  <2>1. Find(tree, key) = FirstIn({n \in Nodes : Key[n] = key})
    <3>1. PICK m, n : m = Find(tree, key) /\ n = FirstIn({i \in Nodes : Key[i] = key})
      OBVIOUS
    <3>2. m = n
      BY <3>1, FindLaw
    <3> QED
      BY <3>1, <3>2
  <2>2. LowerBound(tree, key) = FirstIn(Nodes \ Below(key))
    <3>1. PICK S : S = Nodes \ Below(key)
      OBVIOUS
    <3>2. PICK m, n : m = LowerBound(tree, key) /\ n = FirstIn(S)
      OBVIOUS
    <3>3. PICK k \in 0 .. length : Cuts(Linked, rank, Below(key), k)
      BY KeyCuts
    <3>4. Starts(Linked, rank, S, k)
      BY <1>3, <3>1, <3>3 DEF Starts, Cuts
    <3>5. IsAt(Linked, rank, length, m, k + 1)
      BY <3>2, <3>3, LowerBoundLaw
    <3>6. IsAt(Linked, rank, length, n, k + 1)
      BY <3>2, <3>4, FirstInAt
    <3> QED
      BY <3>1, <3>2, <3>5, <3>6, IsAtUnique
  <2>3. ASSUME \E n \in Linked : Key[n] <= key
        PROVE  UpperBound(tree, key) = FirstIn(Nodes \ UpTo(key))
    <3>1. PICK S : S = Nodes \ UpTo(key)
      OBVIOUS
    <3>2. PICK m, n : m = UpperBound(tree, key) /\ n = FirstIn(S)
      OBVIOUS
    <3>3. PICK k \in 0 .. length : Cuts(Linked, rank, UpTo(key), k)
      BY KeyCuts
    <3>4. k \in 1 .. length
      <4>1. PICK i \in Linked : Key[i] <= key
        BY <2>3
      <4>2. i \in UpTo(key)
        BY <1>3, <4>1 DEF UpTo
      <4>3. rank[i] <= k /\ rank[i] \in 1 .. length
        BY <1>3, <3>3, <4>2 DEF Cuts
      <4> QED
        BY <1>1, <4>3
    <3>5. Starts(Linked, rank, S, k)
      BY <1>3, <3>1, <3>3 DEF Starts, Cuts
    <3>6. IsAt(Linked, rank, length, m, k + 1)
      BY <3>2, <3>3, <3>4, UpperBoundLaw
    <3>7. IsAt(Linked, rank, length, n, k + 1)
      BY <3>2, <3>5, FirstInAt
    <3> QED
      BY <3>1, <3>2, <3>6, <3>7, IsAtUnique
  <2> QED
    BY <2>1, <2>2, <2>3
<1>9. \A key \in UNION {{k - 1, k, k + 1} : k \in Keys} : key \in Int
  <2>1. \A k \in Keys : k \in Int
    BY KeyAssumption DEF Keys
  <2> QED
    BY <2>1
<1> QED
  BY <1>2, <1>5, <1>6, <1>7, <1>8, <1>9 DEF QueriesAgree

-----------------------------------------------------------------------------
(* Insert links a node. *)

(* u is t with n a red leaf, the child of p on side s. *)
Grown(D, t, u, n, p, s) ==
  /\ u \in Trees(D \cup {n})
  /\ u.root = IF p = None THEN n ELSE t.root
  /\ Parent(u, n) = p /\ Black(u, n) = FALSE /\ \A q \in Sides : Child(u, n, q) = None
  /\ \A m \in D : Parent(u, m) = Parent(t, m) /\ Black(u, m) = Black(t, m)
  /\ \A m \in D, q \in Sides : Child(u, m, q) = IF m = p /\ q = s THEN n ELSE Child(t, m, q)

Planted(D, t, n, p) ==
  [t EXCEPT !.links = [m \in D \cup {n} |-> IF m = n THEN RedLeaf(p) ELSE @[m]]]
Rerooted(v, n) == [v EXCEPT !.root = n]

(* LinkNode's tree is. *)
LEMMA GrownBy ==
  ASSUME NEW D, None \notin D, NEW t \in Trees(D), NEW n, n \notin D, n # None,
         NEW p \in D \cup {None}, NEW s \in Sides,
         NEW v, v = Planted(D, t, n, p),
         NEW u, u = IF p = None THEN Rerooted(v, n) ELSE SetChild(v, p, s, n)
  PROVE  Grown(D, t, u, n, p, s)
<1>1. PICK E : E = D \cup {n}
  OBVIOUS
<1>2. RedLeaf(p) = [parent |-> p, black |-> FALSE, child |-> [q \in Sides |-> None]]
  BY DEF RedLeaf, Sides
<1>3. /\ t.links \in [D -> [parent : D \cup {None}, black : BOOLEAN,
                            child : [Sides -> D \cup {None}]]]
      /\ t.root \in D \cup {None}
      /\ t = [root |-> t.root, links |-> t.links]
  BY DEF Trees
<1>4. PICK links : links = [m \in E |-> IF m = n THEN RedLeaf(p) ELSE t.links[m]]
  OBVIOUS
<1>5. v = [root |-> t.root, links |-> links]
  BY <1>1, <1>3, <1>4 DEF Planted
<1>6. links \in [E -> [parent : E \cup {None}, black : BOOLEAN, child : [Sides -> E \cup {None}]]]
  <2>1. RedLeaf(p) \in [parent : E \cup {None}, black : BOOLEAN, child : [Sides -> E \cup {None}]]
    BY <1>1, <1>2
  <2>2. \A m \in D : t.links[m] \in [parent : E \cup {None}, black : BOOLEAN,
                                     child : [Sides -> E \cup {None}]]
    BY <1>1, <1>3
  <2> QED
    BY <1>1, <1>4, <2>1, <2>2
<1>7. v \in Trees(E) /\ v.root = t.root /\ v.links = links
  BY <1>1, <1>3, <1>5, <1>6 DEF Trees
<1>8. /\ Parent(v, n) = p /\ Black(v, n) = FALSE /\ \A q \in Sides : Child(v, n, q) = None
      /\ \A m \in D : Parent(v, m) = Parent(t, m) /\ Black(v, m) = Black(t, m)
      /\ \A m \in D, q \in Sides : Child(v, m, q) = Child(t, m, q)
  <2>1. v.links[n] = RedLeaf(p) /\ \A m \in D : v.links[m] = t.links[m]
    BY <1>1, <1>4, <1>7
  <2>2. Parent(v, n) = p /\ Black(v, n) = FALSE
    BY <1>2, <2>1 DEF Parent, Black
  <2>3. \A q \in Sides : Child(v, n, q) = None
    BY <1>2, <2>1 DEF Child
  <2>4. /\ \A m \in D : Parent(v, m) = Parent(t, m) /\ Black(v, m) = Black(t, m)
        /\ \A m \in D, q \in Sides : Child(v, m, q) = Child(t, m, q)
    BY <2>1 DEF Parent, Black, Child
  <2> QED
    BY <2>2, <2>3, <2>4
<1>9. CASE p = None
  <2>0. u = Rerooted(v, n)
    BY <1>9
  <2>1. u = [root |-> n, links |-> links]
    BY <1>5, <2>0 DEF Rerooted
  <2>2. u \in Trees(E) /\ u.root = n /\ u.links = v.links
    BY <1>1, <1>6, <1>7, <2>1 DEF Trees
  <2>3. /\ \A m : Parent(u, m) = Parent(v, m) /\ Black(u, m) = Black(v, m)
        /\ \A m, q : Child(u, m, q) = Child(v, m, q)
    BY <2>2 DEF Parent, Black, Child
  <2> QED
    BY <1>1, <1>8, <1>9, <2>2, <2>3 DEF Grown
<1>10. CASE p # None
  <2>1. u = SetChild(v, p, s, n) /\ p \in E /\ p # n /\ n \in E \cup {None}
    BY <1>1, <1>10
  <2>2. ChildSet(E, v, u, p, s, n)
    BY <1>7, <2>1, ChildSetBy
  <2>3. /\ u \in Trees(E) /\ u.root = t.root
        /\ \A m \in E : Parent(u, m) = Parent(v, m) /\ Black(u, m) = Black(v, m)
        /\ \A m \in E, q \in Sides :
             Child(u, m, q) = IF m = p /\ q = s THEN n ELSE Child(v, m, q)
    BY <1>7, <2>2 DEF ChildSet
  <2> QED
    BY <1>1, <1>8, <1>10, <2>1, <2>3 DEF Grown
<1> QED
  BY <1>9, <1>10

(* The places after the one the node takes move on by one; j is the parent's. *)
GrownRank(D, rank, n, r) ==
  [m \in D \cup {n} |-> IF m = n THEN r ELSE IF rank[m] < r THEN rank[m] ELSE rank[m] + 1]
GrownEdge(D, edge, n, r, j) ==
  [m \in D \cup {n} |-> [q \in Sides |->
     IF m = n THEN r
     ELSE IF edge[m][q] < j \/ (q = "left" /\ edge[m][q] = j) THEN edge[m][q]
     ELSE edge[m][q] + 1]]

(* The new places are those of the tree with the node. *)
LEMMA GrownPlaced ==
  ASSUME NEW D, NEW t, NEW rank, NEW edge, NEW len, Ordered(D, t, rank, edge, len),
         NEW n, n \notin D, n # None, NEW p \in D, NEW s \in Sides, Child(t, p, s) = None,
         NEW r \in Int, rank[p] = IF s = "left" THEN r ELSE r - 1,
         NEW u, Grown(D, t, u, n, p, s),
         NEW rank2, rank2 = GrownRank(D, rank, n, r),
         NEW edge2, edge2 = GrownEdge(D, edge, n, r, rank[p])
  PROVE  rank2 \in Ranks(D \cup {n}) /\ edge2 \in Edges(D \cup {n})
         /\ Placed(u, rank2, edge2, len + 1)
<1>1. /\ None \notin D /\ t \in Trees(D) /\ len \in Nat /\ Placed(t, rank, edge, len)
      /\ p # None /\ p # n
  BY DEF Ordered
<1>2. PICK E, j : E = D \cup {n} /\ j = rank[p]
  OBVIOUS
<1>3. \A m \in D : /\ rank[m] \in Int /\ edge[m]["left"] \in Int /\ edge[m]["right"] \in Int
                   /\ edge[m]["left"] <= rank[m] /\ rank[m] <= edge[m]["right"]
                   /\ 1 <= edge[m]["left"] /\ edge[m]["right"] <= len
  BY <1>1, EdgeBounds
<1>4. j \in Int /\ (s = "left" => r = j) /\ (s = "right" => r = j + 1)
  BY <1>2, <1>3, SidesFacts
<1>5. /\ rank2[n] = r /\ edge2[n]["left"] = r /\ edge2[n]["right"] = r
      /\ \A m \in D : /\ rank2[m] = IF rank[m] < r THEN rank[m] ELSE rank[m] + 1
                      /\ edge2[m]["left"] = IF edge[m]["left"] <= j THEN edge[m]["left"]
                                            ELSE edge[m]["left"] + 1
                      /\ edge2[m]["right"] = IF edge[m]["right"] < j THEN edge[m]["right"]
                                             ELSE edge[m]["right"] + 1
  <2>1. rank2[n] = r /\ \A m \in D : rank2[m] = IF rank[m] < r THEN rank[m] ELSE rank[m] + 1
    BY DEF GrownRank
  <2>2. edge2[n]["left"] = r /\ edge2[n]["right"] = r
    BY SidesFacts DEF GrownEdge
  <2>3. \A m \in D :
          /\ edge2[m]["left"] = IF edge[m]["left"] < j \/ edge[m]["left"] = j
                                THEN edge[m]["left"] ELSE edge[m]["left"] + 1
          /\ edge2[m]["right"] = IF edge[m]["right"] < j THEN edge[m]["right"]
                                 ELSE edge[m]["right"] + 1
    BY <1>2, SidesFacts DEF GrownEdge, Sides
  <2>4. \A m \in D : edge[m]["left"] <= j <=> edge[m]["left"] < j \/ edge[m]["left"] = j
    BY <1>3, <1>4
  <2> QED
    BY <2>1, <2>2, <2>3, <2>4
<1>6. rank2 \in Ranks(E) /\ edge2 \in Edges(E)
  <2>1. \A m \in D : rank2[m] \in Int /\ edge2[m]["left"] \in Int /\ edge2[m]["right"] \in Int
    BY <1>3, <1>5
  <2>2. \A m \in E : rank2[m] \in Int /\ \A q \in Sides : edge2[m][q] \in Int
    BY <1>2, <1>5, <2>1, SidesFacts DEF Sides
  <2>3. rank2 = [m \in E |-> rank2[m]]
    BY <1>2 DEF GrownRank
  <2>4. edge2 = [m \in E |-> [q \in Sides |-> edge2[m][q]]]
    BY <1>2 DEF GrownEdge
  <2> QED
    BY <2>2, <2>3, <2>4 DEF Ranks, Edges
<1>7. /\ u \in Trees(E) /\ u.root = t.root /\ DOMAIN u.links = E
      /\ Parent(u, n) = p /\ \A q \in Sides : Child(u, n, q) = None
      /\ \A m \in D : Parent(u, m) = Parent(t, m)
      /\ \A m \in D, q \in Sides : Child(u, m, q) = IF m = p /\ q = s THEN n ELSE Child(t, m, q)
  BY <1>1, <1>2, Fields DEF Grown
<1>8. \A m \in E : edge2[m]["left"] <= rank2[m] /\ rank2[m] <= edge2[m]["right"]
  <2>1. SUFFICES ASSUME NEW m \in D
                 PROVE  edge2[m]["left"] <= rank2[m] /\ rank2[m] <= edge2[m]["right"]
    BY <1>2, <1>5
  <2>2. CASE s = "left"
    BY <1>3, <1>4, <1>5, <2>2
  <2>3. CASE s = "right"
    BY <1>3, <1>4, <1>5, <2>3
  <2> QED
    BY <2>2, <2>3, SidesFacts
<1>9. ASSUME NEW m \in D, NEW q \in Sides, m # p \/ q # s PROVE Hangs(u, rank2, edge2, m, q)
  <2>1. PICK c : c = Child(t, m, q)
    OBVIOUS
  <2>2. Child(u, m, q) = c
    BY <1>7, <1>9, <2>1
  <2>3. rank[m] = j => m = p
    BY <1>2, AtFacts
  <2>4. CASE c = None
    <3>1. edge[m][q] = rank[m]
      <4>1. Hangs(t, rank, edge, m, q)
        BY <1>1, Fields DEF Placed
      <4> QED
        BY <2>1, <2>4, <4>1 DEF Hangs
    <3>2. edge2[m][q] = rank2[m]
      <4>1. CASE q = "left" /\ s = "left"
        BY <1>3, <1>4, <1>5, <1>9, <2>3, <3>1, <4>1
      <4>2. CASE q = "left" /\ s = "right"
        BY <1>3, <1>4, <1>5, <1>9, <2>3, <3>1, <4>2
      <4>3. CASE q = "right" /\ s = "left"
        BY <1>3, <1>4, <1>5, <1>9, <2>3, <3>1, <4>3
      <4>4. CASE q = "right" /\ s = "right"
        BY <1>3, <1>4, <1>5, <1>9, <2>3, <3>1, <4>4
      <4> QED
        BY <4>1, <4>2, <4>3, <4>4, SidesFacts
    <3> QED
      BY <2>2, <2>4, <3>2 DEF Hangs
  <2>5. CASE c # None
    <3>1. /\ c \in D /\ Parent(t, c) = m
          /\ q = "left" => edge[c]["left"] = edge[m]["left"] /\ edge[c]["right"] = rank[m] - 1
          /\ q = "right" => edge[c]["right"] = edge[m]["right"] /\ edge[c]["left"] = rank[m] + 1
      BY <2>1, <2>5, ChildPlaces
    <3>2. Parent(u, c) = m
      BY <1>7, <3>1
    <3>3. m = p => q = Opposite(s)
      BY <1>9, SidesFacts
    <3>4. CASE q = "left"
      <4>1. m = p => s = "right"
        BY <3>3, <3>4, SidesFacts
      <4>2. edge2[c]["left"] = edge2[m]["left"]
        BY <1>5, <3>1, <3>4
      <4>3. edge2[c]["right"] = rank2[m] - 1
        <5>1. CASE s = "left"
          BY <1>3, <1>4, <1>5, <2>3, <3>1, <3>4, <4>1, <5>1
        <5>2. CASE s = "right"
          BY <1>3, <1>4, <1>5, <2>3, <3>1, <3>4, <4>1, <5>2
        <5> QED
          BY <5>1, <5>2, SidesFacts
      <4>4. rank2[m] \in Int
        BY <1>3, <1>5
      <4>5. edge2[c][Opposite(q)] = rank2[m] + Dir(q)
        BY <3>4, <4>3, <4>4, SidesFacts
      <4> QED
        BY <2>2, <2>5, <3>2, <3>4, <4>2, <4>5 DEF Hangs
    <3>5. CASE q = "right"
      <4>1. m = p => s = "left"
        BY <3>3, <3>5, SidesFacts
      <4>2. edge2[c]["right"] = edge2[m]["right"]
        BY <1>5, <3>1, <3>5
      <4>3. edge2[c]["left"] = rank2[m] + 1
        <5>1. CASE s = "left"
          BY <1>3, <1>4, <1>5, <2>3, <3>1, <3>5, <4>1, <5>1
        <5>2. CASE s = "right"
          BY <1>3, <1>4, <1>5, <2>3, <3>1, <3>5, <4>1, <5>2
        <5> QED
          BY <5>1, <5>2, SidesFacts
      <4>4. edge2[c][Opposite(q)] = rank2[m] + Dir(q)
        BY <3>5, <4>3, SidesFacts
      <4> QED
        BY <2>2, <2>5, <3>2, <3>5, <4>2, <4>4 DEF Hangs
    <3> QED
      BY <3>4, <3>5, SidesFacts
  <2> QED
    BY <2>4, <2>5
<1>10. Hangs(u, rank2, edge2, p, s)
  <2>1. Child(u, p, s) = n /\ Parent(u, n) = p
    BY <1>7
  <2>2. edge[p][s] = rank[p]
    BY ChildPlaces
  <2>3. CASE s = "left"
    <3>1. edge2[n]["left"] = edge2[p]["left"] /\ edge2[n]["right"] = rank2[p] - 1
      BY <1>2, <1>3, <1>4, <1>5, <2>2, <2>3
    <3>2. rank2[p] \in Int
      BY <1>3, <1>5
    <3>3. edge2[n][Opposite(s)] = rank2[p] + Dir(s)
      BY <2>3, <3>1, <3>2, SidesFacts
    <3> QED
      BY <2>1, <2>3, <3>1, <3>3 DEF Hangs
  <2>4. CASE s = "right"
    <3>1. edge2[n]["right"] = edge2[p]["right"] /\ edge2[n]["left"] = rank2[p] + 1
      BY <1>2, <1>3, <1>4, <1>5, <2>2, <2>4
    <3>2. edge2[n][Opposite(s)] = rank2[p] + Dir(s)
      BY <2>4, <3>1, SidesFacts
    <3> QED
      BY <2>1, <2>4, <3>1, <3>2 DEF Hangs
  <2> QED
    BY <2>3, <2>4, SidesFacts
<1>11. \A q \in Sides : Hangs(u, rank2, edge2, n, q)
  BY <1>5, <1>7, SidesFacts DEF Hangs, Sides
<1>12. \A m \in E : m = u.root \/ Hung(u, m)
  <2>1. Hung(u, n)
    BY <1>1, <1>7 DEF Hung
  <2>2. ASSUME NEW m \in D, m # t.root PROVE Hung(u, m)
    <3>1. PICK k : k = Parent(t, m)
      OBVIOUS
    <3>2. k # None /\ k \in D /\ \E e \in Sides : Child(t, k, e) = m /\ Child(t, k, Opposite(e)) # m
      BY <1>1, <2>2, <3>1, ParentFacts DEF Ordered
    <3>3. PICK e \in Sides : Child(t, k, e) = m
      BY <3>2
    <3>4. k # p \/ e # s
      BY <1>1, <3>3
    <3>5. Child(u, k, e) = m
      BY <1>7, <3>2, <3>3, <3>4
    <3> QED
      BY <1>7, <3>1, <3>2, <3>5 DEF Hung
  <2> QED
    BY <1>2, <1>7, <2>1, <2>2
<1>13. Rooted(u, edge2, len + 1)
  <2>1. /\ t.root # None /\ t.root \in D /\ Parent(t, t.root) = None
        /\ edge[t.root]["left"] = 1 /\ edge[t.root]["right"] = len
    BY RootFacts
  <2>2. 1 <= j /\ j <= len
    BY <1>2, EdgeBounds, <1>1
  <2>3. edge2[t.root]["left"] = 1 /\ edge2[t.root]["right"] = len + 1
    BY <1>1, <1>4, <1>5, <2>1, <2>2
  <2> QED
    BY <1>7, <2>1, <2>3 DEF Rooted
<1>14. Placed(u, rank2, edge2, len + 1)
  BY <1>2, <1>7, <1>8, <1>9, <1>10, <1>11, <1>12, <1>13 DEF Placed
<1> QED
  BY <1>2, <1>6, <1>14

(* The node goes behind all nodes whose key is not greater. *)
LEMMA GrownNumbered ==
  ASSUME NEW D \in SUBSET Nodes, NEW t, NEW rank, NEW edge, NEW len,
         Ordered(D, t, rank, edge, len), NEW n \in Nodes, n \notin D,
         NEW k \in 0 .. len, Cuts(D, rank, UpTo(Key[n]), k),
         NEW rank2, rank2 = GrownRank(D, rank, n, k + 1)
  PROVE  Numbered(D \cup {n}, rank2, len + 1)
<1>1. PICK E, r : E = D \cup {n} /\ r = k + 1
  OBVIOUS
<1>2. /\ len \in Nat /\ k \in Nat /\ k <= len /\ Key[n] \in Int
      /\ \A m \in D : rank[m] \in 1 .. len /\ Key[m] \in Int
  BY EdgeBounds, KeyAssumption DEF Ordered
<1>3. /\ \A m, i \in D : rank[m] = rank[i] => m = i
      /\ \A i \in 1 .. len : \E m \in D : rank[m] = i
      /\ \A m, i \in D : rank[m] < rank[i] => Key[m] <= Key[i]
  BY DEF Ordered, Numbered
<1>4. rank2[n] = r /\ \A m \in D : rank2[m] = IF rank[m] < r THEN rank[m] ELSE rank[m] + 1
  BY <1>1 DEF GrownRank
<1>5. \A m \in D : rank2[m] \in 1 .. len + 1 /\ rank2[m] # r /\ (rank[m] <= k <=> rank2[m] < r)
  BY <1>1, <1>2, <1>4
<1>6. \A m \in E : rank2[m] \in 1 .. len + 1
  BY <1>1, <1>2, <1>4, <1>5
<1>7. \A m, i \in E : rank2[m] = rank2[i] => m = i
  <2>1. \A m, i \in D : rank2[m] = rank2[i] => rank[m] = rank[i]
    BY <1>1, <1>2, <1>4
  <2> QED
    BY <1>1, <1>3, <1>4, <1>5, <2>1
<1>8. ASSUME NEW i \in 1 .. len + 1 PROVE \E m \in E : rank2[m] = i
  <2>1. CASE i = r
    BY <1>1, <1>4, <2>1
  <2>2. CASE i < r
    <3>1. i \in 1 .. len
      BY <1>1, <1>2, <2>2
    <3>2. PICK m \in D : rank[m] = i
      BY <1>3, <3>1
    <3> QED
      BY <1>1, <1>4, <2>2, <3>2
  <2>3. CASE r < i
    <3>1. i - 1 \in 1 .. len /\ ~ i - 1 < r /\ i - 1 + 1 = i
      BY <1>1, <1>2, <2>3
    <3>2. PICK m \in D : rank[m] = i - 1
      BY <1>3, <3>1
    <3> QED
      BY <1>1, <1>4, <3>1, <3>2
  <2> QED
    BY <1>1, <1>2, <2>1, <2>2, <2>3
<1>9. \A m, i \in E : rank2[m] < rank2[i] => Key[m] <= Key[i]
  <2>1. \A m \in D : rank[m] <= k <=> Key[m] <= Key[n]
    BY <1>2 DEF Cuts, UpTo
  <2>2. \A m \in D : rank2[m] < rank2[n] => Key[m] <= Key[n]
    BY <1>4, <1>5, <2>1
  <2>3. \A m \in D : rank2[n] < rank2[m] => Key[n] <= Key[m]
    <3>1. \A m \in D : rank2[n] < rank2[m] => ~ rank2[m] < r
      BY <1>1, <1>2, <1>4, <1>5
    <3> QED
      BY <1>2, <1>5, <2>1, <3>1
  <2>4. \A m, i \in D : rank2[m] < rank2[i] => rank[m] < rank[i]
    BY <1>1, <1>2, <1>4
  <2>5. ~ rank2[n] < rank2[n]
    BY <1>1, <1>2, <1>4
  <2> QED
    BY <1>1, <1>3, <2>2, <2>3, <2>4, <2>5
<1> QED
  BY <1>1, <1>6, <1>7, <1>8, <1>9 DEF Numbered

(* A red leaf has height 0. *)
GrownHeight(D, h, n) == [m \in D \cup {n} |-> IF m = n THEN 0 ELSE h[m]]

(* The node is red, so the heights stay. *)
LEMMA GrownRising ==
  ASSUME NEW D, None \notin D, NEW t \in Trees(D), NEW h \in Heights(D), Calm(t, h),
         NEW n, n \notin D, n # None, NEW p \in D \cup {None}, NEW s \in Sides,
         p = None => D = {}, p # None => Child(t, p, s) = None,
         NEW u, Grown(D, t, u, n, p, s), NEW h2, h2 = GrownHeight(D, h, n)
  PROVE  h2 \in Heights(D \cup {n}) /\ Rising(u, h2, n, p)
<1>1. PICK E : E = D \cup {n}
  OBVIOUS
<1>2. /\ DOMAIN t.links = D
      /\ \A m \in D, q \in Sides : Even(t, h, m, q) /\ RedApart(t, m, q)
      /\ ~ IsRed(t, t.root)
  BY Fields DEF Calm
<1>3. /\ u \in Trees(E)
      /\ u.root = IF p = None THEN n ELSE t.root
      /\ Parent(u, n) = p /\ Black(u, n) = FALSE /\ \A q \in Sides : Child(u, n, q) = None
      /\ \A m \in D : Black(u, m) = Black(t, m)
      /\ \A m \in D, q \in Sides : Child(u, m, q) = IF m = p /\ q = s THEN n ELSE Child(t, m, q)
  BY <1>1 DEF Grown
<1>4. h2 \in Heights(E) /\ h2[n] = 0 /\ \A m \in D : h2[m] = h[m] /\ h[m] \in Nat
  BY <1>1 DEF GrownHeight, Heights
<1>5. IsRed(u, n) /\ Weight(u, h2, n) = 0 /\ ~ IsRed(u, None) /\ Weight(u, h2, None) = 0
  BY <1>3, <1>4 DEF IsRed, Weight, Black
<1>6. \A c \in D \cup {None} : (IsRed(u, c) <=> IsRed(t, c)) /\ Weight(u, h2, c) = Weight(t, h, c)
  <2>1. \A c \in D \cup {None} : IsRed(u, c) <=> IsRed(t, c)
    BY <1>3 DEF IsRed, Black
  <2>2. \A c \in D \cup {None} : Weight(u, h2, c) = Weight(t, h, c)
    BY <1>3, <1>4 DEF Weight
  <2> QED
    BY <2>1, <2>2
<1>7. ASSUME NEW m \in D, NEW q \in Sides
      PROVE  Even(u, h2, m, q) /\ (Child(u, m, q) # n => RedApart(u, m, q))
  <2>1. PICK c \in D \cup {None} : c = Child(t, m, q)
    BY Fields
  <2>2. Weight(t, h, c) = h[m] /\ ~ (IsRed(t, m) /\ IsRed(t, c))
    BY <1>2, <2>1 DEF Even, RedApart
  <2>3. CASE m = p /\ q = s
    <3>1. c = None /\ Child(u, m, q) = n
      BY <1>3, <2>1, <2>3
    <3>2. h2[m] = 0
      BY <1>4, <2>2, <3>1 DEF Weight
    <3> QED
      BY <1>5, <3>1, <3>2 DEF Even
  <2>4. CASE ~ (m = p /\ q = s)
    <3>1. Child(u, m, q) = c
      BY <1>3, <2>1, <2>4
    <3>2. Weight(u, h2, c) = h2[m]
      BY <1>4, <1>6, <2>2
    <3>3. ~ (IsRed(u, m) /\ IsRed(u, c))
      BY <1>6, <2>2
    <3> QED
      BY <3>1, <3>2, <3>3 DEF Even, RedApart
  <2> QED
    BY <2>3, <2>4
<1>8. \A q \in Sides : Even(u, h2, n, q) /\ RedApart(u, n, q)
  BY <1>3, <1>4, <1>5 DEF Even, RedApart
<1>9. n # u.root => ~ IsRed(u, u.root)
  <2>1. t.root \in D \cup {None}
    BY Fields
  <2> QED
    BY <1>2, <1>3, <1>6, <2>1
<1>10. DOMAIN u.links = E
  BY <1>3, Fields
<1>11. \A m \in E, q \in Sides :
         Even(u, h2, m, q) /\ (Child(u, m, q) # n => RedApart(u, m, q))
  BY <1>1, <1>7, <1>8
<1> QED
  BY <1>1, <1>3, <1>4, <1>5, <1>9, <1>10, <1>11 DEF Rising

(* In an empty tree the node is the root. *)
LEMMA RootGrown ==
  ASSUME NEW D, NEW t, NEW rank, NEW n, D = {}, n # None, NEW s,
         NEW u, Grown(D, t, u, n, None, s),
         NEW rank2, rank2 = GrownRank(D, rank, n, 1),
         NEW edge, NEW edge2, edge2 = GrownEdge(D, edge, n, 1, 1)
  PROVE  rank2 \in Ranks(D \cup {n}) /\ edge2 \in Edges(D \cup {n})
         /\ Placed(u, rank2, edge2, 1)
<1>1. /\ u \in Trees({n}) /\ u.root = n /\ Parent(u, n) = None
      /\ \A q \in Sides : Child(u, n, q) = None
  BY DEF Grown
<1>2. rank2 = [m \in {n} |-> 1] /\ edge2 = [m \in {n} |-> [q \in Sides |-> 1]]
  BY DEF GrownRank, GrownEdge
<1>3. /\ rank2 \in Ranks({n}) /\ edge2 \in Edges({n})
      /\ rank2[n] = 1 /\ \A q \in Sides : edge2[n][q] = 1
  BY <1>2 DEF Ranks, Edges
<1>4. DOMAIN u.links = {n}
  BY <1>1, Fields
<1>5. \A q \in Sides : Hangs(u, rank2, edge2, n, q)
  BY <1>1, <1>3 DEF Hangs
<1>6. Placed(u, rank2, edge2, 1)
  BY <1>1, <1>3, <1>4, <1>5, SidesFacts DEF Placed, Rooted
<1> QED
  BY <1>3, <1>6

(* The tree has n at the place behind all keys up to its own. *)
LinkedIn(D, rank, len, n, u, p) ==
  \E k \in 0 .. len : \E rank2, edge2 : \E h2 \in Heights(D \cup {n}) :
    /\ Cuts(D, rank, UpTo(Key[n]), k) /\ rank2 = GrownRank(D, rank, n, k + 1)
    /\ Ordered(D \cup {n}, u, rank2, edge2, len + 1)
    /\ Rising(u, h2, n, p)

(* InsertEqual, and Insert of a new key, link the node there. *)
LEMMA LinkNodeStep ==
  ASSUME NEW rank, NEW edge, Ordered(Linked, tree, rank, edge, length),
         Linked \in SUBSET Nodes, NEW h \in Heights(Linked), Calm(tree, h),
         NEW n \in Nodes, n \notin Linked, LinkNode(n, SearchPath(tree, UpTo(Key[n])))
  PROVE  /\ LinkedIn(Linked, rank, length, n, tree', parent')
         /\ Linked' = Linked \cup {n} /\ length' = length + 1
         /\ at' = "insert" /\ node' = n /\ parent' \in Linked \cup {None} /\ range' = range
<1>1. PICK D, t, len, u, R, path :
        /\ D = Linked /\ t = tree /\ len = length /\ u = tree' /\ R = UpTo(Key[n])
        /\ path = SearchPath(t, R)
  OBVIOUS
<1>2. /\ Ordered(D, t, rank, edge, len) /\ D \in SUBSET Nodes /\ h \in Heights(D)
      /\ Calm(t, h) /\ n \notin D
  BY <1>1
<1>3. /\ None \notin D /\ t \in Trees(D) /\ len \in Nat /\ n # None /\ Key[n] \in Int
  BY <1>2, NoneAssumption, KeyAssumption DEF Ordered
<1>4. PICK k \in 0 .. len : Cuts(D, rank, R, k)
  BY <1>1, <1>2, <1>3, KeyCuts
<1>5. Found(D, t, rank, len, k, path)
  BY <1>1, <1>2, <1>4, SearchPathLaw
<1>6. PICK p, v : p = path.parent /\ v = Planted(D, t, n, p)
  OBVIOUS
<1>7. /\ u = IF p = None THEN Rerooted(v, n) ELSE SetChild(v, p, path.side, n)
      /\ length' = len + 1 /\ at' = "insert" /\ node' = n /\ parent' = p /\ range' = range
  BY <1>1, <1>6 DEF LinkNode, Planted, Rerooted
<1>8. PICK s \in Sides : p # None => s = path.side
  <2>1. CASE len = 0
    BY <1>5, <1>6, <2>1, SidesFacts DEF Found
  <2>2. CASE len # 0
    BY <1>5, <1>6, <2>2 DEF Found
  <2> QED
    BY <2>1, <2>2
<1>9. /\ p \in D \cup {None}
      /\ p = None => len = 0 /\ k = 0 /\ D = {}
      /\ p # None => /\ p \in D /\ Child(t, p, s) = None
                     /\ rank[p] = IF s = "left" THEN k + 1 ELSE k
  <2>1. CASE len = 0
    <3>1. D = {}
      <4>1. (t.root = None <=> len = 0) /\ (t.root = None <=> D = {})
        BY <1>2, RootFacts
      <4> QED
        BY <2>1, <4>1
    <3> QED
      BY <1>3, <1>5, <1>6, <2>1, <3>1 DEF Found
  <2>2. CASE len # 0
    <3>1. /\ p \in D /\ Child(t, p, path.side) = None
          /\ path.side = "left" => rank[p] = k + 1
          /\ path.side = "right" => rank[p] = k
      BY <1>5, <1>6, <2>2 DEF Found
    <3>2. p # None
      BY <1>3, <3>1
    <3> QED
      BY <1>8, <3>1, <3>2, SidesFacts
  <2> QED
    BY <2>1, <2>2
<1>10. u = IF p = None THEN Rerooted(v, n) ELSE SetChild(v, p, s, n)
  BY <1>7, <1>8
<1>11. Grown(D, t, u, n, p, s)
  BY <1>2, <1>3, <1>6, <1>9, <1>10, GrownBy
<1>12. PICK r \in Int : r = k + 1
  OBVIOUS
<1>13. PICK rank2 : rank2 = GrownRank(D, rank, n, r)
  OBVIOUS
<1>14. \E edge2 : /\ rank2 \in Ranks(D \cup {n}) /\ edge2 \in Edges(D \cup {n})
                  /\ Placed(u, rank2, edge2, len + 1)
  <2>1. CASE p = None
    <3>1. PICK edge2 : edge2 = GrownEdge(D, edge, n, 1, 1)
      OBVIOUS
    <3>2. D = {} /\ rank2 = GrownRank(D, rank, n, 1) /\ Grown(D, t, u, n, None, s)
      BY <1>9, <1>11, <1>12, <1>13, <2>1
    <3>3. /\ rank2 \in Ranks(D \cup {n}) /\ edge2 \in Edges(D \cup {n})
          /\ Placed(u, rank2, edge2, 1)
      BY <1>3, <3>1, <3>2, RootGrown
    <3>4. len + 1 = 1
      BY <1>9, <2>1
    <3> QED
      BY <3>3, <3>4
  <2>2. CASE p # None
    <3>1. PICK edge2 : edge2 = GrownEdge(D, edge, n, r, rank[p])
      OBVIOUS
    <3>2. rank[p] = IF s = "left" THEN r ELSE r - 1
      BY <1>9, <1>12, <2>2
    <3>3. p \in D /\ Child(t, p, s) = None
      BY <1>9, <2>2
    <3>4. /\ rank2 \in Ranks(D \cup {n}) /\ edge2 \in Edges(D \cup {n})
          /\ Placed(u, rank2, edge2, len + 1)
      BY <1>2, <1>3, <1>11, <1>13, <3>1, <3>2, <3>3, GrownPlaced
    <3> QED
      BY <3>4
  <2> QED
    BY <2>1, <2>2
<1>15. PICK edge2 : /\ rank2 \in Ranks(D \cup {n}) /\ edge2 \in Edges(D \cup {n})
                    /\ Placed(u, rank2, edge2, len + 1)
  BY <1>14
<1>16. Numbered(D \cup {n}, rank2, len + 1)
  <2>1. Cuts(D, rank, UpTo(Key[n]), k) /\ rank2 = GrownRank(D, rank, n, k + 1)
    BY <1>1, <1>4, <1>12, <1>13
  <2> QED
    BY <1>2, <2>1, GrownNumbered
<1>17. PICK h2 : h2 = GrownHeight(D, h, n)
  OBVIOUS
<1>18. h2 \in Heights(D \cup {n}) /\ Rising(u, h2, n, p)
  <2>1. (p = None => D = {}) /\ (p # None => Child(t, p, s) = None)
    BY <1>9
  <2> QED
    BY <1>2, <1>3, <1>9, <1>11, <1>17, <2>1, GrownRising
<1>19. u \in Trees(D \cup {n}) /\ None \notin D \cup {n}
  BY <1>3, <1>11 DEF Grown
<1>20. Ordered(D \cup {n}, u, rank2, edge2, len + 1)
  BY <1>3, <1>15, <1>16, <1>19 DEF Ordered
<1>21. LinkedIn(D, rank, len, n, u, p)
  BY <1>1, <1>4, <1>12, <1>13, <1>18, <1>20 DEF LinkedIn
<1>22. DOMAIN u.links = D \cup {n}
  BY <1>19, Fields
<1> QED
  BY <1>1, <1>7, <1>9, <1>21, <1>22 DEF Linked

-----------------------------------------------------------------------------
(* Erase unlinks a node that has one child at most. *)

(* u is t without n, whose place its child c takes under n's parent p. *)
Shrunk(D, t, u, n, c, p) ==
  /\ u \in Trees(D \ {n})
  /\ u.root = IF p = None THEN c ELSE t.root
  /\ \A m \in D \ {n} : /\ Parent(u, m) = IF m = c THEN p ELSE Parent(t, m)
                        /\ Black(u, m) = IF m = c THEN Black(t, n) ELSE Black(t, m)
  /\ \A m \in D \ {n}, q \in Sides :
       Child(u, m, q) = IF Child(t, m, q) = n THEN c ELSE Child(t, m, q)

(* The tree with the nodes E alone. *)
Pruned(w, E) == [w EXCEPT !.links = Restrict(@, E)]

(* No link leads to n. *)
Unreached(D, w, n) ==
  /\ w.root # n
  /\ \A m \in D \ {n} : Parent(w, m) # n /\ \A q \in Sides : Child(w, m, q) # n

(* u is w without n. *)
Without(D, w, u, n) ==
  /\ u \in Trees(D \ {n}) /\ u.root = w.root
  /\ \A m \in D \ {n} : Parent(u, m) = Parent(w, m) /\ Black(u, m) = Black(w, m)
  /\ \A m \in D \ {n}, q \in Sides : Child(u, m, q) = Child(w, m, q)

(* A tree none of whose links leads to n is a tree without it. *)
LEMMA PrunedLaw ==
  ASSUME NEW D, None \notin D, NEW w \in Trees(D), NEW n \in D, Unreached(D, w, n),
         NEW u, u = Pruned(w, D \ {n})
  PROVE  Without(D, w, u, n)
<1>1. PICK E : E = D \ {n}
  OBVIOUS
<1>2. /\ w.links \in [D -> [parent : D \cup {None}, black : BOOLEAN,
                            child : [Sides -> D \cup {None}]]]
      /\ w.root \in D \cup {None}
      /\ w = [root |-> w.root, links |-> w.links]
  BY DEF Trees
<1>3. PICK links : links = [m \in E |-> w.links[m]]
  OBVIOUS
<1>4. u = [root |-> w.root, links |-> links]
  BY <1>1, <1>2, <1>3 DEF Pruned, Restrict
<1>5. \A m \in E : w.links[m] \in [parent : E \cup {None}, black : BOOLEAN,
                                   child : [Sides -> E \cup {None}]]
  <2>1. SUFFICES ASSUME NEW m \in E
                 PROVE  w.links[m] \in [parent : E \cup {None}, black : BOOLEAN,
                                        child : [Sides -> E \cup {None}]]
    OBVIOUS
  <2>2. PICK x : x = w.links[m]
    OBVIOUS
  <2>3. x \in [parent : D \cup {None}, black : BOOLEAN, child : [Sides -> D \cup {None}]]
    BY <1>1, <1>2, <2>2
  <2>4. x.parent # n /\ \A q \in Sides : x.child[q] # n
    BY <1>1, <2>2 DEF Parent, Child, Unreached
  <2>5. /\ x = [parent |-> x.parent, black |-> x.black, child |-> x.child]
        /\ x.parent \in D \cup {None} /\ x.black \in BOOLEAN /\ x.child \in [Sides -> D \cup {None}]
    BY <2>3
  <2>6. x.parent \in E \cup {None} /\ x.child \in [Sides -> E \cup {None}]
    BY <1>1, <2>4, <2>5
  <2>7. x \in [parent : E \cup {None}, black : BOOLEAN, child : [Sides -> E \cup {None}]]
    BY <2>5, <2>6
  <2> QED
    BY <2>2, <2>7
<1>6. links \in [E -> [parent : E \cup {None}, black : BOOLEAN, child : [Sides -> E \cup {None}]]]
  BY <1>3, <1>5
<1>7. w.root \in E \cup {None}
  BY <1>1, <1>2 DEF Unreached
<1>8. u \in Trees(E) /\ u.root = w.root /\ u.links = links
  <2>1. u.root = w.root /\ u.links = links
    BY <1>4
  <2>2. [root |-> w.root, links |-> links] \in Trees(E)
    BY <1>6, <1>7 DEF Trees
  <2> QED
    BY <1>4, <2>1, <2>2
<1>9. \A m \in E : u.links[m] = w.links[m]
  BY <1>3, <1>8
<1> QED
  BY <1>1, <1>8, <1>9 DEF Parent, Black, Child, Without

(* Bypass leaves such a tree. *)
LEMMA ShrunkBy ==
  ASSUME NEW D, NEW t, NEW rank, NEW edge, NEW len, Ordered(D, t, rank, edge, len),
         NEW n \in D, NEW s \in Sides, Child(t, n, Opposite(s)) = None,
         NEW c, c = Child(t, n, s), NEW p, p = Parent(t, n),
         NEW v, v = ChangeChild(t, n, c, p),
         NEW w, w = IF c # None THEN TakePlace(v, c, n) ELSE v,
         NEW u, u = Pruned(w, D \ {n})
  PROVE  Shrunk(D, t, u, n, c, p)
<1>1. /\ None \notin D /\ t \in Trees(D) /\ rank \in Ranks(D) /\ edge \in Edges(D)
      /\ Placed(t, rank, edge, len) /\ n # None
  BY DEF Ordered
<1>2. c \in D \cup {None} /\ p \in D \cup {None} /\ c # n
  <2>1. c # None => c # n
    BY <1>1, ChildFacts
  <2> QED
    BY <1>1, <2>1, Fields
<1>3. /\ p = None <=> n = t.root
      /\ p # None => \E e \in Sides : Child(t, p, e) = n /\ Child(t, p, Opposite(e)) # n
  BY <1>1, ParentFacts
<1>4. PICK e \in Sides : p # None => Child(t, p, e) = n /\ Child(t, p, Opposite(e)) # n
  BY <1>3, SidesFacts
<1>5. /\ v \in Trees(D) /\ v.root = IF p = None THEN c ELSE t.root
      /\ \A m \in D : Parent(v, m) = Parent(t, m) /\ Black(v, m) = Black(t, m)
      /\ \A m \in D, q \in Sides : Child(v, m, q) = IF m = p /\ q = e THEN c ELSE Child(t, m, q)
  BY <1>1, <1>2, <1>4, ChangeChildLaw, SMTT(30)
<1>6. /\ w \in Trees(D) /\ w.root = v.root
      /\ \A m \in D : /\ Parent(w, m) = IF m = c THEN p ELSE Parent(t, m)
                      /\ Black(w, m) = IF m = c THEN Black(t, n) ELSE Black(t, m)
      /\ \A m \in D, q \in Sides : Child(w, m, q) = Child(v, m, q)
  <2>1. CASE c = None
    <3>1. w = v
      BY <2>1
    <3> QED
      BY <1>1, <1>5, <2>1, <3>1
  <2>2. CASE c # None
    <3>1. w = TakePlace(v, c, n) /\ c \in D
      BY <1>2, <2>2
    <3>2. /\ w \in Trees(D) /\ w.root = v.root
          /\ \A k \in D : /\ Parent(w, k) = Parent(v, IF k = c THEN n ELSE k)
                          /\ Black(w, k) = Black(v, IF k = c THEN n ELSE k)
          /\ \A k \in D, q \in Sides : Child(w, k, q) = Child(v, k, q)
      <4>1. v \in Trees(D) /\ c \in D /\ n \in D
        BY <1>5, <3>1
      <4> QED
        BY <3>1, <4>1, TakePlaceLaw, Z3
    <3>3. \A k \in D : /\ Parent(w, k) = IF k = c THEN p ELSE Parent(t, k)
                       /\ Black(w, k) = IF k = c THEN Black(t, n) ELSE Black(t, k)
      BY <1>5, <3>2
    <3> QED
      BY <3>2, <3>3
  <2> QED
    BY <2>1, <2>2
<1>7. \A m \in D, q \in Sides :
        Child(w, m, q) = IF Child(t, m, q) = n THEN c ELSE Child(t, m, q)
  <2>1. \A m \in D, q \in Sides : Child(t, m, q) = n => m = p /\ q = e
    <3>1. SUFFICES ASSUME NEW m \in D, NEW q \in Sides, Child(t, m, q) = n
                   PROVE  m = p /\ q = e
      OBVIOUS
    <3>2. Parent(t, n) = m
      BY <1>1, <3>1, ChildFacts
    <3> QED
      BY <1>1, <1>4, <3>1, <3>2, SidesFacts
  <2>2. \A m \in D : m = p => Child(t, m, e) = n
    BY <1>1, <1>4
  <2> QED
    BY <1>5, <1>6, <2>1, <2>2
<1>8. w.root # n
  BY <1>1, <1>2, <1>3, <1>5, <1>6
<1>9. ASSUME NEW m \in D \ {n} PROVE Parent(w, m) # n /\ \A q \in Sides : Child(w, m, q) # n
  <2>1. m # c => Parent(t, m) # n
    <3>1. SUFFICES ASSUME m # c, Parent(t, m) = n PROVE FALSE
      OBVIOUS
    <3>2. \E f \in Sides : Child(t, n, f) = m
      BY <1>1, <3>1, ParentFacts
    <3> QED
      BY <1>1, <3>1, <3>2, SidesFacts
  <2>2. p # n
    BY <1>1, ParentFacts
  <2> QED
    BY <1>2, <1>6, <1>7, <2>1, <2>2
<1>10. Without(D, w, u, n)
  <2>1. None \notin D /\ w \in Trees(D)
    BY <1>1, <1>6
  <2>2. Unreached(D, w, n)
    BY <1>8, <1>9 DEF Unreached
  <2> QED
    BY <2>1, <2>2, PrunedLaw
<1>11. /\ u \in Trees(D \ {n}) /\ u.root = w.root
       /\ \A m \in D \ {n} : Parent(u, m) = Parent(w, m) /\ Black(u, m) = Black(w, m)
       /\ \A m \in D \ {n}, q \in Sides : Child(u, m, q) = Child(w, m, q)
  BY <1>10 DEF Without
<1> QED
  BY <1>5, <1>6, <1>7, <1>11 DEF Shrunk

(* The places after the one the node had move back by one. *)
ShrunkRank(D, rank, n, k) ==
  [m \in D \ {n} |-> IF rank[m] < k THEN rank[m] ELSE rank[m] - 1]
ShrunkEdge(D, edge, n, k) ==
  [m \in D \ {n} |-> [q \in Sides |->
     IF edge[m][q] < k \/ (q = "left" /\ edge[m][q] = k) THEN edge[m][q] ELSE edge[m][q] - 1]]

(* The new places are those of the tree without the node. *)
LEMMA ShrunkPlaced ==
  ASSUME NEW D, NEW t, NEW rank, NEW edge, NEW len, Ordered(D, t, rank, edge, len),
         NEW n \in D, NEW s \in Sides, Child(t, n, Opposite(s)) = None,
         NEW c, c = Child(t, n, s), NEW p, p = Parent(t, n),
         NEW u, Shrunk(D, t, u, n, c, p), NEW k, k = rank[n],
         NEW rank2, rank2 = ShrunkRank(D, rank, n, k),
         NEW edge2, edge2 = ShrunkEdge(D, edge, n, k)
  PROVE  rank2 \in Ranks(D \ {n}) /\ edge2 \in Edges(D \ {n})
         /\ Placed(u, rank2, edge2, len - 1)
<1>1. /\ None \notin D /\ t \in Trees(D) /\ rank \in Ranks(D) /\ edge \in Edges(D)
      /\ len \in Nat /\ Placed(t, rank, edge, len) /\ n # None
  BY DEF Ordered
<1>2. PICK E : E = D \ {n}
  OBVIOUS
<1>3. /\ \A m \in D : /\ rank[m] \in Int /\ edge[m]["left"] \in Int /\ edge[m]["right"] \in Int
                      /\ edge[m]["left"] <= rank[m] /\ rank[m] <= edge[m]["right"]
                      /\ 1 <= edge[m]["left"] /\ edge[m]["right"] <= len
      /\ k \in Int /\ 1 <= k /\ k <= len
      /\ \A m \in E : rank[m] # k
  <2>1. \A m \in E : rank[m] # k
    BY <1>2, AtFacts
  <2>2. \A m \in D : /\ rank[m] \in Int /\ edge[m]["left"] \in Int /\ edge[m]["right"] \in Int
                     /\ edge[m]["left"] <= rank[m] /\ rank[m] <= edge[m]["right"]
                     /\ 1 <= edge[m]["left"] /\ edge[m]["right"] <= len
    BY <1>1, EdgeBounds
  <2>3. k \in 1 .. len
    BY EdgeBounds
  <2> QED
    BY <1>1, <2>1, <2>2, <2>3
<1>4. \A m \in E : /\ rank2[m] = IF rank[m] < k THEN rank[m] ELSE rank[m] - 1
                   /\ edge2[m]["left"] = IF edge[m]["left"] <= k THEN edge[m]["left"]
                                         ELSE edge[m]["left"] - 1
                   /\ edge2[m]["right"] = IF edge[m]["right"] < k THEN edge[m]["right"]
                                          ELSE edge[m]["right"] - 1
  <2>1. \A m \in E : rank2[m] = IF rank[m] < k THEN rank[m] ELSE rank[m] - 1
    BY <1>2 DEF ShrunkRank
  <2>2. \A m \in E :
          /\ edge2[m]["left"] = IF edge[m]["left"] < k \/ edge[m]["left"] = k
                                THEN edge[m]["left"] ELSE edge[m]["left"] - 1
          /\ edge2[m]["right"] = IF edge[m]["right"] < k THEN edge[m]["right"]
                                 ELSE edge[m]["right"] - 1
    BY <1>2, SidesFacts DEF ShrunkEdge, Sides
  <2>3. \A m \in E : edge[m]["left"] <= k <=> edge[m]["left"] < k \/ edge[m]["left"] = k
    BY <1>2, <1>3
  <2> QED
    BY <2>1, <2>2, <2>3
<1>5. rank2 \in Ranks(E) /\ edge2 \in Edges(E)
  <2>1. \A m \in E : rank2[m] \in Int /\ edge2[m]["left"] \in Int /\ edge2[m]["right"] \in Int
    BY <1>2, <1>3, <1>4
  <2>2. \A m \in E : rank2[m] \in Int /\ \A q \in Sides : edge2[m][q] \in Int
    BY <2>1, SidesFacts DEF Sides
  <2>3. rank2 = [m \in E |-> rank2[m]]
    BY <1>2 DEF ShrunkRank
  <2>4. edge2 = [m \in E |-> [q \in Sides |-> edge2[m][q]]]
    BY <1>2 DEF ShrunkEdge
  <2> QED
    BY <2>2, <2>3, <2>4 DEF Ranks, Edges
<1>6. /\ u \in Trees(E) /\ u.root = (IF p = None THEN c ELSE t.root) /\ DOMAIN u.links = E
      /\ \A m \in E : Parent(u, m) = IF m = c THEN p ELSE Parent(t, m)
      /\ \A m \in E, q \in Sides : Child(u, m, q) = IF Child(t, m, q) = n THEN c ELSE Child(t, m, q)
  BY <1>2, Fields DEF Shrunk
<1>7. /\ c = None => edge[n]["left"] = k /\ edge[n]["right"] = k
      /\ c # None => /\ c \in D /\ c \in E /\ Parent(t, c) = n
                     /\ s = "left" => /\ edge[c]["left"] = edge[n]["left"]
                                      /\ edge[c]["right"] = k - 1 /\ edge[n]["right"] = k
                     /\ s = "right" => /\ edge[c]["right"] = edge[n]["right"]
                                       /\ edge[c]["left"] = k + 1 /\ edge[n]["left"] = k
  <2>1. edge[n][Opposite(s)] = k
    BY SidesFacts, ChildPlaces
  <2>2. CASE c = None
    <3>1. edge[n][s] = k
      <4>1. Hangs(t, rank, edge, n, s)
        BY <1>1, Fields DEF Placed
      <4> QED
        BY <2>2, <4>1 DEF Hangs
    <3> QED
      BY <2>1, <2>2, <3>1, SidesFacts DEF Sides
  <2>3. CASE c # None
    <3>1. /\ c \in D /\ Parent(t, c) = n /\ c # n
          /\ s = "left" => /\ edge[c]["left"] = edge[n]["left"] /\ edge[c]["right"] = k - 1
          /\ s = "right" => /\ edge[c]["right"] = edge[n]["right"] /\ edge[c]["left"] = k + 1
      BY <2>3, ChildPlaces
    <3> QED
      BY <1>2, <2>1, <2>3, <3>1, SidesFacts
  <2> QED
    BY <2>2, <2>3
<1>8. \A m \in E : edge2[m]["left"] <= rank2[m] /\ rank2[m] <= edge2[m]["right"]
  BY <1>2, <1>3, <1>4
<1>9. ASSUME NEW m \in E, NEW q \in Sides PROVE Hangs(u, rank2, edge2, m, q)
  <2>1. PICK d : d = Child(t, m, q)
    OBVIOUS
  <2>2. /\ rank[m] \in Int /\ rank[m] # k /\ m \in D /\ m # n
        /\ rank2[m] = (IF rank[m] < k THEN rank[m] ELSE rank[m] - 1) /\ rank2[m] \in Int
    BY <1>2, <1>3, <1>4
  <2>3. CASE d = None
    <3>1. edge[m][q] = rank[m]
      <4>1. Hangs(t, rank, edge, m, q)
        BY <1>1, <2>2, Fields DEF Placed
      <4> QED
        BY <2>1, <2>3, <4>1 DEF Hangs
    <3>2. edge2[m][q] = rank2[m]
      <4>1. CASE q = "left"
        BY <1>2, <1>3, <1>4, <2>2, <3>1, <4>1
      <4>2. CASE q = "right"
        BY <1>2, <1>3, <1>4, <2>2, <3>1, <4>2
      <4> QED
        BY <4>1, <4>2, SidesFacts
    <3>3. Child(u, m, q) = None
      BY <1>1, <1>6, <2>1, <2>3
    <3> QED
      BY <3>2, <3>3 DEF Hangs
  <2>4. CASE d # None
    <3>1. /\ d \in D /\ Parent(t, d) = m
          /\ q = "left" => edge[d]["left"] = edge[m]["left"] /\ edge[d]["right"] = rank[m] - 1
          /\ q = "right" => edge[d]["right"] = edge[m]["right"] /\ edge[d]["left"] = rank[m] + 1
      BY <2>1, <2>2, <2>4, ChildPlaces
    <3>2. CASE d # n
      <4>1. Child(u, m, q) = d /\ d \in E
        BY <1>2, <1>6, <2>1, <3>1, <3>2
      <4>2. Parent(u, d) = m
        BY <1>6, <1>7, <2>2, <2>4, <3>1, <4>1
      <4>3. CASE q = "left"
        <5>1. edge2[d]["left"] = edge2[m]["left"]
          BY <1>4, <3>1, <4>1, <4>3
        <5>2. edge2[d]["right"] = rank2[m] - 1
          BY <1>3, <1>4, <2>2, <3>1, <4>1, <4>3
        <5>3. edge2[d][Opposite(q)] = rank2[m] + Dir(q)
          BY <2>2, <4>3, <5>2, SidesFacts
        <5> QED
          BY <2>4, <4>1, <4>2, <4>3, <5>1, <5>3 DEF Hangs
      <4>4. CASE q = "right"
        <5>1. edge2[d]["right"] = edge2[m]["right"]
          BY <1>4, <3>1, <4>1, <4>4
        <5>2. edge2[d]["left"] = rank2[m] + 1
          BY <1>3, <1>4, <2>2, <3>1, <4>1, <4>4
        <5>3. edge2[d][Opposite(q)] = rank2[m] + Dir(q)
          BY <4>4, <5>2, SidesFacts
        <5> QED
          BY <2>4, <4>1, <4>2, <4>4, <5>1, <5>3 DEF Hangs
      <4> QED
        BY <4>3, <4>4, SidesFacts
    <3>3. CASE d = n
      <4>1. Child(u, m, q) = c /\ p = m
        BY <1>6, <2>1, <3>1, <3>3
      <4>2. /\ q = "left" => edge[n]["left"] = edge[m]["left"] /\ edge[n]["right"] = rank[m] - 1
            /\ q = "right" => edge[n]["right"] = edge[m]["right"] /\ edge[n]["left"] = rank[m] + 1
        BY <3>1, <3>3
      <4>3. CASE c = None
        <5>1. edge2[m][q] = rank2[m]
          <6>1. CASE q = "left"
            BY <1>2, <1>3, <1>4, <1>7, <2>2, <4>2, <4>3, <6>1
          <6>2. CASE q = "right"
            BY <1>2, <1>3, <1>4, <1>7, <2>2, <4>2, <4>3, <6>2
          <6> QED
            BY <6>1, <6>2, SidesFacts
        <5> QED
          BY <4>1, <4>3, <5>1 DEF Hangs
      <4>4. CASE c # None
        <5>1. Parent(u, c) = m /\ c \in E /\ c \in D
          BY <1>6, <1>7, <4>1, <4>4
        <5>2. CASE q = "left"
          <6>1. edge2[c]["left"] = edge2[m]["left"]
            <7>1. CASE s = "left"
              BY <1>4, <1>7, <4>2, <4>4, <5>1, <5>2, <7>1
            <7>2. CASE s = "right"
              BY <1>3, <1>4, <1>7, <2>2, <4>2, <4>4, <5>1, <5>2, <7>2
            <7> QED
              BY <7>1, <7>2, SidesFacts
          <6>2. edge2[c]["right"] = rank2[m] - 1
            <7>1. CASE s = "left"
              BY <1>3, <1>4, <1>7, <2>2, <4>2, <4>4, <5>1, <5>2, <7>1
            <7>2. CASE s = "right"
              BY <1>3, <1>4, <1>7, <2>2, <4>2, <4>4, <5>1, <5>2, <7>2
            <7> QED
              BY <7>1, <7>2, SidesFacts
          <6>3. edge2[c][Opposite(q)] = rank2[m] + Dir(q)
            BY <2>2, <5>2, <6>2, SidesFacts
          <6> QED
            BY <4>1, <4>4, <5>1, <5>2, <6>1, <6>3 DEF Hangs
        <5>3. CASE q = "right"
          <6>1. edge2[c]["right"] = edge2[m]["right"]
            <7>1. CASE s = "left"
              BY <1>3, <1>4, <1>7, <2>2, <4>2, <4>4, <5>1, <5>3, <7>1
            <7>2. CASE s = "right"
              BY <1>4, <1>7, <4>2, <4>4, <5>1, <5>3, <7>2
            <7> QED
              BY <7>1, <7>2, SidesFacts
          <6>2. edge2[c]["left"] = rank2[m] + 1
            <7>1. CASE s = "left"
              BY <1>3, <1>4, <1>7, <2>2, <4>2, <4>4, <5>1, <5>3, <7>1
            <7>2. CASE s = "right"
              BY <1>3, <1>4, <1>7, <2>2, <4>2, <4>4, <5>1, <5>3, <7>2
            <7> QED
              BY <7>1, <7>2, SidesFacts
          <6>3. edge2[c][Opposite(q)] = rank2[m] + Dir(q)
            BY <5>3, <6>2, SidesFacts
          <6> QED
            BY <4>1, <4>4, <5>1, <5>3, <6>1, <6>3 DEF Hangs
        <5> QED
          BY <5>2, <5>3, SidesFacts
      <4> QED
        BY <4>3, <4>4
    <3> QED
      BY <3>2, <3>3
  <2> QED
    BY <2>3, <2>4
<1>10. /\ p = None <=> n = t.root
       /\ p # None => p \in E /\ \E e \in Sides : Child(t, p, e) = n
  BY <1>1, <1>2, ParentFacts
<1>11. ASSUME NEW m \in E, m # u.root PROVE Hung(u, m)
  <2>1. CASE m = c
    <3>1. p # None
      BY <1>6, <1>11, <2>1
    <3>2. PICK e \in Sides : Child(t, p, e) = n
      BY <1>10, <3>1
    <3>3. Parent(u, m) = p /\ Child(u, p, e) = m
      BY <1>6, <1>10, <2>1, <3>1, <3>2
    <3> QED
      BY <3>1, <3>3 DEF Hung
  <2>2. CASE m # c
    <3>1. PICK x : x = Parent(t, m)
      OBVIOUS
    <3>2. m # t.root
      BY <1>2, <1>6, <1>10, <1>11
    <3>3. x # None /\ x \in D /\ \E e \in Sides : Child(t, x, e) = m
      BY <1>1, <1>2, <3>1, <3>2, ParentFacts
    <3>4. PICK e \in Sides : Child(t, x, e) = m
      BY <3>3
    <3>5. x # n
      BY <1>1, <1>2, <2>2, <3>4, SidesFacts
    <3>6. Parent(u, m) = x /\ Child(u, x, e) = m
      BY <1>2, <1>6, <2>2, <3>1, <3>3, <3>4, <3>5
    <3> QED
      BY <3>3, <3>6 DEF Hung
  <2> QED
    BY <2>1, <2>2
<1>12. Rooted(u, edge2, len - 1)
  <2>1. /\ t.root # None /\ t.root \in D /\ Parent(t, t.root) = None
        /\ edge[t.root]["left"] = 1 /\ edge[t.root]["right"] = len
    BY RootFacts
  <2>2. CASE p = None /\ c = None
    <3>1. k = 1 /\ len = 1
      BY <1>7, <1>10, <2>1, <2>2
    <3>2. E = {}
      <4>1. \A m \in D : rank[m] \in 1 .. len
        BY EdgeBounds
      <4>2. \A m \in E : FALSE
        BY <1>2, <1>3, <3>1, <4>1
      <4> QED
        BY <4>2
    <3> QED
      BY <1>6, <2>2, <3>2 DEF Rooted
  <2>3. CASE p = None /\ c # None
    <3>1. edge[n]["left"] = 1 /\ edge[n]["right"] = len
      BY <1>10, <2>1, <2>3
    <3>2. edge2[c]["left"] = 1 /\ edge2[c]["right"] = len - 1
      <4>1. CASE s = "left"
        BY <1>1, <1>3, <1>4, <1>7, <2>3, <3>1, <4>1
      <4>2. CASE s = "right"
        BY <1>1, <1>3, <1>4, <1>7, <2>3, <3>1, <4>2
      <4> QED
        BY <4>1, <4>2, SidesFacts
    <3>3. u.root = c /\ Parent(u, c) = None
      BY <1>6, <1>7, <2>3
    <3> QED
      BY <2>3, <3>2, <3>3 DEF Rooted
  <2>4. CASE p # None
    <3>1. u.root = t.root /\ t.root \in E
      BY <1>2, <1>6, <1>10, <2>1, <2>4
    <3>2. t.root # c
      BY <1>1, <1>7, <2>1
    <3>3. Parent(u, t.root) = None
      BY <1>6, <2>1, <3>1, <3>2
    <3>4. edge2[t.root]["left"] = 1 /\ edge2[t.root]["right"] = len - 1
      BY <1>1, <1>3, <1>4, <2>1, <3>1
    <3> QED
      BY <2>1, <3>1, <3>3, <3>4 DEF Rooted
  <2> QED
    BY <2>2, <2>3, <2>4
<1>13. Placed(u, rank2, edge2, len - 1)
  <2>1. \A m \in E, q \in Sides : Hangs(u, rank2, edge2, m, q)
    BY <1>9
  <2>2. \A m \in E : m = u.root \/ Hung(u, m)
    BY <1>11
  <2> QED
    BY <1>6, <1>8, <1>12, <2>1, <2>2 DEF Placed
<1> QED
  BY <1>2, <1>5, <1>13

(* The other nodes keep their order. *)
LEMMA ShrunkNumbered ==
  ASSUME NEW D, NEW t, NEW rank, NEW edge, NEW len, Ordered(D, t, rank, edge, len),
         NEW n \in D, NEW k, k = rank[n], NEW rank2, rank2 = ShrunkRank(D, rank, n, k)
  PROVE  Numbered(D \ {n}, rank2, len - 1)
<1>1. PICK E : E = D \ {n}
  OBVIOUS
<1>2. len \in Nat /\ k \in 1 .. len /\ \A m \in D : rank[m] \in 1 .. len
  BY EdgeBounds DEF Ordered
<1>3. /\ \A m, i \in D : rank[m] = rank[i] => m = i
      /\ \A i \in 1 .. len : \E m \in D : rank[m] = i
      /\ \A m, i \in D : rank[m] < rank[i] => Key[m] <= Key[i]
  BY DEF Ordered, Numbered
<1>4. \A m \in E : /\ rank2[m] = IF rank[m] < k THEN rank[m] ELSE rank[m] - 1
                   /\ rank[m] # k /\ rank[m] \in 1 .. len /\ m \in D
  BY <1>1, <1>2, <1>3 DEF ShrunkRank
<1>5. \A m \in E : rank2[m] \in 1 .. len - 1
  BY <1>2, <1>4
<1>6. \A m, i \in E : /\ rank2[m] = rank2[i] => rank[m] = rank[i]
                      /\ rank2[m] < rank2[i] => rank[m] < rank[i]
  BY <1>2, <1>4
<1>7. ASSUME NEW i \in 1 .. len - 1 PROVE \E m \in E : rank2[m] = i
  <2>1. CASE i < k
    <3>1. i \in 1 .. len
      BY <1>2
    <3>2. PICK m \in D : rank[m] = i
      BY <1>3, <3>1
    <3>3. m \in E
      BY <1>1, <1>2, <2>1, <3>2
    <3> QED
      BY <1>4, <2>1, <3>2, <3>3
  <2>2. CASE ~ i < k
    <3>1. i + 1 \in 1 .. len /\ ~ i + 1 < k /\ i + 1 - 1 = i /\ i + 1 # k
      BY <1>2, <2>2
    <3>2. PICK m \in D : rank[m] = i + 1
      BY <1>3, <3>1
    <3>3. m \in E
      BY <1>1, <3>1, <3>2
    <3> QED
      BY <1>4, <3>1, <3>2, <3>3
  <2> QED
    BY <2>1, <2>2
<1> QED
  BY <1>1, <1>3, <1>4, <1>5, <1>6, <1>7 DEF Numbered

(* The other nodes keep their heights. *)
ShrunkHeight(D, h, n) == [m \in D \ {n} |-> h[m]]

(* Of the nodes D, p has lost a black child. *)
Robbed(D, u, h, p) == p \in D /\ \E o \in Sides : Lacking(u, h, None, p, o)

(* An only child is red, and black in the place of its parent; without one,  *)
(* a black node is missed where it was.                                      *)
LEMMA ShrunkPhase ==
  ASSUME NEW D, NEW t, NEW rank, NEW edge, NEW len, Ordered(D, t, rank, edge, len),
         NEW h \in Heights(D), Calm(t, h),
         NEW n \in D, NEW s \in Sides, Child(t, n, Opposite(s)) = None,
         NEW c, c = Child(t, n, s), NEW p, p = Parent(t, n),
         NEW u, Shrunk(D, t, u, n, c, p), NEW h2, h2 = ShrunkHeight(D, h, n)
  PROVE  /\ h2 \in Heights(D \ {n})
         /\ c # None \/ IsRed(t, n) \/ p = None => Calm(u, h2)
         /\ c = None /\ ~ IsRed(t, n) /\ p # None => Robbed(D \ {n}, u, h2, p)
<1>1. /\ None \notin D /\ t \in Trees(D) /\ rank \in Ranks(D) /\ edge \in Edges(D)
      /\ len \in Nat /\ Placed(t, rank, edge, len) /\ n # None /\ DOMAIN t.links = D
  BY Fields DEF Ordered
<1>2. PICK E : E = D \ {n}
  OBVIOUS
<1>3. /\ \A m \in D, q \in Sides : Even(t, h, m, q) /\ RedApart(t, m, q)
      /\ ~ IsRed(t, t.root)
  BY <1>1 DEF Calm
<1>4. /\ u \in Trees(E) /\ u.root = (IF p = None THEN c ELSE t.root) /\ DOMAIN u.links = E
      /\ \A m \in E : Black(u, m) = IF m = c THEN Black(t, n) ELSE Black(t, m)
      /\ \A m \in E, q \in Sides : Child(u, m, q) = IF Child(t, m, q) = n THEN c ELSE Child(t, m, q)
  BY <1>2, Fields DEF Shrunk
<1>5. h2 \in Heights(E) /\ \A m \in E : h2[m] = h[m] /\ h[m] \in Nat
  BY <1>2 DEF ShrunkHeight, Heights
<1>6. h[n] = 0 /\ Weight(t, h, n) = IF IsRed(t, n) THEN 0 ELSE 1
  <2>1. Weight(t, h, None) = h[n]
    BY <1>3, SidesFacts DEF Even
  <2>2. Weight(t, h, None) = 0
    BY DEF Weight
  <2> QED
    BY <1>1, <2>1, <2>2 DEF Weight, IsRed, Black
<1>7. ASSUME c # None
      PROVE  /\ c \in E /\ c \in D /\ ~ IsRed(t, n) /\ ~ IsRed(u, c) /\ Weight(u, h2, c) = 1
             /\ Parent(t, c) = n /\ c # t.root
  <2>1. c \in D /\ c # n /\ Parent(t, c) = n /\ c # t.root
    BY <1>1, <1>7, ChildFacts
  <2>2. Weight(t, h, c) = 0
    BY <1>3, <1>6 DEF Even
  <2>3. IsRed(t, c) /\ h[c] = 0
    <3>1. h[c] \in Nat
      BY <1>2, <1>5, <2>1
    <3> QED
      BY <1>7, <2>2, <3>1 DEF Weight, IsRed, Black
  <2>4. ~ IsRed(t, n)
    BY <1>3, <2>3 DEF RedApart
  <2>5. Black(t, n)
    BY <1>1, <2>4 DEF IsRed, Black
  <2>6. c \in E /\ Black(u, c) /\ h2[c] = 0
    BY <1>2, <1>4, <1>5, <2>1, <2>3, <2>5
  <2> QED
    BY <1>7, <2>1, <2>4, <2>6 DEF Weight, IsRed, Black
<1>8. ~ IsRed(u, None) /\ Weight(u, h2, None) = 0 /\ ~ IsRed(t, None) /\ Weight(t, h, None) = 0
  BY DEF IsRed, Weight
<1>9. \A d \in D : d # n /\ d # c =>
        /\ IsRed(u, d) <=> IsRed(t, d)
        /\ Weight(u, h2, d) = Weight(t, h, d)
  <2>1. SUFFICES ASSUME NEW d \in D, d # n, d # c
                 PROVE  /\ IsRed(u, d) <=> IsRed(t, d)
                        /\ Weight(u, h2, d) = Weight(t, h, d)
    OBVIOUS
  <2>2. d # None /\ Black(u, d) = Black(t, d) /\ h2[d] = h[d]
    BY <1>1, <1>2, <1>4, <1>5, <2>1
  <2> QED
    BY <2>2 DEF IsRed, Black, Weight
<1>10. ~ IsRed(u, c)
  BY <1>7, <1>8
<1>11. ASSUME NEW m \in E, NEW q \in Sides, Child(t, m, q) # n
       PROVE  Even(u, h2, m, q) /\ RedApart(u, m, q)
  <2>1. PICK d \in D \cup {None} : d = Child(t, m, q)
    BY <1>1, <1>2, Fields
  <2>2. Child(u, m, q) = d /\ m \in D /\ m # n /\ m # None
    BY <1>1, <1>2, <1>4, <1>11, <2>1
  <2>3. Weight(t, h, d) = h[m] /\ ~ (IsRed(t, m) /\ IsRed(t, d))
    BY <1>3, <2>1, <2>2 DEF Even, RedApart
  <2>4. (IsRed(u, d) <=> IsRed(t, d)) /\ Weight(u, h2, d) = Weight(t, h, d)
    <3>1. CASE d = None
      BY <1>8, <3>1
    <3>2. CASE d # None
      <4>1. d # c
        <5>1. Parent(t, d) = m
          BY <1>1, <2>1, <2>2, <3>2, ChildFacts
        <5> QED
          BY <1>7, <2>2, <3>2, <5>1
      <4>2. d \in D /\ d # n
        BY <1>11, <2>1, <3>2
      <4> QED
        BY <1>9, <4>1, <4>2
    <3> QED
      BY <3>1, <3>2
  <2>5. ~ (IsRed(u, m) /\ IsRed(u, d))
    <3>1. CASE m = c
      BY <1>10, <3>1
    <3>2. CASE m # c
      BY <1>9, <2>2, <2>3, <2>4, <3>2
    <3> QED
      BY <3>1, <3>2
  <2>6. Weight(u, h2, d) = h2[m]
    BY <1>5, <2>3, <2>4
  <2> QED
    BY <2>2, <2>5, <2>6 DEF Even, RedApart
<1>12. ASSUME NEW m \in E, NEW q \in Sides, Child(t, m, q) = n
       PROVE  /\ RedApart(u, m, q)
              /\ c # None \/ IsRed(t, n) => Even(u, h2, m, q)
              /\ h2[m] = Weight(t, h, n) /\ Child(u, m, q) = c
  <2>1. Child(u, m, q) = c /\ m \in D
    BY <1>2, <1>4, <1>12
  <2>2. h2[m] = Weight(t, h, n)
    BY <1>3, <1>5, <1>12, <2>1 DEF Even
  <2>3. ASSUME c # None \/ IsRed(t, n) PROVE Weight(u, h2, c) = h2[m]
    <3>1. CASE c # None
      BY <1>6, <1>7, <2>2, <3>1
    <3>2. CASE c = None
      BY <1>6, <1>8, <2>2, <2>3, <3>2
    <3> QED
      BY <3>1, <3>2
  <2> QED
    BY <1>10, <2>1, <2>2, <2>3 DEF Even, RedApart
<1>13. /\ p = None <=> n = t.root
       /\ p # None => p \in E /\ p \in D /\ \E e \in Sides : Child(t, p, e) = n
  BY <1>1, <1>2, ParentFacts
<1>14. ~ IsRed(u, u.root)
  <2>1. CASE p = None
    BY <1>4, <1>10, <2>1
  <2>2. CASE p # None
    <3>1. u.root = t.root /\ t.root # n /\ t.root \in D \cup {None}
      BY <1>1, <1>4, <1>13, <2>2, Fields
    <3>2. CASE t.root = None
      BY <1>8, <3>1, <3>2
    <3>3. CASE t.root # None
      <4>1. t.root # c
        BY <1>7, <3>3
      <4>2. t.root \in D
        BY <3>1, <3>3
      <4> QED
        BY <1>3, <1>9, <3>1, <4>1, <4>2
    <3> QED
      BY <3>2, <3>3
  <2> QED
    BY <2>1, <2>2
<1>15. ASSUME c # None \/ IsRed(t, n) \/ p = None PROVE Calm(u, h2)
  <2>1. SUFFICES ASSUME NEW m \in E, NEW q \in Sides PROVE Even(u, h2, m, q) /\ RedApart(u, m, q)
    BY <1>4, <1>14 DEF Calm
  <2>2. CASE Child(t, m, q) # n
    BY <1>11, <2>2
  <2>3. CASE Child(t, m, q) = n
    <3>1. p = m /\ m # None
      BY <1>1, <1>2, <2>3, ChildFacts
    <3> QED
      BY <1>12, <1>15, <2>3, <3>1
  <2> QED
    BY <2>2, <2>3
<1>16. ASSUME c = None, ~ IsRed(t, n), p # None
       PROVE  p \in E /\ \E o \in Sides : Lacking(u, h2, None, p, o)
  <2>1. PICK o \in Sides : Child(t, p, o) = n
    BY <1>13, <1>16
  <2>2. p \in E /\ p \in D
    BY <1>13, <1>16
  <2>3. Child(u, p, o) = None /\ h2[p] = 1
    <3>1. Child(u, p, o) = c /\ h2[p] = Weight(t, h, n)
      BY <1>12, <2>1, <2>2
    <3> QED
      BY <1>6, <1>16, <3>1
  <2>4. ASSUME NEW m \in E, NEW q \in Sides
        PROVE  ((m # p \/ q # o) => Even(u, h2, m, q)) /\ RedApart(u, m, q)
    <3>1. CASE Child(t, m, q) # n
      BY <1>11, <3>1
    <3>2. CASE Child(t, m, q) = n
      <4>1. p = m
        BY <1>1, <1>2, <3>2, ChildFacts
      <4>2. q = o
        <5>1. Child(t, m, o) = n /\ m \in D
          BY <1>2, <2>1, <4>1
        <5>2. Child(t, m, Opposite(o)) # n
          BY <1>1, <5>1, ChildFacts
        <5> QED
          BY <3>2, <5>2, SidesFacts
      <4>3. RedApart(u, m, q)
        BY <1>12, <3>2
      <4> QED
        BY <4>1, <4>2, <4>3
    <3> QED
      BY <3>1, <3>2
  <2>5. Lacking(u, h2, None, p, o)
    <3>1. Weight(u, h2, None) + 1 = h2[p]
      BY <1>8, <2>3
    <3> QED
      BY <1>4, <1>8, <1>14, <2>2, <2>3, <2>4, <3>1 DEF Lacking
  <2> QED
    BY <2>2, <2>5
<1> QED
  BY <1>2, <1>5, <1>15, <1>16 DEF Robbed

(* The tree has lost n, and at p, if it is a node, a black one with it. *)
TakenOut(D, rank, len, n, u, p) ==
  \E rank2, edge2 : \E h2 \in Heights(D \ {n}) :
    /\ rank2 = ShrunkRank(D, rank, n, rank[n])
    /\ Ordered(D \ {n}, u, rank2, edge2, len - 1)
    /\ p = None => Calm(u, h2)
    /\ p # None => Robbed(D \ {n}, u, h2, p)

(* Erase of a node with one child at most unlinks it so. *)
LEMMA UnlinkStep ==
  ASSUME NEW rank, NEW edge, Ordered(Linked, tree, rank, edge, length),
         NEW h \in Heights(Linked), Calm(tree, h),
         NEW n \in Linked, ~ HasTwoChildren(n), Unlink(n)
  PROVE  /\ TakenOut(Linked, rank, length, n, tree', parent')
         /\ Linked' = Linked \ {n} /\ length' = length - 1 /\ node' = None
         /\ parent' \in Linked \cup {None}
         /\ at' = IF parent' = None THEN "idle" ELSE "erase"
<1>1. PICK D, t, len, u, pp :
        D = Linked /\ t = tree /\ len = length /\ u = tree' /\ pp = parent'
  OBVIOUS
<1>2. /\ Ordered(D, t, rank, edge, len) /\ h \in Heights(D) /\ Calm(t, h) /\ n \in D
  BY <1>1
<1>3. None \notin D /\ t \in Trees(D) /\ len \in Nat /\ Placed(t, rank, edge, len)
      /\ rank \in Ranks(D) /\ edge \in Edges(D)
  BY <1>2 DEF Ordered
<1>4. PICK l, r, c, p :
        /\ l = Child(t, n, "left") /\ r = Child(t, n, "right")
        /\ c = (IF l = None THEN r ELSE l) /\ p = Parent(t, n)
  OBVIOUS
<1>5. l = None \/ r = None
  BY <1>1, <1>4 DEF HasTwoChildren, Sides
<1>6. \E s \in Sides : Child(t, n, Opposite(s)) = None /\ c = Child(t, n, s)
  <2>1. CASE l = None
    BY <1>4, <2>1, SidesFacts
  <2>2. CASE l # None
    BY <1>4, <1>5, <2>2, SidesFacts
  <2> QED
    BY <2>1, <2>2
<1>7. PICK s \in Sides : Child(t, n, Opposite(s)) = None /\ c = Child(t, n, s)
  BY <1>6
<1>8. PICK v, w : v = ChangeChild(t, n, c, p) /\ w = IF c # None THEN TakePlace(v, c, n) ELSE v
  OBVIOUS
<1>9. PICK x : x = Bypass(t, n)
  OBVIOUS
<1>10. x.tree = w /\ x.rebalance = IF c # None \/ IsRed(t, n) THEN None ELSE p
  <2>1. x = IF c # None THEN [tree |-> TakePlace(v, c, n), rebalance |-> None]
            ELSE [tree |-> v, rebalance |-> IF IsRed(t, n) THEN None ELSE p]
    BY <1>4, <1>8, <1>9 DEF Bypass
  <2> QED
    BY <1>8, <2>1
<1>11. /\ u = Pruned(w, D \ {n})
       /\ length' = len - 1 /\ node' = None
       /\ pp = (IF c # None \/ IsRed(t, n) THEN None ELSE p)
       /\ at' = IF pp = None THEN "idle" ELSE "erase"
  BY <1>1, <1>9, <1>10 DEF Unlink, Pruned
<1>12. Shrunk(D, t, u, n, c, p)
  BY <1>2, <1>4, <1>7, <1>8, <1>11, ShrunkBy
<1>13. PICK k, rank2, edge2, h2 :
         /\ k = rank[n] /\ rank2 = ShrunkRank(D, rank, n, k)
         /\ edge2 = ShrunkEdge(D, edge, n, k) /\ h2 = ShrunkHeight(D, h, n)
  OBVIOUS
<1>14. rank2 \in Ranks(D \ {n}) /\ edge2 \in Edges(D \ {n}) /\ Placed(u, rank2, edge2, len - 1)
  BY <1>2, <1>4, <1>7, <1>12, <1>13, ShrunkPlaced
<1>15. Numbered(D \ {n}, rank2, len - 1)
  BY <1>2, <1>13, ShrunkNumbered
<1>16. /\ h2 \in Heights(D \ {n})
       /\ c # None \/ IsRed(t, n) \/ p = None => Calm(u, h2)
       /\ c = None /\ ~ IsRed(t, n) /\ p # None => Robbed(D \ {n}, u, h2, p)
  BY <1>2, <1>4, <1>7, <1>12, <1>13, ShrunkPhase
<1>17. u \in Trees(D \ {n}) /\ None \notin D \ {n}
  BY <1>3, <1>12 DEF Shrunk
<1>18. len - 1 \in Nat
  <2>1. rank[n] \in 1 .. len
    BY <1>2, EdgeBounds
  <2> QED
    BY <1>3, <2>1
<1>19. Ordered(D \ {n}, u, rank2, edge2, len - 1)
  BY <1>14, <1>15, <1>17, <1>18 DEF Ordered
<1>20. /\ pp = None => Calm(u, h2)
       /\ pp # None => Robbed(D \ {n}, u, h2, pp)
  <2>1. CASE c # None \/ IsRed(t, n)
    BY <1>11, <1>16, <2>1
  <2>2. CASE ~ (c # None \/ IsRed(t, n))
    BY <1>11, <1>16, <2>2
  <2> QED
    BY <2>1, <2>2
<1>21. TakenOut(D, rank, len, n, u, pp)
  BY <1>13, <1>16, <1>19, <1>20 DEF TakenOut
<1>22. DOMAIN u.links = D \ {n}
  BY <1>17, Fields
<1>23. pp \in D \cup {None}
  BY <1>20 DEF Robbed
<1> QED
  BY <1>1, <1>11, <1>21, <1>22, <1>23 DEF Linked

-----------------------------------------------------------------------------
(* Erase by key: the two bounds. *)

(* The nodes of a tree are finitely many. *)
LEMMA NodesFinite ==
  ASSUME NEW D, NEW t, NEW rank, NEW edge, NEW len, Ordered(D, t, rank, edge, len)
  PROVE  IsFiniteSet(D)
<1>1. /\ rank \in [D -> Int] /\ len \in Nat
      /\ \A m \in D : rank[m] \in 1 .. len
      /\ \A m, n \in D : rank[m] = rank[n] => m = n
  BY DEF Ordered, Numbered, Ranks
<1>2. rank \in [D -> 1 .. len]
  BY <1>1
<1>3. rank \in Injection(D, 1 .. len)
  BY <1>1, <1>2 DEF Injection, IsInjective
<1>4. IsFiniteSet(1 .. len)
  BY <1>1, FS_Interval
<1> QED
  BY <1>3, <1>4, FS_Injection

(* One element at most. *)
LEMMA AtMostOne ==
  ASSUME NEW S, IsFiniteSet(S), Cardinality(S) <= 1, NEW a \in S, NEW b \in S
  PROVE  a = b
<1>1. SUFFICES ASSUME a # b PROVE FALSE
  OBVIOUS
<1>2. IsFiniteSet({a}) /\ Cardinality({a}) = 1
  BY FS_Singleton
<1>3. PICK T : T = {a} \cup {b}
  OBVIOUS
<1>4. IsFiniteSet(T) /\ Cardinality(T) = 1 + 1
  BY <1>1, <1>2, <1>3, FS_AddElement
<1>5. T \in SUBSET S
  BY <1>3
<1>6. Cardinality(T) <= Cardinality(S)
  BY <1>5, FS_Subset
<1>7. Cardinality(S) \in Nat
  BY FS_CardinalityType
<1> QED
  BY <1>4, <1>6, <1>7

(* Of a key that one node has at most, LowerBound and UpperBound differ if   *)
(* and only if it is there, and enclose that node.                           *)
LEMMA KeyRange ==
  ASSUME NEW D \in SUBSET Nodes, NEW t, NEW rank, NEW edge, NEW len,
         Ordered(D, t, rank, edge, len),
         NEW key \in Int, NEW x \in D, Key[x] <= key,
         NEW S, S = {n \in D : Key[n] = key}, Cardinality(S) <= 1,
         NEW a, a = LowerBound(t, key), NEW b, b = UpperBound(t, key), a # b
  PROVE  a \in D /\ a \in S /\ NextNode(t, a) = b
<1>1. /\ len \in Nat /\ \A m \in D : rank[m] \in 1 .. len
      /\ \A m \in D : Key[m] \in Int
  BY EdgeBounds, KeyAssumption DEF Ordered
<1>2. /\ \E k \in 0 .. len : Cuts(D, rank, Below(key), k)
      /\ \E k \in 0 .. len : Cuts(D, rank, UpTo(key), k)
  BY KeyCuts
<1>3. PICK j \in 0 .. len : Cuts(D, rank, Below(key), j)
  BY <1>2
<1>4. PICK k \in 0 .. len : Cuts(D, rank, UpTo(key), k)
  BY <1>2
<1>5. \A m \in D : (Key[m] < key <=> rank[m] <= j) /\ (~ key < Key[m] <=> rank[m] <= k)
  BY <1>3, <1>4 DEF Cuts, Below, UpTo
<1>6. k \in 1 .. len
  <2>1. rank[x] <= k /\ rank[x] \in 1 .. len
    BY <1>1, <1>5
  <2> QED
    BY <1>1, <2>1
<1>7. IsAt(D, rank, len, a, j + 1)
  BY <1>3, LowerBoundLaw
<1>8. IsAt(D, rank, len, b, k + 1)
  BY <1>4, <1>6, UpperBoundLaw
<1>9. j # k
  BY <1>7, <1>8, IsAtUnique
<1>10. \A i \in 1 .. len : \E m \in D : rank[m] = i
  BY AtFacts
<1>11. j < k
  <2>1. SUFFICES ASSUME k < j PROVE FALSE
    BY <1>1, <1>9
  <2>2. j \in 1 .. len
    BY <1>1, <2>1
  <2>3. PICK m \in D : rank[m] = j
    BY <1>10, <2>2
  <2>4. Key[m] < key /\ ~ ~ key < Key[m]
    BY <1>1, <1>5, <2>1, <2>2, <2>3
  <2> QED
    BY <1>1, <2>4
<1>12. \A m \in D : j < rank[m] /\ rank[m] <= k => m \in S
  BY <1>1, <1>5
<1>13. j + 1 \in 1 .. len
  BY <1>1, <1>11
<1>14. a \in D /\ rank[a] = j + 1
  BY <1>7, <1>13 DEF IsAt
<1>15. a \in S
  BY <1>1, <1>11, <1>12, <1>14
<1>16. k = j + 1
  <2>1. SUFFICES ASSUME j + 2 <= k PROVE FALSE
    BY <1>1, <1>11
  <2>2. j + 2 \in 1 .. len
    BY <1>1, <2>1
  <2>3. PICK m \in D : rank[m] = j + 2
    BY <1>10, <2>2
  <2>4. m \in S
    BY <1>1, <1>12, <2>1, <2>3
  <2>5. IsFiniteSet(S)
    <3>1. S \in SUBSET D /\ IsFiniteSet(D)
      BY NodesFinite
    <3> QED
      BY <3>1, FS_Subset
  <2>6. m = a
    BY <1>15, <2>4, <2>5, AtMostOne
  <2> QED
    BY <1>1, <1>14, <2>3, <2>6
<1>17. PICK c : c = Neighbour(t, a, "right")
  OBVIOUS
<1>18. IsAt(D, rank, len, c, rank[a] + Dir("right"))
  BY <1>14, <1>17, SidesFacts, NeighbourAt
<1>19. rank[a] + Dir("right") = k + 1
  BY <1>14, <1>16, SidesFacts
<1>20. c = b
  BY <1>8, <1>18, <1>19, IsAtUnique
<1> QED
  BY <1>14, <1>15, <1>17, <1>20 DEF NextNode

-----------------------------------------------------------------------------
(* The inductive invariant. *)

(* The tree has places in order, and the heights of the phase it is in. *)
Shaped ==
  \E rank, edge :
    /\ Ordered(Linked, tree, rank, edge, length)
    /\ \E height \in Heights(Linked) : Phase(height)

(* a is at the first place, b at a later one, which may be the end. *)
FromFirst(D, t, len, a, b) ==
  \E rank, edge : /\ Ordered(D, t, rank, edge, len)
                  /\ \E j \in 1 .. len : IsAt(D, rank, len, a, 1) /\ IsAt(D, rank, len, b, j + 1)

(* An erase by key has one node to erase, with one child at most, or begins  *)
(* with the first node of the tree.                                          *)
RangeOK ==
  range[1] # range[2] =>
    \/ /\ at = "idle" /\ range[1] \in Linked /\ ~ HasTwoChildren(range[1])
       /\ NextNode(tree, range[1]) = range[2]
    \/ FromFirst(Linked, tree, length, range[1], range[2])

(* It holds in every state, for some places and heights: they are not in the *)
(* code, and each action says how they move.                                  *)
Inv == TypeOK /\ RangeOK /\ Shaped

(* In the loops, node and parent are nodes of the tree. *)
LEMMA PhaseFacts ==
  ASSUME NEW rank, NEW edge, Ordered(Linked, tree, rank, edge, length),
         NEW h \in Heights(Linked), Phase(h), TypeOK
  PROVE  /\ at = "idle" => Calm(tree, h)
         /\ at = "insert" => Rising(tree, h, node, parent) /\ parent \in Linked \cup {None}
         /\ at = "erase" => \E o \in Sides : Lacking(tree, h, node, parent, o)
<1>1. at \in {"idle", "insert", "erase"}
  BY DEF TypeOK
<1>2. CASE at = "insert"
  <2>1. Rising(tree, h, node, parent)
    BY <1>2 DEF Phase
  <2>2. node \in DOMAIN tree.links /\ parent = Parent(tree, node)
    BY <2>1 DEF Rising
  <2>3. tree \in Trees(Linked)
    BY DEF TypeOK
  <2>4. parent \in Linked \cup {None}
    BY <2>2, <2>3, Fields DEF Linked
  <2> QED
    BY <1>2, <2>1, <2>4
<1>3. CASE at = "idle"
  BY <1>3 DEF Phase
<1>4. CASE at = "erase"
  BY <1>4 DEF Phase
<1> QED
  BY <1>1, <1>2, <1>3, <1>4

(* The empty tree. *)
LEMMA InitInv ==
  ASSUME Init
  PROVE  Inv
<1>1. PICK t, len : t = tree /\ len = length
  OBVIOUS
<1>2. /\ t = [root |-> None, links |-> [n \in {} |-> None]] /\ len = 0
      /\ at = "idle" /\ node = None /\ parent = None /\ range = <<None, None>>
  BY <1>1 DEF Init
<1>3. DOMAIN t.links = {} /\ t.root = None /\ Linked = {}
  BY <1>1, <1>2 DEF Linked
<1>4. t \in Trees({})
  <2>1. [n \in {} |-> None] \in
          [{} -> [parent : {} \cup {None}, black : BOOLEAN, child : [Sides -> {} \cup {None}]]]
    OBVIOUS
  <2> QED
    BY <1>2, <2>1 DEF Trees
<1>5. TypeOK
  BY <1>1, <1>2, <1>3, <1>4 DEF TypeOK
<1>6. RangeOK
  BY <1>2 DEF RangeOK
<1>7. PICK f : f = [n \in {} |-> None]
  OBVIOUS
<1>8. f \in Ranks({}) /\ f \in Edges({}) /\ f \in Heights({})
  BY <1>7 DEF Ranks, Edges, Heights
<1>9. Placed(t, f, f, len)
  BY <1>3 DEF Placed, Rooted
<1>10. Numbered({}, f, len)
  BY <1>2 DEF Numbered
<1>11. Ordered({}, t, f, f, len)
  BY <1>2, <1>4, <1>8, <1>9, <1>10 DEF Ordered
<1>12. Phase(f)
  <2>1. Calm(t, f)
    BY <1>3 DEF Calm, IsRed
  <2> QED
    BY <1>1, <1>2, <2>1 DEF Phase
<1>13. Shaped
  BY <1>1, <1>3, <1>8, <1>11, <1>12 DEF Shaped
<1> QED
  BY <1>5, <1>6, <1>13 DEF Inv

(* Insert and InsertEqual. *)
LEMMA InsertKeeps ==
  ASSUME Inv, NEW n \in Nodes, Insert(n) \/ InsertEqual(n)
  PROVE  Inv'
<1>1. at = "idle" /\ range[1] = range[2] /\ n \notin Linked
      /\ LinkNode(n, SearchPath(tree, UpTo(Key[n])))
  BY Zenon DEF Insert, InsertEqual, Idle
<1>2. TypeOK
  BY DEF Inv
<1>3. PICK rank, edge : /\ Ordered(Linked, tree, rank, edge, length)
                        /\ \E height \in Heights(Linked) : Phase(height)
  BY DEF Inv, Shaped
<1>4. PICK h \in Heights(Linked) : Phase(h)
  BY <1>3
<1>5. Calm(tree, h) /\ Linked \in SUBSET Nodes
  BY <1>1, <1>2, <1>3, <1>4, PhaseFacts DEF TypeOK
<1>6. /\ LinkedIn(Linked, rank, length, n, tree', parent')
      /\ Linked' = Linked \cup {n} /\ length' = length + 1
      /\ at' = "insert" /\ node' = n /\ parent' \in Linked \cup {None} /\ range' = range
  BY <1>1, <1>3, <1>5, LinkNodeStep
<1>7. PICK D, u, len, p : D = Linked \cup {n} /\ u = tree' /\ len = length + 1 /\ p = parent'
  OBVIOUS
<1>8. PICK k \in 0 .. length : \E rank2, edge2 : \E h2 \in Heights(D) :
        Ordered(D, u, rank2, edge2, len) /\ Rising(u, h2, n, p)
  BY <1>6, <1>7 DEF LinkedIn
<1>9. PICK rank2, edge2 : \E h2 \in Heights(D) :
        Ordered(D, u, rank2, edge2, len) /\ Rising(u, h2, n, p)
  BY <1>8
<1>10. PICK h2 \in Heights(D) : Ordered(D, u, rank2, edge2, len) /\ Rising(u, h2, n, p)
  BY <1>9
<1>11. u \in Trees(D) /\ len \in Nat
  BY <1>10 DEF Ordered
<1>12. TypeOK'
  <2>1. Linked' = D /\ tree' \in Trees(Linked') /\ length' \in Nat
    BY <1>6, <1>7, <1>11
  <2>2. D \in SUBSET Nodes /\ node' \in Nodes \cup {None} /\ parent' \in Nodes \cup {None}
    BY <1>5, <1>6, <1>7
  <2>3. range' \in (Nodes \cup {None}) \X (Nodes \cup {None})
    BY <1>2, <1>6 DEF TypeOK
  <2> QED
    BY <1>6, <2>1, <2>2, <2>3 DEF TypeOK
<1>13. RangeOK'
  <2>1. range'[1] = range'[2]
    BY <1>1, <1>6
  <2> QED
    BY <2>1 DEF RangeOK
<1>14. Shaped'
  <2>1. Linked' = D /\ length' = len /\ tree' = u /\ node' = n /\ parent' = p /\ at' = "insert"
    BY <1>6, <1>7
  <2>2. Ordered(Linked', tree', rank2, edge2, length')
    BY <1>10, <2>1
  <2>3. h2 \in Heights(Linked') /\ Rising(tree', h2, node', parent')
    BY <1>10, <2>1
  <2>4. Phase(h2)'
    BY <2>1, <2>3 DEF Phase
  <2> QED
    BY <2>2, <2>3, <2>4 DEF Shaped
<1> QED
  BY <1>12, <1>13, <1>14 DEF Inv

(* Erase of a node with one child at most, but for the range it is part of. *)
LEMMA UnlinkKeeps ==
  ASSUME Inv, NEW n \in Linked, at = "idle", ~ HasTwoChildren(n), Unlink(n),
         range' \in (Nodes \cup {None}) \X (Nodes \cup {None})
  PROVE  TypeOK' /\ Shaped'
<1>1. TypeOK
  BY DEF Inv
<1>2. PICK rank, edge : /\ Ordered(Linked, tree, rank, edge, length)
                        /\ \E height \in Heights(Linked) : Phase(height)
  BY DEF Inv, Shaped
<1>3. PICK h \in Heights(Linked) : Phase(h)
  BY <1>2
<1>4. Calm(tree, h) /\ Linked \in SUBSET Nodes
  BY <1>1, <1>2, <1>3, PhaseFacts DEF TypeOK
<1>5. /\ TakenOut(Linked, rank, length, n, tree', parent')
      /\ Linked' = Linked \ {n} /\ length' = length - 1 /\ node' = None
      /\ parent' \in Linked \cup {None}
      /\ at' = IF parent' = None THEN "idle" ELSE "erase"
  BY <1>2, <1>4, UnlinkStep
<1>6. PICK D, u, len, p : D = Linked \ {n} /\ u = tree' /\ len = length - 1 /\ p = parent'
  OBVIOUS
<1>7. \E rank2, edge2 : \E h2 \in Heights(D) :
        /\ Ordered(D, u, rank2, edge2, len)
        /\ p = None => Calm(u, h2)
        /\ p # None => Robbed(D, u, h2, p)
  BY <1>5, <1>6 DEF TakenOut
<1>8. PICK rank2, edge2 : \E h2 \in Heights(D) :
        /\ Ordered(D, u, rank2, edge2, len)
        /\ p = None => Calm(u, h2)
        /\ p # None => Robbed(D, u, h2, p)
  BY <1>7
<1>9. PICK h2 \in Heights(D) :
        /\ Ordered(D, u, rank2, edge2, len)
        /\ p = None => Calm(u, h2)
        /\ p # None => Robbed(D, u, h2, p)
  BY <1>8
<1>10. u \in Trees(D) /\ len \in Nat
  BY <1>9 DEF Ordered
<1>11. TypeOK'
  <2>1. Linked' = D /\ tree' \in Trees(Linked') /\ length' \in Nat
    BY <1>5, <1>6, <1>10
  <2>2. D \in SUBSET Nodes /\ node' \in Nodes \cup {None} /\ parent' \in Nodes \cup {None}
    BY <1>4, <1>5, <1>6
  <2>3. at' \in {"idle", "insert", "erase"}
    BY <1>5
  <2> QED
    BY <2>1, <2>2, <2>3 DEF TypeOK
<1>12. Shaped'
  <2>1. Linked' = D /\ length' = len /\ tree' = u /\ node' = None /\ parent' = p
    BY <1>5, <1>6
  <2>2. Ordered(Linked', tree', rank2, edge2, length')
    BY <1>9, <2>1
  <2>3. h2 \in Heights(Linked')
    BY <1>9, <2>1
  <2>4. Phase(h2)'
    <3>1. CASE p = None
      <4>1. at' = "idle" /\ Calm(tree', h2)
        BY <1>5, <1>9, <2>1, <3>1
      <4> QED
        BY <4>1 DEF Phase
    <3>2. CASE p # None
      <4>1. at' = "erase" /\ \E o \in Sides : Lacking(tree', h2, node', parent', o)
        BY <1>5, <1>9, <2>1, <3>2 DEF Robbed
      <4> QED
        BY <4>1 DEF Phase
    <3> QED
      BY <3>1, <3>2
  <2> QED
    BY <2>2, <2>3, <2>4 DEF Shaped
<1> QED
  BY <1>11, <1>12

(* Erase of a node. *)
LEMMA EraseNodeKeeps ==
  ASSUME Inv, ~ InnerErases, NEW n \in Nodes, EraseNode(n)
  PROVE  Inv'
<1>1. /\ at = "idle" /\ range[1] = range[2] /\ n \in Linked /\ ~ HasTwoChildren(n)
      /\ Unlink(n) /\ range' = range
  BY DEF EraseNode, Idle
<1>2. range' \in (Nodes \cup {None}) \X (Nodes \cup {None})
  BY <1>1 DEF Inv, TypeOK
<1>3. TypeOK' /\ Shaped'
  BY <1>1, <1>2, UnlinkKeeps
<1>4. RangeOK'
  <2>1. range'[1] = range'[2]
    BY <1>1
  <2> QED
    BY <2>1 DEF RangeOK
<1> QED
  BY <1>3, <1>4 DEF Inv

(* The first node has no left child, and the next one is at the second place. *)
LEMMA FirstNode ==
  ASSUME NEW D, NEW t, NEW rank, NEW edge, NEW len, Ordered(D, t, rank, edge, len),
         len # 0, NEW a, IsAt(D, rank, len, a, 1), NEW m, m = NextNode(t, a)
  PROVE  /\ a \in D /\ rank[a] = 1 /\ Child(t, a, "left") = None
         /\ IsAt(D, rank, len, m, 2)
<1>1. len \in Nat /\ None \notin D
  BY DEF Ordered
<1>2. a \in D /\ rank[a] = 1
  BY <1>1 DEF IsAt
<1>3. "left" \in Sides /\ "right" \in Sides /\ Dir("right") = 1
  BY SidesFacts
<1>4. Child(t, a, "left") = None
  <2>1. PICK c : c = Child(t, a, "left")
    OBVIOUS
  <2>2. ASSUME c # None PROVE FALSE
    <3>1. c \in D /\ edge[c]["right"] = rank[a] - 1
      BY <1>2, <1>3, <2>1, <2>2, ChildPlaces
    <3>2. rank[c] \in 1 .. len /\ edge[c]["right"] \in rank[c] .. len
      BY <3>1, EdgeBounds
    <3> QED
      BY <1>1, <1>2, <3>1, <3>2
  <2> QED
    BY <2>1, <2>2
<1>5. m = Neighbour(t, a, "right")
  BY DEF NextNode
<1>6. /\ rank[a] + 1 \in 1 .. len => m \in D /\ rank[m] = rank[a] + 1
      /\ rank[a] + 1 \notin 1 .. len => m = None
  BY <1>2, <1>3, <1>5, NeighbourLaw
<1>7. IsAt(D, rank, len, m, 2)
  BY <1>2, <1>6 DEF IsAt
<1> QED
  BY <1>2, <1>4, <1>7

(* The node that is to go has one child at most. *)
LEMMA RangeFirst ==
  ASSUME Inv, range[1] # range[2]
  PROVE  range[1] \in Linked /\ ~ HasTwoChildren(range[1])
<1>1. PICK D, t, len, a, b :
        D = Linked /\ t = tree /\ len = length /\ a = range[1] /\ b = range[2]
  OBVIOUS
<1>2. SUFFICES ASSUME FromFirst(D, t, len, a, b)
               PROVE  a \in D /\ Child(t, a, "left") = None
  BY <1>1 DEF Inv, RangeOK, HasTwoChildren
<1>3. PICK rank, edge : /\ Ordered(D, t, rank, edge, len)
                        /\ \E j \in 1 .. len : IsAt(D, rank, len, a, 1)
  BY <1>2 DEF FromFirst
<1>4. PICK m : m = NextNode(t, a)
  OBVIOUS
<1>5. len # 0
  BY <1>3
<1> QED
  BY <1>3, <1>4, <1>5, FirstNode

(* Without the first node the next one is first, unless it ends the range. *)
LEMMA FirstGoes ==
  ASSUME NEW D, NEW t, NEW rank, NEW edge, NEW len, Ordered(D, t, rank, edge, len),
         NEW j \in 1 .. len, NEW a, IsAt(D, rank, len, a, 1),
         NEW b, IsAt(D, rank, len, b, j + 1), NEW m, m = NextNode(t, a), m # b,
         NEW u, NEW p, TakenOut(D, rank, len, a, u, p),
         NEW E, E = D \ {a}, NEW len2, len2 = len - 1
  PROVE  FromFirst(E, u, len2, m, b)
<1>1. len \in Nat /\ len # 0
  BY DEF Ordered
<1>2. a \in D /\ rank[a] = 1 /\ IsAt(D, rank, len, m, 2)
  BY <1>1, FirstNode
<1>3. j # 1
  BY <1>2, IsAtUnique
<1>4. PICK rank2, edge2 : /\ rank2 = ShrunkRank(D, rank, a, rank[a])
                          /\ Ordered(E, u, rank2, edge2, len2)
  BY DEF TakenOut
<1>5. \A x \in E : rank2[x] = rank[x] - 1
  <2>1. \A x \in D : rank[x] \in 1 .. len
    BY EdgeBounds
  <2>2. \A x \in E : rank2[x] = IF rank[x] < rank[a] THEN rank[x] ELSE rank[x] - 1
    BY <1>4 DEF ShrunkRank
  <2> QED
    BY <1>2, <2>1, <2>2
<1>6. IsAt(E, rank2, len2, m, 1)
  <2>1. m \in D /\ rank[m] = 2
    BY <1>1, <1>2, <1>3 DEF IsAt
  <2>2. m \in E
    BY <1>2, <2>1
  <2>3. rank2[m] = 1 /\ 1 \in 1 .. len2
    BY <1>1, <1>3, <1>5, <2>1, <2>2
  <2> QED
    BY <2>2, <2>3 DEF IsAt
<1>7. IsAt(E, rank2, len2, b, (j - 1) + 1)
  <2>1. CASE j + 1 \in 1 .. len
    <3>1. b \in D /\ rank[b] = j + 1
      BY <2>1 DEF IsAt
    <3>2. b \in E
      BY <1>2, <3>1
    <3>3. rank2[b] = j
      BY <1>5, <3>1, <3>2
    <3> QED
      BY <1>1, <2>1, <3>2, <3>3 DEF IsAt
  <2>2. CASE j + 1 \notin 1 .. len
    <3>1. b = None
      BY <2>2 DEF IsAt
    <3>2. (j - 1) + 1 \notin 1 .. len2
      BY <1>1, <2>2
    <3> QED
      BY <3>1, <3>2 DEF IsAt
  <2> QED
    BY <2>1, <2>2
<1>8. j - 1 \in 1 .. len2
  BY <1>1, <1>3
<1> QED
  BY <1>4, <1>6, <1>7, <1>8 DEF FromFirst

(* The loop of an erase by key. *)
LEMMA EraseInRangeKeeps ==
  ASSUME Inv, EraseInRange
  PROVE  Inv'
<1>1. PICK a, b, m : a = range[1] /\ b = range[2] /\ m = NextNode(tree, a)
  OBVIOUS
<1>2. range = <<a, b>> /\ a \in Nodes \cup {None} /\ b \in Nodes \cup {None}
  BY <1>1 DEF Inv, TypeOK
<1>3. at = "idle" /\ a # b /\ Unlink(a) /\ range' = <<m, b>>
  BY <1>1, <1>2 DEF EraseInRange
<1>4. a \in Linked /\ ~ HasTwoChildren(a)
  BY <1>1, <1>3, RangeFirst
<1>5. PICK h \in Heights(Linked) : Calm(tree, h)
  BY <1>3, PhaseFacts DEF Inv, Shaped
<1>6. PICK D, t, len, u, p :
        D = Linked /\ t = tree /\ len = length /\ u = tree' /\ p = parent'
  OBVIOUS
<1>7. m # b => FromFirst(D, t, len, a, b)
  BY <1>1, <1>3, <1>6 DEF Inv, RangeOK
<1>8. ASSUME m # b PROVE FromFirst(Linked', tree', length', m, b) /\ m \in Nodes
  <2>1. PICK rank, edge : /\ Ordered(D, t, rank, edge, len)
                          /\ \E j \in 1 .. len : /\ IsAt(D, rank, len, a, 1)
                                                 /\ IsAt(D, rank, len, b, j + 1)
    BY <1>7, <1>8 DEF FromFirst
  <2>2. PICK j \in 1 .. len : IsAt(D, rank, len, a, 1) /\ IsAt(D, rank, len, b, j + 1)
    BY <2>1
  <2>3. /\ TakenOut(D, rank, len, a, u, p)
        /\ Linked' = D \ {a} /\ length' = len - 1
    BY <1>3, <1>4, <1>5, <1>6, <2>1, UnlinkStep
  <2>4. PICK E, len2 : E = D \ {a} /\ len2 = len - 1
    OBVIOUS
  <2>5. FromFirst(E, u, len2, m, b)
    BY <1>1, <1>6, <1>8, <2>1, <2>2, <2>3, <2>4, FirstGoes
  <2>6. m \in D
    <3>1. len \in Nat /\ len # 0
      BY <2>1, <2>2 DEF Ordered
    <3>2. IsAt(D, rank, len, m, 2)
      BY <1>1, <1>6, <2>1, <2>2, <3>1, FirstNode
    <3>3. j # 1
      BY <1>8, <2>1, <2>2, <3>2, IsAtUnique
    <3> QED
      BY <3>1, <3>2, <3>3 DEF IsAt
  <2>7. Linked \in SUBSET Nodes
    BY DEF Inv, TypeOK
  <2> QED
    BY <1>6, <2>3, <2>4, <2>5, <2>6, <2>7
<1>9. range' \in (Nodes \cup {None}) \X (Nodes \cup {None})
  <2>1. m \in Nodes \cup {None}
    BY <1>2, <1>8
  <2> QED
    BY <1>2, <1>3, <2>1
<1>10. TypeOK' /\ Shaped'
  BY <1>3, <1>4, <1>9, UnlinkKeeps
<1>11. RangeOK'
  BY <1>3, <1>8 DEF RangeOK
<1> QED
  BY <1>10, <1>11 DEF Inv

(* Erase by key finds one node at most, or the first ones. *)
LEMMA EraseKeyKeeps ==
  ASSUME Inv, ~ InnerErases, ~ LowErases, NEW key \in Keys, EraseKey(key)
  PROVE  Inv'
<1>1. PICK D, t, len, a, b, S :
        /\ D = Linked /\ t = tree /\ len = length
        /\ a = LowerBound(t, key) /\ b = UpperBound(t, key) /\ S = {n \in D : Key[n] = key}
  OBVIOUS
<1>2. /\ at = "idle" /\ a # None /\ range' = <<a, b>>
      /\ \E n \in D : Key[n] <= key
      /\ \/ \A n \in D : key <= Key[n]
         \/ Cardinality(S) <= 1 /\ \A n \in S : ~ HasTwoChildren(n)
      /\ UNCHANGED <<tree, length, at, node, parent>>
  BY <1>1 DEF EraseKey, Idle
<1>3. TypeOK
  BY DEF Inv
<1>4. PICK rank, edge : /\ Ordered(Linked, tree, rank, edge, length)
                        /\ \E height \in Heights(Linked) : Phase(height)
  BY DEF Inv, Shaped
<1>5. PICK h \in Heights(Linked) : Phase(h)
  BY <1>4
<1>6. Ordered(D, t, rank, edge, len) /\ D \in SUBSET Nodes
  BY <1>1, <1>3, <1>4 DEF TypeOK
<1>7. key \in Int
  BY KeyAssumption DEF Keys
<1>8. PICK x \in D : Key[x] <= key
  BY <1>2
<1>9. ASSUME Cardinality(S) <= 1, \A n \in S : ~ HasTwoChildren(n), a # b
      PROVE  a \in D /\ NextNode(t, a) = b /\ ~ HasTwoChildren(a)
  <2>1. a \in D /\ a \in S /\ NextNode(t, a) = b
    BY <1>1, <1>6, <1>7, <1>8, <1>9, KeyRange
  <2> QED
    BY <1>9, <2>1
<1>10. /\ a \in D \cup {None} /\ b \in D \cup {None}
       /\ (\A n \in D : key <= Key[n]) => FromFirst(D, t, len, a, b)
  <2>1. PICK j \in 0 .. len : Cuts(D, rank, Below(key), j)
    BY <1>6, <1>7, KeyCuts
  <2>2. PICK k \in 0 .. len : Cuts(D, rank, UpTo(key), k)
    BY <1>6, <1>7, KeyCuts
  <2>3. IsAt(D, rank, len, a, j + 1)
    BY <1>1, <1>6, <2>1, LowerBoundLaw
  <2>4. k \in 1 .. len
    <3>1. x \in UpTo(key)
      BY <1>6, <1>7, <1>8, KeyAssumption DEF UpTo
    <3>2. rank[x] <= k /\ rank[x] \in 1 .. len
      BY <1>6, <1>8, <2>2, <3>1, EdgeBounds DEF Cuts
    <3>3. len \in Nat
      BY <1>6 DEF Ordered
    <3> QED
      BY <3>2, <3>3
  <2>5. IsAt(D, rank, len, b, k + 1)
    BY <1>1, <1>6, <1>7, <2>2, <2>4, UpperBoundLaw
  <2>6. ASSUME \A n \in D : key <= Key[n] PROVE FromFirst(D, t, len, a, b)
    <3>1. \A n \in D : Key[n] \in Int /\ n \notin Below(key)
      BY <1>6, <1>7, <2>6, KeyAssumption DEF Below
    <3>2. \A n \in D : rank[n] \in 1 .. len /\ ~ (rank[n] <= j)
      BY <1>6, <2>1, <3>1, EdgeBounds DEF Cuts
    <3>3. j = 0
      <4>1. len \in Nat /\ \A i \in 1 .. len : \E n \in D : rank[n] = i
        BY <1>6 DEF Ordered, Numbered
      <4>2. ASSUME j \in 1 .. len PROVE FALSE
        <5>1. PICK n \in D : rank[n] = j
          BY <4>1, <4>2
        <5> QED
          BY <3>2, <4>2, <5>1
      <4> QED
        BY <4>1, <4>2
    <3>4. IsAt(D, rank, len, a, 1)
      BY <2>3, <3>3
    <3> QED
      BY <1>6, <2>4, <2>5, <3>4 DEF FromFirst
  <2> QED
    BY <2>3, <2>5, <2>6 DEF IsAt
<1>11. Linked' = Linked /\ TypeOK' /\ Shaped'
  <2>1. Linked' = Linked
    BY <1>2 DEF Linked
  <2>2. range' \in (Nodes \cup {None}) \X (Nodes \cup {None})
    BY <1>2, <1>6, <1>10
  <2>3. TypeOK'
    BY <1>2, <1>3, <2>1, <2>2 DEF TypeOK
  <2>4. Phase(h)'
    BY <1>2, <1>5 DEF Phase
  <2>5. Ordered(Linked', tree', rank, edge, length') /\ h \in Heights(Linked')
    BY <1>2, <1>4, <2>1
  <2>6. Shaped'
    BY <2>4, <2>5 DEF Shaped
  <2> QED
    BY <2>1, <2>3, <2>6
<1>12. RangeOK'
  <2>1. SUFFICES ASSUME a # b
                 PROVE  \/ /\ at' = "idle" /\ a \in Linked' /\ ~ HasTwoChildren(a)'
                           /\ NextNode(tree', a) = b
                        \/ FromFirst(Linked', tree', length', a, b)
    BY <1>2 DEF RangeOK
  <2>2. CASE \A n \in D : key <= Key[n]
    <3>1. FromFirst(D, t, len, a, b)
      BY <1>10, <2>2
    <3> QED
      BY <1>1, <1>2, <1>11, <3>1
  <2>3. CASE Cardinality(S) <= 1 /\ \A n \in S : ~ HasTwoChildren(n)
    <3>1. a \in D /\ NextNode(t, a) = b /\ ~ HasTwoChildren(a)
      BY <1>9, <2>1, <2>3
    <3>2. ~ HasTwoChildren(a)'
      BY <1>2, <3>1 DEF HasTwoChildren
    <3> QED
      BY <1>1, <1>2, <1>11, <3>1, <3>2
  <2> QED
    BY <1>2, <2>2, <2>3
<1> QED
  BY <1>11, <1>12 DEF Inv

(* What a step of a loop leaves, the invariant holds of. *)
LEMMA LoopKeeps ==
  ASSUME Inv, at # "idle", range' = range, length' = length,
         NEW rank, NEW edge2, Ordered(Linked, tree', rank, edge2, length),
         NEW h2 \in Heights(Linked), Phase(h2)', at' \in {"idle", "insert", "erase"},
         node' \in Linked \cup {None}, parent' \in Linked \cup {None},
         range[1] # range[2] => FromFirst(Linked, tree', length, range[1], range[2])
  PROVE  Inv'
<1>1. TypeOK
  BY DEF Inv
<1>2. tree' \in Trees(Linked)
  BY DEF Ordered
<1>3. Linked' = Linked
  <2>1. PICK D, u : D = Linked /\ u = tree'
    OBVIOUS
  <2>2. DOMAIN u.links = D
    BY <1>2, <2>1, Fields
  <2> QED
    BY <2>1, <2>2 DEF Linked
<1>4. TypeOK'
  <2>1. Linked' \in SUBSET Nodes /\ tree' \in Trees(Linked')
    BY <1>1, <1>2, <1>3 DEF TypeOK
  <2>2. length' \in Nat /\ range' \in (Nodes \cup {None}) \X (Nodes \cup {None})
    BY <1>1 DEF TypeOK
  <2>3. node' \in Nodes \cup {None} /\ parent' \in Nodes \cup {None}
    BY <1>3, <2>1
  <2> QED
    BY <2>1, <2>2, <2>3 DEF TypeOK
<1>5. RangeOK'
  BY <1>3 DEF RangeOK
<1>6. Shaped'
  <2>1. Ordered(Linked', tree', rank, edge2, length') /\ h2 \in Heights(Linked')
    BY <1>3
  <2> QED
    BY <2>1 DEF Shaped
<1> QED
  BY <1>4, <1>5, <1>6 DEF Inv

(* A step of Insert's loop: the nodes keep their places. *)
LEMMA RebalanceInsertShape ==
  ASSUME Inv, RebalanceInsert, NEW rank, NEW edge, Ordered(Linked, tree, rank, edge, length),
         NEW h \in Heights(Linked), Phase(h)
  PROVE  /\ length' = length /\ range' = range /\ at # "idle"
         /\ at' \in {"idle", "insert", "erase"}
         /\ node' \in Linked \cup {None} /\ parent' \in Linked \cup {None}
         /\ \E edge2 : /\ Ordered(Linked, tree', rank, edge2, length)
                       /\ \E h2 \in Heights(Linked) : Phase(h2)'
<1>1. length' = length /\ range' = range /\ at = "insert"
  BY DEF RebalanceInsert
<1>2. /\ None \notin Linked /\ tree \in Trees(Linked) /\ rank \in Ranks(Linked)
      /\ edge \in Edges(Linked) /\ length \in Nat
      /\ Placed(tree, rank, edge, length) /\ Numbered(Linked, rank, length)
  BY DEF Ordered
<1>3. Rising(tree, h, node, parent) /\ parent \in Linked \cup {None}
  BY <1>1, PhaseFacts DEF Inv
<1>4. \/ /\ at' = "idle" /\ node' = None /\ parent' = None
         /\ Settled(Linked, tree', rank, length)
      \/ /\ at' = "insert" /\ node' \in Linked /\ parent' \in Linked \cup {None}
         /\ RisesOn(Linked, tree', rank, length, node', parent')
  BY <1>2, <1>3, RebalanceInsertStep
<1>5. CASE at' = "idle" /\ node' = None /\ parent' = None /\ Settled(Linked, tree', rank, length)
  <2>1. PICK edge2 \in Edges(Linked), h2 \in Heights(Linked) :
          Placed(tree', rank, edge2, length) /\ Calm(tree', h2)
    BY <1>5 DEF Settled
  <2>2. tree' \in Trees(Linked)
    BY <1>5 DEF Settled
  <2>3. Ordered(Linked, tree', rank, edge2, length)
    BY <1>2, <2>1, <2>2 DEF Ordered
  <2>4. Phase(h2)'
    BY <1>5, <2>1 DEF Phase
  <2> QED
    BY <1>1, <1>5, <2>3, <2>4
<1>6. CASE /\ at' = "insert" /\ node' \in Linked /\ parent' \in Linked \cup {None}
           /\ RisesOn(Linked, tree', rank, length, node', parent')
  <2>1. PICK edge2 \in Edges(Linked), h2 \in Heights(Linked) :
          Placed(tree', rank, edge2, length) /\ Rising(tree', h2, node', parent')
    BY <1>6 DEF RisesOn
  <2>2. tree' \in Trees(Linked)
    BY <1>6 DEF RisesOn
  <2>3. Ordered(Linked, tree', rank, edge2, length)
    BY <1>2, <2>1, <2>2 DEF Ordered
  <2>4. Phase(h2)'
    BY <1>6, <2>1 DEF Phase
  <2> QED
    BY <1>1, <1>6, <2>3, <2>4
<1> QED
  BY <1>4, <1>5, <1>6

(* A step of Erase's loop, likewise. *)
LEMMA RebalanceEraseShape ==
  ASSUME Inv, RebalanceErase, NEW rank, NEW edge, Ordered(Linked, tree, rank, edge, length),
         NEW h \in Heights(Linked), Phase(h)
  PROVE  /\ length' = length /\ range' = range /\ at # "idle"
         /\ at' \in {"idle", "insert", "erase"}
         /\ node' \in Linked \cup {None} /\ parent' \in Linked \cup {None}
         /\ \E edge2 : /\ Ordered(Linked, tree', rank, edge2, length)
                       /\ \E h2 \in Heights(Linked) : Phase(h2)'
<1>1. length' = length /\ range' = range /\ at = "erase"
  BY DEF RebalanceErase
<1>2. /\ None \notin Linked /\ tree \in Trees(Linked) /\ rank \in Ranks(Linked)
      /\ edge \in Edges(Linked) /\ length \in Nat
      /\ Placed(tree, rank, edge, length) /\ Numbered(Linked, rank, length)
  BY DEF Ordered
<1>3. PICK o \in Sides : Lacking(tree, h, node, parent, o)
  BY <1>1, PhaseFacts DEF Inv
<1>4. \/ /\ at' = "idle" /\ node' = None /\ parent' = None
         /\ Settled(Linked, tree', rank, length)
      \/ /\ at' = "erase" /\ node' \in Linked /\ parent' \in Linked \cup {None}
         /\ LacksOn(Linked, tree', rank, length, node', parent')
  BY <1>2, <1>3, RebalanceEraseStep
<1>5. CASE at' = "idle" /\ node' = None /\ parent' = None /\ Settled(Linked, tree', rank, length)
  <2>1. PICK edge2 \in Edges(Linked), h2 \in Heights(Linked) :
          Placed(tree', rank, edge2, length) /\ Calm(tree', h2)
    BY <1>5 DEF Settled
  <2>2. tree' \in Trees(Linked)
    BY <1>5 DEF Settled
  <2>3. Ordered(Linked, tree', rank, edge2, length)
    BY <1>2, <2>1, <2>2 DEF Ordered
  <2>4. Phase(h2)'
    BY <1>5, <2>1 DEF Phase
  <2> QED
    BY <1>1, <1>5, <2>3, <2>4
<1>6. CASE /\ at' = "erase" /\ node' \in Linked /\ parent' \in Linked \cup {None}
           /\ LacksOn(Linked, tree', rank, length, node', parent')
  <2>1. PICK edge2 \in Edges(Linked), h2 \in Heights(Linked), o2 \in Sides :
          Placed(tree', rank, edge2, length) /\ Lacking(tree', h2, node', parent', o2)
    BY <1>6 DEF LacksOn
  <2>2. tree' \in Trees(Linked)
    BY <1>6 DEF LacksOn
  <2>3. Ordered(Linked, tree', rank, edge2, length)
    BY <1>2, <2>1, <2>2 DEF Ordered
  <2>4. Phase(h2)'
    BY <1>6, <2>1 DEF Phase
  <2> QED
    BY <1>1, <1>6, <2>3, <2>4
<1> QED
  BY <1>4, <1>5, <1>6

(* Either loop. *)
LEMMA RebalanceKeeps ==
  ASSUME Inv, RebalanceInsert \/ RebalanceErase
  PROVE  Inv'
<1>1. PICK rank, edge : /\ Ordered(Linked, tree, rank, edge, length)
                        /\ \E height \in Heights(Linked) : Phase(height)
  BY DEF Inv, Shaped
<1>2. PICK h \in Heights(Linked) : Phase(h)
  BY <1>1
<1>s. ASSUME NEW r, NEW e, Ordered(Linked, tree, r, e, length)
      PROVE  /\ length' = length /\ range' = range /\ at # "idle"
             /\ at' \in {"idle", "insert", "erase"}
             /\ node' \in Linked \cup {None} /\ parent' \in Linked \cup {None}
             /\ \E edge2 : /\ Ordered(Linked, tree', r, edge2, length)
                           /\ \E h2 \in Heights(Linked) : Phase(h2)'
  <2>1. CASE RebalanceInsert
    BY <1>s, <1>2, <2>1, RebalanceInsertShape
  <2>2. CASE RebalanceErase
    BY <1>s, <1>2, <2>2, RebalanceEraseShape
  <2> QED
    BY <2>1, <2>2
<1>3. /\ length' = length /\ range' = range /\ at # "idle"
      /\ at' \in {"idle", "insert", "erase"}
      /\ node' \in Linked \cup {None} /\ parent' \in Linked \cup {None}
      /\ \E edge2 : /\ Ordered(Linked, tree', rank, edge2, length)
                    /\ \E h2 \in Heights(Linked) : Phase(h2)'
  BY <1>1, <1>s
<1>r. ASSUME range[1] # range[2]
      PROVE  FromFirst(Linked, tree', length, range[1], range[2])
  <2>1. PICK D, t, u, len, a, b : /\ D = Linked /\ t = tree /\ u = tree' /\ len = length
                                  /\ a = range[1] /\ b = range[2]
    OBVIOUS
  <2>2. FromFirst(D, t, len, a, b)
    BY <1>3, <1>r, <2>1 DEF Inv, RangeOK
  <2>3. PICK r, e : /\ Ordered(D, t, r, e, len)
                    /\ \E j \in 1 .. len : IsAt(D, r, len, a, 1) /\ IsAt(D, r, len, b, j + 1)
    BY <2>2 DEF FromFirst
  <2>4. \E e2 : Ordered(D, u, r, e2, len)
    BY <1>s, <2>1, <2>3
  <2>5. FromFirst(D, u, len, a, b)
    BY <2>3, <2>4 DEF FromFirst
  <2> QED
    BY <2>1, <2>5
<1>4. PICK edge2 : /\ Ordered(Linked, tree', rank, edge2, length)
                   /\ \E h2 \in Heights(Linked) : Phase(h2)'
  BY <1>3
<1>5. PICK h2 \in Heights(Linked) : Phase(h2)'
  BY <1>4
<1> QED
  BY <1>3, <1>4, <1>5, <1>r, LoopKeeps

(* A step that changes nothing. *)
LEMMA StutterKeeps ==
  ASSUME Inv, UNCHANGED vars
  PROVE  Inv'
<1>1. /\ tree' = tree /\ length' = length /\ at' = at /\ node' = node /\ parent' = parent
      /\ range' = range
  BY DEF vars
<1>2. Linked' = Linked
  BY <1>1 DEF Linked
<1>3. TypeOK'
  BY <1>1, <1>2 DEF Inv, TypeOK
<1>4. RangeOK'
  <2>1. \A n : HasTwoChildren(n)' <=> HasTwoChildren(n)
    BY <1>1 DEF HasTwoChildren
  <2> QED
    BY <1>1, <1>2, <2>1 DEF Inv, RangeOK
<1>5. PICK rank, edge : /\ Ordered(Linked, tree, rank, edge, length)
                        /\ \E height \in Heights(Linked) : Phase(height)
  BY DEF Inv, Shaped
<1>6. PICK h \in Heights(Linked) : Phase(h)
  BY <1>5
<1>7. Phase(h)'
  BY <1>1, <1>6 DEF Phase
<1>8. Ordered(Linked', tree', rank, edge, length') /\ h \in Heights(Linked')
  BY <1>1, <1>2, <1>5, <1>6
<1>9. Shaped'
  BY <1>7, <1>8 DEF Shaped
<1> QED
  BY <1>3, <1>4, <1>9 DEF Inv

(* A client that erases nodes with one child at most, and keys that are not  *)
(* below all keys, never breaks the invariant.                               *)
THEOREM Invariance ==
  ASSUME ~ InnerErases, ~ LowErases
  PROVE  Spec => []Inv
<1>1. Init => Inv
  BY InitInv
<1>2. Inv /\ [Next]_vars => Inv'
  <2>1. ASSUME Inv, NEW n \in Nodes, Insert(n) \/ InsertEqual(n) PROVE Inv'
    BY <2>1, InsertKeeps
  <2>2. ASSUME Inv, NEW n \in Nodes, EraseNode(n) PROVE Inv'
    BY <2>2, EraseNodeKeeps
  <2>3. ASSUME Inv, NEW key \in Keys, EraseKey(key) PROVE Inv'
    BY <2>3, EraseKeyKeeps
  <2>4. ASSUME Inv, EraseInRange PROVE Inv'
    BY <2>4, EraseInRangeKeeps
  <2>5. ASSUME Inv, RebalanceInsert \/ RebalanceErase PROVE Inv'
    BY <2>5, RebalanceKeeps
  <2>6. ASSUME Inv, UNCHANGED vars PROVE Inv'
    BY <2>6, StutterKeeps
  <2> QED
    BY <2>1, <2>2, <2>3, <2>4, <2>5, <2>6, Zenon DEF Next
<1> QED
  BY <1>1, <1>2, PTL DEF Spec

(* Between two operations the tree is red-black. *)
THEOREM TreeBalanced ==
  ASSUME ~ InnerErases, ~ LowErases
  PROVE  Spec => []Balanced
<1>1. Inv => Balanced
  <2>1. SUFFICES ASSUME Inv PROVE Balanced
    OBVIOUS
  <2>2. PICK rank, edge : /\ Ordered(Linked, tree, rank, edge, length)
                          /\ \E height \in Heights(Linked) : Phase(height)
    BY <2>1 DEF Inv, Shaped
  <2> QED
    BY <2>2, MeasuredBalanced
<1> QED
  BY <1>1, Invariance, PTL

(* Between two operations the queries agree with the nodes in order. *)
THEOREM TreeAnswers ==
  ASSUME ~ InnerErases, ~ LowErases
  PROVE  Spec => []QueriesAgree
<1>1. Inv => QueriesAgree
  <2>1. SUFFICES ASSUME Inv PROVE QueriesAgree
    OBVIOUS
  <2>2. PICK rank, edge : Ordered(Linked, tree, rank, edge, length)
    BY <2>1 DEF Inv, Shaped
  <2>3. Linked \in SUBSET Nodes
    BY <2>1 DEF Inv, TypeOK
  <2> QED
    BY <2>2, <2>3, OrderedQueries
<1> QED
  BY <1>1, Invariance, PTL

-----------------------------------------------------------------------------
(* The tree implements the sorted list. *)

(* The nodes of E at the places from i to j have come there over d places. *)
Shifted(D, rank, E, rank2, i, j, d) ==
  \A m \in D : i <= rank[m] /\ rank[m] <= j => m \in E /\ rank2[m] = rank[m] + d

(* A part of such a list, its nodes renumbered by a constant. *)
LEMMA ListsPart ==
  ASSUME NEW D, NEW rank, NEW len \in Nat, NEW l, Lists(D, rank, l, 1, len),
         NEW E, NEW rank2, NEW i \in 1 .. len + 1, NEW j \in 0 .. len, i <= j + 1,
         NEW d \in Int, Shifted(D, rank, E, rank2, i, j, d),
         NEW a, a = SubSeq(l, i, j), NEW lo, lo = i + d, NEW hi, hi = j + d
  PROVE  Lists(E, rank2, a, lo, hi)
<1>1. l \in Seq(D) /\ Len(l) = len /\ \A k \in 1 .. len : l[k] \in D /\ rank[l[k]] = k
  BY DEF Lists
<1>2. \A k \in i .. j : l[k] \in E /\ rank2[l[k]] = k + d
  BY <1>1 DEF Shifted
<1>3. i \in Int /\ j \in Int
  OBVIOUS
<1>4. /\ a \in Seq(E) /\ Len(a) = IF i <= j THEN j - i + 1 ELSE 0
      /\ \A k \in 1 .. j - i + 1 : a[k] = l[i + k - 1]
  <2>1. \A k \in i .. j : l[k] \in E
    BY <1>2
  <2> QED
    BY <1>3, <2>1, SubSeqProperties
<1>5. Len(a) = j - i + 1
  BY <1>3, <1>4
<1>6. ASSUME NEW k \in 1 .. j - i + 1 PROVE rank2[a[k]] = lo + k - 1
  <2>1. PICK x : x = i + k - 1
    OBVIOUS
  <2>2. x \in i .. j /\ a[k] = l[x]
    BY <1>3, <1>4, <2>1
  <2>3. rank2[l[x]] = x + d
    BY <1>2, <2>2
  <2> QED
    BY <2>1, <2>2, <2>3
<1>7. hi - lo + 1 = j - i + 1
  BY <1>3
<1> QED
  BY <1>4, <1>5, <1>6, <1>7 DEF Lists

(* InsertAt puts the node at its place. *)
LEMMA ListsInserted ==
  ASSUME NEW D, NEW rank \in Ranks(D), NEW len \in Nat, NEW l, Lists(D, rank, l, 1, len),
         NEW n, n \notin D, NEW k \in 0 .. len,
         NEW rank2, rank2 = GrownRank(D, rank, n, k + 1), rank2 \in Ranks(D \cup {n})
  PROVE  Lists(D \cup {n}, rank2, InsertAt(l, k + 1, n), 1, len + 1)
<1>1. PICK E, a, b : /\ E = D \cup {n} /\ a = SubSeq(l, 1, k) /\ b = SubSeq(l, k + 1, len)
  OBVIOUS
<1>2. Len(l) = len
  BY DEF Lists
<1>3. InsertAt(l, k + 1, n) = a \o <<n>> \o b
  BY <1>1, <1>2 DEF InsertAt
<1>4. /\ \A m \in D : rank[m] \in Int
      /\ rank2[n] = k + 1 /\ n \in E /\ rank2 \in Ranks(E)
      /\ \A m \in D : m \in E /\ rank2[m] = IF rank[m] < k + 1 THEN rank[m] ELSE rank[m] + 1
  BY <1>1 DEF GrownRank, Ranks
<1>5. Lists(E, rank2, a, 1, k)
  <2>1. PICK i, j, d, lo, hi : i = 1 /\ j = k /\ d = 0 /\ lo = 1 /\ hi = k
    OBVIOUS
  <2>2. /\ i \in 1 .. len + 1 /\ j \in 0 .. len /\ i <= j + 1 /\ d \in Int
        /\ lo = i + d /\ hi = j + d
    BY <2>1
  <2>3. Shifted(D, rank, E, rank2, i, j, d)
    BY <1>4, <2>1 DEF Shifted
  <2>4. a = SubSeq(l, i, j)
    BY <1>1, <2>1
  <2>5. Lists(E, rank2, a, lo, hi)
    BY <2>2, <2>3, <2>4, ListsPart
  <2> QED
    BY <2>1, <2>5
<1>6. Lists(E, rank2, b, k + 2, len + 1)
  <2>1. PICK i, j, d, lo, hi : i = k + 1 /\ j = len /\ d = 1 /\ lo = k + 2 /\ hi = len + 1
    OBVIOUS
  <2>2. /\ i \in 1 .. len + 1 /\ j \in 0 .. len /\ i <= j + 1 /\ d \in Int
        /\ lo = i + d /\ hi = j + d
    BY <2>1
  <2>3. Shifted(D, rank, E, rank2, i, j, d)
    BY <1>4, <2>1 DEF Shifted
  <2>4. b = SubSeq(l, i, j)
    BY <1>1, <2>1
  <2>5. Lists(E, rank2, b, lo, hi)
    BY <2>2, <2>3, <2>4, ListsPart
  <2> QED
    BY <2>1, <2>5
<1>7. Lists(E, rank2, a, 1, rank2[n] - 1) /\ Lists(E, rank2, b, rank2[n] + 1, len + 1)
  <2>1. rank2[n] - 1 = k /\ rank2[n] + 1 = k + 2
    BY <1>4
  <2> QED
    BY <1>5, <1>6, <2>1
<1>8. Lists(E, rank2, a \o <<n>> \o b, 1, len + 1)
  BY <1>4, <1>7, ListsAround
<1> QED
  BY <1>1, <1>3, <1>8

(* RemoveAt takes the node away from its place. *)
LEMMA ListsRemoved ==
  ASSUME NEW D, NEW rank \in Ranks(D), NEW len \in Nat, NEW l, Lists(D, rank, l, 1, len),
         NEW n \in D, NEW k \in 1 .. len, k = rank[n],
         \A m \in D : rank[m] = k => m = n,
         NEW rank2, rank2 = ShrunkRank(D, rank, n, k)
  PROVE  Lists(D \ {n}, rank2, RemoveAt(l, k), 1, len - 1)
<1>1. PICK E, a, b : /\ E = D \ {n} /\ a = SubSeq(l, 1, k - 1) /\ b = SubSeq(l, k + 1, len)
  OBVIOUS
<1>2. Len(l) = len
  BY DEF Lists
<1>3. RemoveAt(l, k) = a \o b
  BY <1>1, <1>2 DEF RemoveAt
<1>4. /\ \A m \in D : rank[m] \in Int
      /\ \A m \in D : rank[m] # k => m \in E
      /\ \A m \in E : rank2[m] = IF rank[m] < k THEN rank[m] ELSE rank[m] - 1
  BY <1>1 DEF ShrunkRank, Ranks
<1>5. Lists(E, rank2, a, 1, k - 1)
  <2>1. PICK i, j, d, lo, hi : i = 1 /\ j = k - 1 /\ d = 0 /\ lo = 1 /\ hi = k - 1
    OBVIOUS
  <2>2. /\ i \in 1 .. len + 1 /\ j \in 0 .. len /\ i <= j + 1 /\ d \in Int
        /\ lo = i + d /\ hi = j + d
    BY <2>1
  <2>3. Shifted(D, rank, E, rank2, i, j, d)
    BY <1>4, <2>1 DEF Shifted
  <2>4. a = SubSeq(l, i, j)
    BY <1>1, <2>1
  <2>5. Lists(E, rank2, a, lo, hi)
    BY <2>2, <2>3, <2>4, ListsPart
  <2> QED
    BY <2>1, <2>5
<1>6. Lists(E, rank2, b, k, len - 1)
  <2>1. PICK i, j, d, lo, hi : i = k + 1 /\ j = len /\ d = -1 /\ lo = k /\ hi = len - 1
    OBVIOUS
  <2>2. /\ i \in 1 .. len + 1 /\ j \in 0 .. len /\ i <= j + 1 /\ d \in Int
        /\ lo = i + d /\ hi = j + d
    BY <2>1
  <2>3. Shifted(D, rank, E, rank2, i, j, d)
    BY <1>4, <2>1 DEF Shifted
  <2>4. b = SubSeq(l, i, j)
    BY <1>1, <2>1
  <2>5. Lists(E, rank2, b, lo, hi)
    BY <2>2, <2>3, <2>4, ListsPart
  <2> QED
    BY <2>1, <2>5
<1>7. PICK c : c = a \o b
  OBVIOUS
<1>8. /\ a \in Seq(E) /\ Len(a) = k - 1 /\ \A i \in 1 .. Len(a) : rank2[a[i]] = i
      /\ b \in Seq(E) /\ Len(b) = len - k /\ \A i \in 1 .. Len(b) : rank2[b[i]] = k + i - 1
  <2>1. a \in Seq(E) /\ Len(a) = k - 1 /\ \A i \in 1 .. Len(a) : rank2[a[i]] = i
    BY <1>5 DEF Lists
  <2>2. b \in Seq(E) /\ Len(b) = len - k /\ \A i \in 1 .. Len(b) : rank2[b[i]] = k + i - 1
    BY <1>6 DEF Lists
  <2> QED
    BY <2>1, <2>2
<1>9. Joined(E, a, b, c)
  BY <1>7, <1>8, JoinedBy
<1>10. /\ c \in Seq(E) /\ Len(c) = len - 1 /\ \A i \in 1 .. k - 1 : c[i] = a[i]
       /\ \A i \in 1 .. len - k : c[k - 1 + i] = b[i]
  <2>1. /\ c \in Seq(E) /\ Len(c) = Len(a) + Len(b) /\ \A i \in 1 .. Len(a) : c[i] = a[i]
        /\ \A i \in 1 .. Len(b) : c[Len(a) + i] = b[i]
    BY <1>9 DEF Joined
  <2>2. Len(c) = len - 1
    BY <1>8, <2>1
  <2>3. Len(a) = k - 1 /\ Len(b) = len - k
    BY <1>8
  <2> QED
    BY <2>1, <2>2, <2>3
<1>11. ASSUME NEW i \in 1 .. len - 1 PROVE rank2[c[i]] = i
  <2>1. CASE i <= k - 1
    BY <1>8, <1>10, <2>1
  <2>2. CASE k <= i
    <3>1. PICK x : x = i - (k - 1)
      OBVIOUS
    <3>2. x \in 1 .. len - k /\ k - 1 + x = i /\ k + x - 1 = i
      BY <2>2, <3>1
    <3>3. c[i] = b[x]
      BY <1>10, <3>2
    <3> QED
      BY <1>8, <3>2, <3>3
  <2> QED
    BY <2>1, <2>2
<1>12. Lists(E, rank2, c, 1, len - 1)
  BY <1>10, <1>11 DEF Lists
<1> QED
  BY <1>1, <1>3, <1>7, <1>12

(* The place of the first node with a greater key, or 0. *)
LeastAbove(l, n) == SelectInSeq(l, LAMBDA m : Key[n] < Key[m])

(* The first node with a greater key. *)
LEMMA LeastPlace ==
  ASSUME NEW D \in SUBSET Nodes, NEW t, NEW rank, NEW edge, NEW len,
         Ordered(D, t, rank, edge, len), NEW l, Lists(D, rank, l, 1, len),
         NEW n \in Nodes, NEW k \in 0 .. len, Cuts(D, rank, UpTo(Key[n]), k),
         NEW i, i = LeastAbove(l, n)
  PROVE  i = IF k = len THEN 0 ELSE k + 1
<1>1. PICK S : S = D \ UpTo(Key[n])
  OBVIOUS
<1>2. /\ l \in Seq(D) /\ Len(l) = len /\ len \in Nat
      /\ \A j \in 1 .. len : l[j] \in D /\ rank[l[j]] = j
  BY DEF Lists, Ordered
<1>3. \A m \in D : m \in S <=> Key[n] < Key[m]
  BY <1>1 DEF UpTo
<1>4. PICK I : I = {j \in 1 .. Len(l) : Key[n] < Key[l[j]]}
  OBVIOUS
<1>5. i = IF I # {} THEN Min(I) ELSE 0
  BY <1>4 DEF SelectInSeq, LeastAbove
<1>6. I = {j \in 1 .. Len(l) : l[j] \in S}
  BY <1>2, <1>3, <1>4
<1>7. i = FirstPlace(l, S)
  BY <1>5, <1>6 DEF FirstPlace, SelectInSeq
<1>8. \A m \in D : m \in S <=> ~ rank[m] <= k
  BY <1>1 DEF Cuts
<1>9. Behind(D, rank, S, k)
  BY <1>8 DEF Behind
<1>10. /\ k = len => i = 0
       /\ k # len /\ l[k + 1] \in S => i = k + 1
  BY <1>2, <1>7, <1>9, SelectLaw
<1>11. k # len => l[k + 1] \in S
  <2>1. SUFFICES ASSUME k # len PROVE l[k + 1] \in S
    OBVIOUS
  <2>2. k + 1 \in 1 .. len /\ ~ k + 1 <= k
    BY <1>2, <2>1
  <2>3. l[k + 1] \in D /\ rank[l[k + 1]] = k + 1
    BY <1>2, <2>2
  <2> QED
    BY <1>8, <2>2, <2>3
<1> QED
  BY <1>10, <1>11

(* Trees with the same places have the same nodes in order. *)
LEMMA SamePlaces ==
  ASSUME NEW D, NEW t, NEW u, NEW rank, NEW edge, NEW edge2, NEW len,
         Ordered(D, t, rank, edge, len), Ordered(D, u, rank, edge2, len),
         NEW a, a = InOrder(t)[t.root], NEW b, b = InOrder(u)[u.root]
  PROVE  a = b
<1>1. Lists(D, rank, a, 1, len) /\ Lists(D, rank, b, 1, len)
  BY InOrderLists
<1>2. \A m, n \in D : rank[m] = rank[n] => m = n
  BY AtFacts
<1> QED
  BY <1>1, <1>2, ListsUnique

(* Insert and InsertEqual insert into the list. *)
LEMMA InsertListed ==
  ASSUME Inv, NEW n \in Nodes, Insert(n) \/ InsertEqual(n)
  PROVE  Sorted!Insert(n)
<1>1. at = "idle" /\ n \notin Linked /\ LinkNode(n, SearchPath(tree, UpTo(Key[n])))
  BY Zenon DEF Insert, InsertEqual, Idle
<1>2. PICK rank, edge : /\ Ordered(Linked, tree, rank, edge, length)
                        /\ \E height \in Heights(Linked) : Phase(height)
  BY DEF Inv, Shaped
<1>3. PICK h \in Heights(Linked) : Phase(h)
  BY <1>2
<1>4. Calm(tree, h) /\ Linked \in SUBSET Nodes
  BY <1>1, <1>2, <1>3, PhaseFacts DEF Inv, TypeOK
<1>5. LinkedIn(Linked, rank, length, n, tree', parent')
  BY <1>1, <1>2, <1>4, LinkNodeStep
<1>6. PICK D, t, u, len, p, a, b :
        /\ D = Linked /\ t = tree /\ u = tree' /\ len = length /\ p = parent'
        /\ a = contents /\ b = contents'
  OBVIOUS
<1>7. /\ Ordered(D, t, rank, edge, len) /\ D \in SUBSET Nodes /\ n \notin D
      /\ LinkedIn(D, rank, len, n, u, p)
      /\ a = InOrder(t)[t.root] /\ b = InOrder(u)[u.root]
  BY <1>1, <1>2, <1>4, <1>5, <1>6 DEF contents
<1>8. PICK k \in 0 .. len : \E rank2, edge2 : \E h2 \in Heights(D \cup {n}) :
        /\ Cuts(D, rank, UpTo(Key[n]), k) /\ rank2 = GrownRank(D, rank, n, k + 1)
        /\ Ordered(D \cup {n}, u, rank2, edge2, len + 1)
  BY <1>7 DEF LinkedIn
<1>9. PICK rank2, edge2 :
        /\ Cuts(D, rank, UpTo(Key[n]), k) /\ rank2 = GrownRank(D, rank, n, k + 1)
        /\ Ordered(D \cup {n}, u, rank2, edge2, len + 1)
  BY <1>8
<1>10. Lists(D, rank, a, 1, len)
  BY <1>7, InOrderLists
<1>11. Lists(D \cup {n}, rank2, b, 1, len + 1)
  <2>1. PICK E, len2 : E = D \cup {n} /\ len2 = len + 1
    OBVIOUS
  <2>2. Ordered(E, u, rank2, edge2, len2)
    BY <1>9, <2>1
  <2> QED
    BY <1>7, <2>1, <2>2, InOrderLists
<1>12. /\ len \in Nat /\ rank \in Ranks(D) /\ rank2 \in Ranks(D \cup {n})
       /\ \A x, y \in D \cup {n} : rank2[x] = rank2[y] => x = y
  BY <1>7, <1>9 DEF Ordered, Numbered
<1>13. Lists(D \cup {n}, rank2, InsertAt(a, k + 1, n), 1, len + 1)
  BY <1>7, <1>9, <1>10, <1>12, ListsInserted
<1>14. b = InsertAt(a, k + 1, n)
  BY <1>11, <1>12, <1>13, ListsUnique
<1>15. PICK i : i = LeastAbove(a, n)
  OBVIOUS
<1>16. i = IF k = len THEN 0 ELSE k + 1
  BY <1>7, <1>9, <1>10, <1>15, LeastPlace
<1>17. a \in Seq(D) /\ Len(a) = len
  BY <1>10, <1>12 DEF Lists
<1>18. (IF i = 0 THEN Len(a) + 1 ELSE i) = k + 1
  BY <1>12, <1>16, <1>17
<1>19. ~ Contains(a, n)
  BY <1>7, <1>17 DEF Contains
<1>20. i = Sorted!SelectInSeq(a, LAMBDA m : Key[n] < Key[m])
  BY <1>15 DEF LeastAbove, SelectInSeq, Sorted!SelectInSeq, Min, Sorted!Min
<1>21. ~ Sorted!Contains(a, n)
  BY <1>19 DEF Contains, Sorted!Contains
<1>22. b = Sorted!InsertAt(a, k + 1, n)
  BY <1>14 DEF InsertAt, Sorted!InsertAt
<1> QED
  BY <1>6, <1>18, <1>20, <1>21, <1>22 DEF Sorted!Insert

(* Unlinking a node erases it from the list. *)
LEMMA UnlinkListed ==
  ASSUME Inv, NEW n \in Linked, at = "idle", ~ HasTwoChildren(n), Unlink(n)
  PROVE  Sorted!Erase(n)
<1>1. PICK rank, edge : /\ Ordered(Linked, tree, rank, edge, length)
                        /\ \E height \in Heights(Linked) : Phase(height)
  BY DEF Inv, Shaped
<1>2. PICK h \in Heights(Linked) : Phase(h)
  BY <1>1
<1>3. Calm(tree, h)
  BY <1>1, <1>2, PhaseFacts DEF Inv
<1>4. TakenOut(Linked, rank, length, n, tree', parent')
  BY <1>1, <1>3, UnlinkStep
<1>5. PICK D, t, u, len, p, a, b, k :
        /\ D = Linked /\ t = tree /\ u = tree' /\ len = length /\ p = parent'
        /\ a = contents /\ b = contents' /\ k = rank[n]
  OBVIOUS
<1>6. /\ Ordered(D, t, rank, edge, len) /\ n \in D /\ TakenOut(D, rank, len, n, u, p)
      /\ a = InOrder(t)[t.root] /\ b = InOrder(u)[u.root]
  BY <1>1, <1>4, <1>5 DEF contents
<1>7. \E rank2, edge2 : /\ rank2 = ShrunkRank(D, rank, n, k)
                        /\ Ordered(D \ {n}, u, rank2, edge2, len - 1)
  BY <1>5, <1>6 DEF TakenOut
<1>8. PICK rank2, edge2 : /\ rank2 = ShrunkRank(D, rank, n, k)
                          /\ Ordered(D \ {n}, u, rank2, edge2, len - 1)
  BY <1>7
<1>9. Lists(D, rank, a, 1, len)
  BY <1>6, InOrderLists
<1>10. Lists(D \ {n}, rank2, b, 1, len - 1)
  <2>1. PICK E, len2 : E = D \ {n} /\ len2 = len - 1
    OBVIOUS
  <2>2. Ordered(E, u, rank2, edge2, len2)
    BY <1>8, <2>1
  <2> QED
    BY <1>6, <2>1, <2>2, InOrderLists
<1>11. /\ len \in Nat /\ rank \in Ranks(D) /\ k \in 1 .. len
       /\ \A x, y \in D : rank[x] = rank[y] => x = y
       /\ \A x, y \in D \ {n} : rank2[x] = rank2[y] => x = y
  BY <1>5, <1>6, <1>8 DEF Ordered, Numbered
<1>12. Lists(D \ {n}, rank2, RemoveAt(a, k), 1, len - 1)
  <2>1. \A m \in D : rank[m] = k => m = n
    BY <1>5, <1>6, <1>11
  <2> QED
    BY <1>5, <1>6, <1>8, <1>9, <1>11, <2>1, ListsRemoved
<1>13. b = RemoveAt(a, k)
  BY <1>10, <1>11, <1>12, ListsUnique
<1>14. a \in Seq(D) /\ Len(a) = len /\ rank[a[k]] = k /\ a[k] \in D
  BY <1>9, <1>11 DEF Lists
<1>15. k \in DOMAIN a /\ a[k] = n
  BY <1>5, <1>6, <1>11, <1>14
<1> QED
  BY <1>5, <1>13, <1>15 DEF Sorted!Erase, Sorted!RemoveAt, RemoveAt

(* The loops, and what leaves the tree alone, leave the list alone. *)
LEMMA ListKept ==
  ASSUME Inv, RebalanceInsert \/ RebalanceErase \/ UNCHANGED tree
  PROVE  contents' = contents
<1>1. CASE UNCHANGED tree
  BY <1>1 DEF contents
<1>2. CASE RebalanceInsert \/ RebalanceErase
  <2>1. PICK rank, edge : /\ Ordered(Linked, tree, rank, edge, length)
                          /\ \E height \in Heights(Linked) : Phase(height)
    BY DEF Inv, Shaped
  <2>2. PICK h \in Heights(Linked) : Phase(h)
    BY <2>1
  <2>3. \E edge2 : Ordered(Linked, tree', rank, edge2, length)
    <3>1. CASE RebalanceInsert
      BY <2>1, <2>2, <3>1, RebalanceInsertShape
    <3>2. CASE RebalanceErase
      BY <2>1, <2>2, <3>2, RebalanceEraseShape
    <3> QED
      BY <1>2, <3>1, <3>2
  <2>4. PICK edge2 : Ordered(Linked, tree', rank, edge2, length)
    BY <2>3
  <2>5. PICK D, t, u, len, a, b :
          /\ D = Linked /\ t = tree /\ u = tree' /\ len = length
          /\ a = contents /\ b = contents'
    OBVIOUS
  <2>6. /\ Ordered(D, t, rank, edge, len) /\ Ordered(D, u, rank, edge2, len)
        /\ a = InOrder(t)[t.root] /\ b = InOrder(u)[u.root]
    BY <2>1, <2>4, <2>5 DEF contents
  <2>7. a = b
    BY <2>6, SamePlaces
  <2> QED
    BY <2>5, <2>7
<1> QED
  BY <1>1, <1>2

(* The tree implements the sorted list of its nodes. *)
THEOREM TreeImplementsList ==
  ASSUME ~ InnerErases, ~ LowErases
  PROVE  Spec => ImplementsSortedNodes
<1>1. Init => Sorted!Init
  <2>1. SUFFICES ASSUME Init PROVE contents = <<>>
    BY DEF Sorted!Init
  <2>2. PICK t : t = tree
    OBVIOUS
  <2>3. t.root = None /\ DOMAIN t.links = {}
    BY <2>1, <2>2 DEF Init
  <2>4. Inv /\ length = 0
    BY <2>1, InitInv DEF Init
  <2>5. PICK rank, edge : Ordered(Linked, tree, rank, edge, length)
    BY <2>4 DEF Inv, Shaped
  <2>6. Lists(Linked, rank, contents, 1, length)
    BY <2>5, ContentsLaw
  <2>7. contents \in Seq(Linked) /\ Len(contents) = 0
    BY <2>4, <2>6 DEF Lists
  <2> QED
    BY <2>7
<1>2. Inv /\ [Next]_vars => [Sorted!Next]_contents
  <2>1. SUFFICES ASSUME Inv, [Next]_vars PROVE Sorted!Next \/ contents' = contents
    OBVIOUS
  <2>2. CASE \E n \in Nodes : Insert(n) \/ InsertEqual(n)
    <3>1. PICK n \in Nodes : Insert(n) \/ InsertEqual(n)
      BY <2>2
    <3>2. Sorted!Insert(n)
      BY <2>1, <3>1, InsertListed
    <3> QED
      BY <3>2 DEF Sorted!Next
  <2>3. ASSUME NEW n \in Linked, at = "idle", ~ HasTwoChildren(n), Unlink(n) PROVE Sorted!Next
    <3>1. Sorted!Erase(n)
      BY <2>1, <2>3, UnlinkListed
    <3>2. n \in Nodes
      BY <2>1 DEF Inv, TypeOK
    <3> QED
      BY <3>1, <3>2 DEF Sorted!Next
  <2>4. CASE \E n \in Nodes : EraseNode(n)
    <3>1. PICK n \in Nodes : EraseNode(n)
      BY <2>4
    <3>2. n \in Linked /\ at = "idle" /\ ~ HasTwoChildren(n) /\ Unlink(n)
      BY <3>1 DEF EraseNode, Idle
    <3> QED
      BY <2>3, <3>2
  <2>5. CASE EraseInRange
    <3>1. PICK n : n = range[1]
      OBVIOUS
    <3>2. n \in Linked /\ at = "idle" /\ ~ HasTwoChildren(n) /\ Unlink(n)
      BY <2>1, <2>5, <3>1, RangeFirst DEF EraseInRange
    <3> QED
      BY <2>3, <3>2
  <2>6. CASE RebalanceInsert \/ RebalanceErase
    BY <2>1, <2>6, ListKept
  <2>7. CASE \E key \in Keys : EraseKey(key)
    <3>1. UNCHANGED tree
      BY <2>7 DEF EraseKey
    <3> QED
      BY <2>1, <3>1, ListKept
  <2>8. CASE UNCHANGED vars
    <3>1. UNCHANGED tree
      BY <2>8 DEF vars
    <3> QED
      BY <2>1, <3>1, ListKept
  <2> QED
    BY <2>1, <2>2, <2>4, <2>5, <2>6, <2>7, <2>8, Zenon DEF Next
<1> QED
  BY <1>1, <1>2, Invariance, PTL DEF Spec, ImplementsSortedNodes, Sorted!Spec
=============================================================================
