----------------------------- MODULE EcsProofs -----------------------------
(***************************************************************************)
(* Proofs about Ecs for any number of entities, nodes, components, classes *)
(* and nested operations.                                                  *)
(*                                                                         *)
(* IInv is inductive.  It has one part for each kind of state: the shape   *)
(* of the frames and of their nesting (FramesOK), the list nodes and the   *)
(* walks over them (NodesOK), where each entity is (EntityPlaces), where   *)
(* each component is (ComponentPlaces), and how far the removals in        *)
(* progress have swept their entities (Swept).  Each part has lemmas that  *)
(* say what a step may do without disturbing it, so that the proof of an   *)
(* action is about the parts it does disturb.                              *)
(***************************************************************************)
EXTENDS Ecs, SequenceTheorems, FiniteSetTheorems, TLAPS

-----------------------------------------------------------------------------
(* Sequences and linked lists. *)

(* A set with one member at most, counted. *)
LEMMA CountAtMostOne ==
  ASSUME NEW S, \A x, y \in S : x = y
  PROVE  Cardinality(S) = IF S = {} THEN 0 ELSE 1
<1>1. CASE S = {}
  BY <1>1, FS_EmptySet
<1>2. CASE S # {}
  <2>1. PICK x : S = {x}
    BY <1>2
  <2> QED
    BY <1>2, <2>1, FS_Singleton
<1> QED
  BY <1>1, <1>2

(* A stack without its top (Front, as a frame returns).                      *)
LEMMA FrontProperties ==
  ASSUME NEW S, NEW s \in Seq(S), s # <<>>
  PROVE  /\ Len(s) \in Nat \ {0}
         /\ Last(s) \in S /\ Last(s) = s[Len(s)]
         /\ Front(s) \in Seq(S)
         /\ Len(Front(s)) = Len(s) - 1
         /\ DOMAIN Front(s) = 1 .. Len(s) - 1
         /\ \A i \in 1 .. Len(s) - 1 : Front(s)[i] = s[i]
<1>1. Len(s) \in Nat \ {0} /\ \A i \in 1 .. Len(s) : s[i] \in S
  OBVIOUS
<1>2. PICK n \in Nat : n = Len(s) - 1
  BY <1>1
<1>3. PICK f : f = SubSeq(s, 1, n)
  OBVIOUS
<1>4. /\ f \in Seq(S)
      /\ Len(f) = IF 1 <= n THEN n - 1 + 1 ELSE 0
      /\ \A i \in 1 .. n - 1 + 1 : f[i] = s[1 + i - 1]
  BY <1>1, <1>2, <1>3, SubSeqProperties
<1>5. Len(f) = n /\ DOMAIN f = 1 .. n /\ \A i \in 1 .. n : f[i] = s[i]
  BY <1>4
<1>6. Front(s) = f /\ Last(s) = s[Len(s)]
  BY <1>2, <1>3 DEF Front, Last
<1> QED
  BY <1>1, <1>2, <1>4, <1>5, <1>6

(* A function on 1 .. d is a sequence.                                       *)
LEMMA FunctionIsSeq ==
  ASSUME NEW S, NEW d \in Nat, NEW f \in [1 .. d -> S]
  PROVE  f \in Seq(S) /\ Len(f) = d /\ DOMAIN f = 1 .. d
<1>1. f \in Seq(S)
  BY SeqDef
<1> QED
  BY <1>1, LenProperties

(* The elements of a sequence, as ToSet and as Contains give them.           *)
LEMMA ToSetContains ==
  ASSUME NEW S, NEW s \in Seq(S)
  PROVE  /\ \A x : x \in ToSet(s) <=> Contains(s, x)
         /\ \A x : Contains(s, x) => x \in S
         /\ s # <<>> <=> \E x \in S : Contains(s, x)
  BY DEF ToSet, Contains

(* The rank of a place among places: how many of them come up to it. *)
Rank(places, i) == Cardinality({k \in places : k <= i})

(* Ranks grow with the places, and each rank up to their number is taken.    *)
LEMMA RankProperties ==
  ASSUME NEW len \in Nat, NEW places \in SUBSET (1 .. len)
  PROVE  /\ Cardinality(places) \in Nat
         /\ \A i \in places : Rank(places, i) \in 1 .. Cardinality(places)
         /\ \A i, j \in places : i < j => Rank(places, i) < Rank(places, j)
         /\ \A r \in 1 .. Cardinality(places) : \E i \in places : Rank(places, i) = r
<1> DEFINE upto(i) == {k \in places : k <= i}
<1>1. IsFiniteSet(places) /\ Cardinality(places) \in Nat
  <2>1. IsFiniteSet(1 .. len)
    BY FS_Interval
  <2> QED
    BY <2>1, FS_Subset, FS_CardinalityType
<1>2. \A i : IsFiniteSet(upto(i)) /\ Cardinality(upto(i)) \in Nat
             /\ Cardinality(upto(i)) <= Cardinality(places)
  BY <1>1, FS_Subset, FS_CardinalityType
<1>3. \A i \in places : Cardinality(upto(i)) # 0
  BY <1>2, FS_EmptySet
<1>4. ASSUME NEW i \in places, NEW j \in places, i < j
      PROVE  Cardinality(upto(i)) < Cardinality(upto(j))
  <2>1. upto(i) \in SUBSET upto(j) /\ j \in upto(j) /\ j \notin upto(i)
    <3>1. \A k \in places : k \in Int
      OBVIOUS
    <3>2. \A k \in places : k <= i => k <= j
      BY <1>4, <3>1
    <3>3. j <= j /\ ~ j <= i
      BY <1>4, <3>1
    <3> QED
      BY <3>2, <3>3
  <2>2. /\ Cardinality(upto(i)) <= Cardinality(upto(j))
        /\ Cardinality(upto(j)) = Cardinality(upto(i)) => upto(j) = upto(i)
    <3> HIDE DEF upto
    <3> QED
      BY <1>2, <2>1, FS_Subset
  <2> QED
    BY <1>2, <2>1, <2>2
<1>5. \A r \in 1 .. Cardinality(places) : \E i \in places : Rank(places, i) = r
  <2> DEFINE f == [i \in places |-> Cardinality(upto(i))]
             T == 1 .. Cardinality(places)
  <2>1. IsFiniteSet(T) /\ Cardinality(T) = Cardinality(places)
    BY <1>1, FS_Interval
  <2>2. f \in [places -> T]
    BY <1>1, <1>2, <1>3
  <2>3. \A i, j \in places : i # j => f[i] # f[j]
    <3>1. \A i, j \in places : i < j \/ j < i \/ i = j
      OBVIOUS
    <3>2. \A i, j \in places : i < j => f[i] # f[j]
      BY <1>2, <1>4
    <3> QED
      BY <3>1, <3>2
  <2>4. f \in Injection(places, T)
    BY <2>2, <2>3 DEF Injection, IsInjective
  <2>5. f \in Surjection(places, T)
    BY <1>1, <2>1, <2>4, FS_Injection
  <2> QED
    BY <2>5 DEF Surjection, Rank
<1> QED
  BY <1>1, <1>2, <1>3, <1>4, <1>5 DEF Rank

(* Unlinked keeps the places outside S, in their order.                      *)
LEMMA UnlinkedPlaces ==
  ASSUME NEW T, NEW l \in Seq(T), NEW S, NEW u, u = Unlinked(l, S)
  PROVE  /\ u \in Seq(T)
         /\ \E at \in [DOMAIN u -> DOMAIN l] :
              /\ \A i, j \in DOMAIN u : i < j <=> at[i] < at[j]
              /\ \A j \in DOMAIN u : l[at[j]] \notin S /\ u[j] = l[at[j]]
              /\ \A i \in DOMAIN l : l[i] \notin S => \E j \in DOMAIN u : at[j] = i
<1>1. PICK len \in Nat : len = Len(l)
  OBVIOUS
<1>2. PICK places \in SUBSET (1 .. len) : places = {i \in DOMAIN l : l[i] \notin S}
  <2>1. DOMAIN l = 1 .. len
    BY <1>1
  <2> QED
    BY <2>1
<1>3. PICK c \in Nat : c = Cardinality(places)
  BY RankProperties
<1> DEFINE Nth(r) == CHOOSE i \in places : Rank(places, i) = r
<1>4. \A r \in 1 .. c : Nth(r) \in places /\ Rank(places, Nth(r)) = r
  BY <1>3, RankProperties
<1>5. \A i, j \in places : i < j => Rank(places, i) < Rank(places, j)
  BY RankProperties
<1>6. \A i \in places : Rank(places, i) \in 1 .. c
  BY <1>3, RankProperties
<1>7. PICK at : at = [r \in 1 .. c |-> Nth(r)]
  OBVIOUS
<1>8. at \in [1 .. c -> places] /\ \A r \in 1 .. c : Rank(places, at[r]) = r
  BY <1>4, <1>7
<1>9. u = [j \in 1 .. c |-> l[at[j]]]
  BY <1>2, <1>3, <1>7 DEF Unlinked, Rank
<1> HIDE DEF Nth
<1>10. \A j \in 1 .. c : at[j] \in DOMAIN l /\ l[at[j]] \notin S
  BY <1>2, <1>8
<1>11. u \in Seq(T) /\ DOMAIN u = 1 .. c
  BY <1>9, <1>10
<1>12. \A i, j \in 1 .. c : i < j <=> at[i] < at[j]
  <2> SUFFICES ASSUME NEW i \in 1 .. c, NEW j \in 1 .. c PROVE i < j <=> at[i] < at[j]
    OBVIOUS
  <2>1. /\ at[i] \in 1 .. len /\ at[j] \in 1 .. len /\ at[i] \in places /\ at[j] \in places
        /\ Rank(places, at[i]) = i /\ Rank(places, at[j]) = j
    BY <1>8
  <2>2. at[i] < at[j] \/ at[j] < at[i] \/ at[i] = at[j]
    BY <2>1
  <2> QED
    BY <2>1, <2>2, <1>5
<1>13. \A i \in places : \E j \in 1 .. c : at[j] = i
  <2> SUFFICES ASSUME NEW i \in places PROVE \E j \in 1 .. c : at[j] = i
    OBVIOUS
  <2>1. PICK r \in 1 .. c : r = Rank(places, i)
    BY <1>6
  <2>2. at[r] \in places /\ Rank(places, at[r]) = Rank(places, i)
    BY <2>1, <1>8
  <2>3. at[r] \in 1 .. len /\ i \in 1 .. len
    BY <2>2
  <2>4. at[r] < i \/ i < at[r] \/ at[r] = i
    BY <2>3
  <2>5. ~ (at[r] < i) /\ ~ (i < at[r])
    <3>1. r \in Nat /\ ~ (r < r)
      OBVIOUS
    <3> QED
      BY <3>1, <2>1, <2>2, <1>5
  <2> QED
    BY <2>4, <2>5
<1>14. at \in [DOMAIN u -> DOMAIN l]
  BY <1>8, <1>10, <1>11
<1>15. /\ \A i, j \in DOMAIN u : i < j <=> at[i] < at[j]
       /\ \A j \in DOMAIN u : l[at[j]] \notin S /\ u[j] = l[at[j]]
       /\ \A i \in DOMAIN l : l[i] \notin S => \E j \in DOMAIN u : at[j] = i
  BY <1>2, <1>9, <1>10, <1>11, <1>12, <1>13
<1> QED
  BY <1>11, <1>14, <1>15

(* a comes before b in l. *)
Before(l, a, b) == \E i, j \in DOMAIN l : i < j /\ l[i] = a /\ l[j] = b

(* What stays linked is what is not in S, in the same order.                 *)
LEMMA UnlinkedProperties ==
  ASSUME NEW T, NEW l \in Seq(T), NEW S
  PROVE  /\ Unlinked(l, S) \in Seq(T)
         /\ \A n : Contains(Unlinked(l, S), n) <=> Contains(l, n) /\ n \notin S
         /\ IsInjective(l) => IsInjective(Unlinked(l, S))
         /\ \A a, b : Before(Unlinked(l, S), a, b) <=> Before(l, a, b) /\ a \notin S /\ b \notin S
<1>1. PICK u : u = Unlinked(l, S)
  OBVIOUS
<1>2. u \in Seq(T)
  BY <1>1, UnlinkedPlaces
<1>3. PICK at \in [DOMAIN u -> DOMAIN l] :
        /\ \A i, j \in DOMAIN u : i < j <=> at[i] < at[j]
        /\ \A j \in DOMAIN u : l[at[j]] \notin S /\ u[j] = l[at[j]]
        /\ \A i \in DOMAIN l : l[i] \notin S => \E j \in DOMAIN u : at[j] = i
  BY <1>1, UnlinkedPlaces, SMTT(30)
<1>4. DOMAIN u = 1 .. Len(u) /\ DOMAIN l = 1 .. Len(l) /\ Len(u) \in Nat /\ Len(l) \in Nat
  BY <1>2
<1>5. \A n : Contains(u, n) <=> Contains(l, n) /\ n \notin S
  <2> SUFFICES ASSUME NEW n
               PROVE  Contains(u, n) <=> Contains(l, n) /\ n \notin S
    OBVIOUS
  <2>1. ASSUME Contains(u, n) PROVE Contains(l, n) /\ n \notin S
    <3>1. PICK j \in DOMAIN u : u[j] = n
      BY <2>1, <1>4 DEF Contains
    <3>2. at[j] \in DOMAIN l /\ l[at[j]] = n /\ n \notin S
      BY <3>1, <1>3
    <3> QED
      BY <3>2, <1>4 DEF Contains
  <2>2. ASSUME Contains(l, n), n \notin S PROVE Contains(u, n)
    <3>1. PICK i \in DOMAIN l : l[i] = n
      BY <2>2, <1>4 DEF Contains
    <3>2. PICK j \in DOMAIN u : at[j] = i
      BY <3>1, <2>2, <1>3
    <3>3. u[j] = n
      BY <3>1, <3>2, <1>3
    <3> QED
      BY <3>3, <1>4 DEF Contains
  <2> QED
    BY <2>1, <2>2
<1>6. ASSUME IsInjective(l) PROVE IsInjective(u)
  <2>1. \A i, j \in DOMAIN u : u[i] = u[j] => at[i] = at[j]
    BY <1>3, <1>6 DEF IsInjective
  <2>2. \A i, j \in DOMAIN u : i < j \/ j < i \/ i = j
    BY <1>4
  <2> QED
    BY <2>1, <2>2, <1>3, <1>4 DEF IsInjective
<1>7. \A a, b : Before(u, a, b) <=> Before(l, a, b) /\ a \notin S /\ b \notin S
  BY <1>3 DEF Before
<1> QED
  BY <1>1, <1>2, <1>5, <1>6, <1>7

(* In a list without repetition, before is a strict total order.             *)
LEMMA BeforeIsOrder ==
  ASSUME NEW T, NEW l \in Seq(T), IsInjective(l)
  PROVE  /\ \A a, b : Before(l, a, b) =>
              a # b /\ ~ Before(l, b, a) /\ Contains(l, a) /\ Contains(l, b)
         /\ \A a, b : Contains(l, a) /\ Contains(l, b) =>
              a = b \/ Before(l, a, b) \/ Before(l, b, a)
         /\ \A a, b, c : Before(l, a, b) /\ Before(l, b, c) => Before(l, a, c)
<1>1. /\ DOMAIN l = 1 .. Len(l) /\ Len(l) \in Nat
      /\ \A i, j \in 1 .. Len(l) : l[i] = l[j] => i = j
  BY DEF IsInjective
<1> QED
  BY <1>1 DEF Before, Contains

(* PushBack(), under a name the provers do not take apart. *)
PushBack(l, n) == Append(l, n)

(* A node linked at the end comes after all others.                          *)
LEMMA LinkedLast ==
  ASSUME NEW T, NEW l \in Seq(T), NEW n \in T, NEW u, u = PushBack(l, n)
  PROVE  /\ u \in Seq(T)
         /\ \A a : Contains(u, a) <=> Contains(l, a) \/ a = n
         /\ IsInjective(l) /\ ~ Contains(l, n) => IsInjective(u)
         /\ \A a, b : Before(u, a, b) <=> Before(l, a, b) \/ (Contains(l, a) /\ b = n)
<1>1. PICK len \in Nat : len = Len(l)
  OBVIOUS
<1>2. /\ DOMAIN l = 1 .. len /\ u \in Seq(T) /\ DOMAIN u = 1 .. len + 1 /\ Len(u) = len + 1
      /\ u[len + 1] = n /\ \A i \in 1 .. len : u[i] = l[i]
  BY <1>1 DEF PushBack
<1>3. \A i \in 1 .. len + 1 : i \in 1 .. len \/ i = len + 1
  OBVIOUS
<1>4. \A a : Contains(u, a) <=> Contains(l, a) \/ a = n
  BY <1>1, <1>2, <1>3 DEF Contains
<1>5. IsInjective(l) /\ ~ Contains(l, n) => IsInjective(u)
  BY <1>1, <1>2, <1>3 DEF Contains, IsInjective
<1>6. \A a, b : Before(l, a, b) \/ (Contains(l, a) /\ b = n) => Before(u, a, b)
  BY <1>1, <1>2 DEF Contains, Before
<1>7. \A a, b : Before(u, a, b) => Before(l, a, b) \/ (Contains(l, a) /\ b = n)
  BY <1>1, <1>2, <1>3 DEF Contains, Before
<1> QED
  BY <1>2, <1>4, <1>5, <1>6, <1>7

(* The first node comes before all others.                                   *)
LEMMA FirstOfProperties ==
  ASSUME NEW T, NEW l \in Seq(T), IsInjective(l), NEW end, NEW m, m = FirstOf(l, end)
  PROVE  \/ m = end /\ l = <<>> /\ \A a : ~ Contains(l, a)
         \/ /\ Contains(l, m)
            /\ \A a : ~ Before(l, a, m)
            /\ \A a : Contains(l, a) => a = m \/ Before(l, m, a)
<1>1. DOMAIN l = 1 .. Len(l) /\ Len(l) \in Nat
  OBVIOUS
<1>2. CASE l = <<>>
  BY <1>2 DEF FirstOf, Contains
<1>3. CASE l # <<>>
  <2>1. Len(l) \in Nat \ {0} /\ m = l[1]
    BY <1>3 DEF FirstOf
  <2>2. Contains(l, m)
    BY <2>1 DEF Contains
  <2>3. \A a : ~ Before(l, a, m)
    BY <2>1, <1>1 DEF Before, IsInjective
  <2> QED
    BY <2>2, <2>3, BeforeIsOrder
<1> QED
  BY <1>2, <1>3

(* No node comes between a node and the next one.                            *)
LEMMA NextOfProperties ==
  ASSUME NEW T, NEW l \in Seq(T), IsInjective(l), NEW n, Contains(l, n),
         NEW end, NEW m, m = NextOf(l, n, end)
  PROVE  \/ m = end /\ \A a : Contains(l, a) => a = n \/ Before(l, a, n)
         \/ /\ Contains(l, m)
            /\ \A a : Before(l, a, m) <=> a = n \/ Before(l, a, n)
            /\ \A a : Before(l, n, a) <=> a = m \/ Before(l, m, a)
<1>1. PICK len \in Nat : len = Len(l) /\ DOMAIN l = 1 .. len
  OBVIOUS
<1>2. \A i, j \in 1 .. len : l[i] = l[j] => i = j
  BY <1>1 DEF IsInjective
<1>3. PICK place : place = CHOOSE i \in DOMAIN l : l[i] = n
  OBVIOUS
<1>4. m = IF place = Len(l) THEN end ELSE l[place + 1]
  BY <1>3 DEF NextOf
<1>5. PICK k \in 1 .. len : l[k] = n /\ m = IF k = len THEN end ELSE l[k + 1]
  <2>1. \E i \in DOMAIN l : l[i] = n
    BY <1>1 DEF Contains
  <2>2. place \in DOMAIN l /\ l[place] = n
    BY <2>1, <1>3, Zenon
  <2> QED
    BY <2>2, <1>1, <1>4
<1>6. CASE k = len
  <2>1. \A a : Contains(l, a) => a = n \/ Before(l, a, n)
    BY <1>1, <1>5, <1>6 DEF Contains, Before
  <2> QED
    BY <2>1, <1>5, <1>6
<1>7. CASE k # len
  <2>1. k + 1 \in 1 .. len /\ l[k + 1] = m /\ k \in Int
    BY <1>1, <1>5, <1>7
  <2>2. Contains(l, m)
    BY <1>1, <2>1 DEF Contains
  <2>3. \A a : Before(l, a, m) <=> a = n \/ Before(l, a, n)
    <3>1. \A i \in 1 .. len : i < k + 1 <=> i = k \/ i < k
      BY <2>1
    <3> QED
      BY <1>1, <1>2, <1>5, <2>1, <3>1 DEF Before
  <2>4. \A a : Before(l, n, a) <=> a = m \/ Before(l, m, a)
    <3>1. \A i \in 1 .. len : k < i <=> i = k + 1 \/ k + 1 < i
      BY <2>1
    <3> QED
      BY <1>1, <1>2, <1>5, <2>1, <3>1 DEF Before
  <2> QED
    BY <2>2, <2>3, <2>4
<1> QED
  BY <1>6, <1>7

-----------------------------------------------------------------------------
USE NoneAssumption, ClassAssumption, DepthAssumption

EntityNode == [entity : Entities \cup {None}, ref : Nat]

Operation ==
  [op : {"AddComponent", "RemoveComponent", "DetachComponent", "RemoveAllComponent",
         "ForeachComponent", "AddEntity", "Remove", "RemoveAllEntity", "ForeachEntity"},
   e : Entities \cup {None}, n : Nodes \cup {None}, c : Components \cup {None},
   i : Nat \ {0}, at : {"client", "scan", "announce", "delete", "visit", "leave"},
   owed : SUBSET Nodes, seen : SUBSET Nodes, late : SUBSET Components]

(* What each operation holds on to, and where it can stand.                  *)
FrameOK(f) ==
  /\ f.op \in {"AddComponent", "RemoveComponent", "DetachComponent", "ForeachComponent",
               "AddEntity"} => f.at = "client"
  /\ f.op = "RemoveAllComponent" => f.at \in {"scan", "client"}
  /\ f.op = "Remove" => f.at \in {"announce", "client", "delete"}
  /\ f.op = "RemoveAllEntity" => f.at \in {"visit", "leave"}
  /\ f.op = "ForeachEntity" => f.at \in {"visit", "client", "leave"}
  /\ f.e # None <=>
       f.op \in {"AddComponent", "RemoveAllComponent", "ForeachComponent", "Remove"}
  /\ f.n # None => f.op \in {"AddEntity", "RemoveAllEntity", "ForeachEntity"}
  /\ f.op \in {"AddEntity", "RemoveAllEntity", "ForeachEntity"} /\ f.at # "visit" => f.n # None
  /\ f.c # None <=> \/ f.op \in {"AddComponent", "RemoveComponent", "DetachComponent"}
                    \/ f.op = "RemoveAllComponent" /\ f.at = "client"
  /\ f.op # "ForeachEntity" => f.owed = {}

(* g runs inside f: client code began it, or f sweeps its entity, or f walks *)
(* on when g has removed the entity come to.                                 *)
Nested(f, g) ==
  \/ f.at \in {"client", "leave"}
  \/ f.at \in {"announce", "delete"} /\ g.op = "RemoveAllComponent" /\ g.e = f.e

(* A removal has room for its sweep, a walk that removes for a removal.      *)
RoomLeft(f, k) ==
  /\ f.op = "Remove" => k + 1 <= MaxDepth
  /\ f.op = "RemoveAllEntity" => k + 2 <= MaxDepth

FramesOK ==
  /\ stack \in Seq(Operation)
  /\ \A k \in DOMAIN stack : FrameOK(stack[k]) /\ RoomLeft(stack[k], k)
  /\ \A k \in DOMAIN stack : k # Len(stack) => Nested(stack[k], stack[k + 1])

(* A walk stands at a linked node, what it owes is attached, and what it     *)
(* still has to call comes at its place or later.                            *)
WalkOK(f) ==
  /\ f.n # None => Contains(entity_list, f.n)
  /\ \A a \in f.owed : Attached(a)
  /\ \A a \in f.owed \ f.seen :
       /\ f.n # None
       /\ Before(entity_list, f.n, a) \/ (a = f.n /\ f.at = "visit")

Counts == RefCountExact

Linked == \A n \in Nodes : node[n].ref > 0 <=> Contains(entity_list, n)

Entries == \A e \in Entities, n \in Nodes : entities[e] = n <=> node[n].entity = e

Walks == \A k \in DOMAIN stack : WalkOK(stack[k])

NodesOK == IsInjective(entity_list) /\ Counts /\ Linked /\ Entries /\ Walks

Removing(e) == \E k \in DOMAIN stack : stack[k].op = "Remove" /\ stack[k].e = e

(* An entity allocated is registered or being removed.  What was begun       *)
(* before its removal does not use it, and what was begun before a           *)
(* RemoveAllEntity uses nothing registered.                                  *)
EntityPlaces ==
  /\ \A e \in Entities : /\ e \in live <=> Registered(e) \/ Removing(e)
                         /\ ~ (Registered(e) /\ Removing(e))
  /\ \A k \in DOMAIN stack : stack[k].e # None => stack[k].e \in live
  /\ \A j, k \in DOMAIN stack : j < k /\ stack[j].e # None =>
       /\ stack[k].op = "Remove" => stack[j].e # stack[k].e
       /\ stack[k].op = "RemoveAllEntity" => ~ Registered(stack[j].e)

Placed(c) == \E e \in Entities, k \in Classes : component_list[e][k] = c

(* The operations that took component c out of its place. *)
Takers(c) == {k \in DOMAIN stack : stack[k].c = c /\ stack[k].op # "AddComponent"}

(* A component allocated is in the place of its class in one entity, or the  *)
(* client's, or in the hands of one operation.                               *)
ComponentPlaces ==
  /\ \A e \in Entities, k \in Classes, c \in Components : component_list[e][k] = c =>
       /\ class[c] = k /\ e \in live /\ c \notin owned /\ Takers(c) = {}
       /\ \A d \in Entities : component_list[d][k] = c => d = e
  /\ \A c \in Components :
       /\ class[c] # 0 <=> Placed(c) \/ c \in owned \/ Takers(c) # {}
       /\ c \in owned => Takers(c) = {}
       /\ \A j, k \in Takers(c) : j = k

(* The first place that the sweep of the removal at k has not come to. *)
Reached(k) == IF k = Len(stack) THEN ClassCount + 1 ELSE stack[k + 1].i

(* In the places swept there are only components added since, and none once *)
(* the destructor runs.                                                      *)
Swept ==
  \A k \in DOMAIN stack : stack[k].op = "Remove" =>
    \A j \in Classes : component_list[stack[k].e][j] # None =>
      /\ stack[k].at \in {"client", "delete"} => component_list[stack[k].e][j] \in stack[k].late
      /\ stack[k].at = "announce" =>
           component_list[stack[k].e][j] \in stack[k].late \/ j >= Reached(k)
      /\ stack[k].at = "delete" => j >= Reached(k)

IInv == TypeOK /\ FramesOK /\ NodesOK /\ EntityPlaces /\ ComponentPlaces /\ Swept

-----------------------------------------------------------------------------
(* What IInv says. *)

(* The holders of a node: finitely many, before and after a step.            *)
LEMMA HoldersAre ==
  ASSUME NEW n \in Nodes
  PROVE  /\ FramesOK => IsFiniteSet(Holders(n)) /\ Cardinality(Holders(n)) \in Nat
         /\ FramesOK' => IsFiniteSet(Holders(n)') /\ Cardinality(Holders(n)') \in Nat
         /\ FramesOK => \A k : k \in Holders(n) <=>
                          k \in DOMAIN stack /\ stack[k].n = n /\ stack[k].at # "visit"
         /\ FramesOK' => \A k : k \in Holders(n)' <=>
                          k \in DOMAIN stack' /\ stack'[k].n = n /\ stack'[k].at # "visit"
<1>1. ASSUME NEW d \in Nat, NEW h \in SUBSET (1 .. d)
      PROVE  IsFiniteSet(h) /\ Cardinality(h) \in Nat
  <2>1. IsFiniteSet(1 .. d)
    BY FS_Interval
  <2> QED
    BY <2>1, FS_Subset, FS_CardinalityType
<1>2. ASSUME FramesOK
      PROVE  IsFiniteSet(Holders(n)) /\ Cardinality(Holders(n)) \in Nat
  <2>1. PICK d \in Nat : DOMAIN stack = 1 .. d
    BY <1>2 DEF FramesOK
  <2>2. Holders(n) \in SUBSET (1 .. d)
    BY <2>1 DEF Holders
  <2> QED
    BY <1>1, <2>2
<1>3. ASSUME FramesOK'
      PROVE  IsFiniteSet(Holders(n)') /\ Cardinality(Holders(n)') \in Nat
  <2>1. PICK d \in Nat : DOMAIN stack' = 1 .. d
    BY <1>3 DEF FramesOK
  <2>2. PICK h : h = Holders(n)'
    OBVIOUS
  <2>3. h \in SUBSET (1 .. d)
    BY <2>1, <2>2 DEF Holders
  <2> QED
    BY <1>1, <2>2, <2>3
<1>4. ASSUME FramesOK
      PROVE  \A k : k \in Holders(n) <=>
               k \in DOMAIN stack /\ stack[k].n = n /\ stack[k].at # "visit"
  <2>1. \A k \in DOMAIN stack : FrameOK(stack[k])
    BY <1>4 DEF FramesOK
  <2>2. \A k \in DOMAIN stack :
          k \in Holders(n) <=> stack[k].n = n /\ stack[k].at # "visit"
    BY <2>1 DEF FrameOK, Holders
  <2> QED
    BY <2>2 DEF Holders
<1>5. ASSUME FramesOK'
      PROVE  \A k : k \in Holders(n)' <=>
               k \in DOMAIN stack' /\ stack'[k].n = n /\ stack'[k].at # "visit"
  <2>1. \A k \in DOMAIN stack' : FrameOK(stack'[k])
    BY <1>5 DEF FramesOK
  <2>2. \A k \in DOMAIN stack' :
          k \in Holders(n)' <=> stack'[k].n = n /\ stack'[k].at # "visit"
    BY <2>1 DEF FrameOK, Holders
  <2> QED
    BY <2>2 DEF Holders
<1> QED
  BY <1>2, <1>3, <1>4, <1>5

(* IInv implies the invariants about nodes and entities.                     *)
LEMMA IInvImpliesRegistry ==
  IInv => RefCountExact /\ NoDanglingNode /\ RegistryAgrees /\ NoEntityLost /\ NobodySkipped
<1> SUFFICES ASSUME IInv
             PROVE  /\ RefCountExact /\ NoDanglingNode /\ RegistryAgrees
                    /\ NoEntityLost /\ NobodySkipped
  OBVIOUS
<1>1. RefCountExact
  BY DEF IInv, NodesOK, Counts
<1>2. \A k \in DOMAIN stack : WalkOK(stack[k])
  BY DEF IInv, NodesOK, Walks
<1>3. NoDanglingNode
  BY <1>2 DEF NoDanglingNode, WalkOK
<1>4. RegistryAgrees
  BY DEF IInv, NodesOK, Linked, Entries, RegistryAgrees
<1>5. NobodySkipped
  BY <1>2 DEF NobodySkipped, WalkOK
<1>6. NoEntityLost
  <2>1. ASSUME NEW e \in Entities
        PROVE  Cardinality({k \in DOMAIN stack : stack[k].op = "Remove" /\ stack[k].e = e})
                 + (IF Registered(e) THEN 1 ELSE 0) = (IF e \in live THEN 1 ELSE 0)
    <3>1. PICK h : h = {k \in DOMAIN stack : stack[k].op = "Remove" /\ stack[k].e = e}
      OBVIOUS
    <3>2. DOMAIN stack \subseteq Nat
      BY DEF IInv, FramesOK
    <3>3. \A j, k \in h : j = k
      <4>1. \A j, k \in h : ~ (j < k)
        BY <3>1 DEF IInv, EntityPlaces
      <4> QED
        BY <3>1, <3>2, <4>1
    <3>4. Cardinality(h) = (IF h = {} THEN 0 ELSE 1)
      BY <3>3, CountAtMostOne
    <3>5. h # {} <=> Removing(e)
      BY <3>1 DEF Removing
    <3>6. /\ e \in live <=> Registered(e) \/ Removing(e)
          /\ ~ (Registered(e) /\ Removing(e))
      BY DEF IInv, EntityPlaces
    <3> QED
      BY <3>1, <3>4, <3>5, <3>6
  <2> QED
    BY <2>1 DEF IInv, EntityPlaces, NoEntityLost
<1> QED
  BY <1>1, <1>3, <1>4, <1>5, <1>6

(* IInv implies the invariants about components.                             *)
LEMMA IInvImpliesComponents == IInv => NoComponentLost /\ RemovalIsFinal
<1> SUFFICES ASSUME IInv PROVE NoComponentLost /\ RemovalIsFinal
  OBVIOUS
<1>1. live \subseteq Entities
  BY DEF IInv, TypeOK
<1>2. ASSUME NEW c \in Components
      PROVE  LET places == {p \in live \X Classes : component_list[p[1]][p[2]] = c}
                 takers == {k \in DOMAIN stack : stack[k].c = c /\ stack[k].op # "AddComponent"}
             IN /\ Cardinality(places) + Cardinality(takers) + (IF c \in owned THEN 1 ELSE 0)
                     = (IF class[c] # 0 THEN 1 ELSE 0)
                /\ \A p \in places : p[2] = class[c]
  <2>1. PICK p, t : /\ p = {q \in live \X Classes : component_list[q[1]][q[2]] = c}
                    /\ t = Takers(c)
    OBVIOUS
  <2>2. \A q \in p : /\ q \in live \X Classes /\ q[1] \in Entities /\ q[2] \in Classes
                     /\ q = <<q[1], q[2]>> /\ component_list[q[1]][q[2]] = c
    BY <2>1, <1>1
  <2>3. \A e \in Entities, k \in Classes : component_list[e][k] = c =>
          /\ class[c] = k /\ e \in live /\ c \notin owned /\ Takers(c) = {}
          /\ \A d \in Entities : component_list[d][k] = c => d = e
    BY DEF IInv, ComponentPlaces
  <2>4. /\ class[c] # 0 <=> Placed(c) \/ c \in owned \/ Takers(c) # {}
        /\ c \in owned => Takers(c) = {}
        /\ \A j, k \in Takers(c) : j = k
    BY DEF IInv, ComponentPlaces
  <2>5. \A q \in p : q[2] = class[c] /\ c \notin owned /\ t = {}
    BY <2>1, <2>2, <2>3
  <2>6. \A q, r \in p : q = r
    <3>1. \A q, r \in p : q[2] = r[2] /\ q[1] = r[1]
      BY <2>2, <2>3, <2>5
    <3> QED
      BY <2>2, <3>1
  <2>7. p # {} <=> Placed(c)
    <3>1. ASSUME NEW e \in Entities, NEW k \in Classes, component_list[e][k] = c
          PROVE  <<e, k>> \in p
      BY <3>1, <2>1, <2>3
    <3>2. ASSUME Placed(c)
          PROVE  p # {}
      BY <3>1, <3>2 DEF Placed
    <3>3. ASSUME NEW q \in p
          PROVE  Placed(c)
      BY <2>2 DEF Placed
    <3> QED
      BY <3>2, <3>3
  <2>8. Cardinality(p) = (IF p = {} THEN 0 ELSE 1)
    BY <2>6, CountAtMostOne
  <2>9. Cardinality(t) = (IF t = {} THEN 0 ELSE 1)
    BY <2>1, <2>4, CountAtMostOne
  <2>10. Cardinality(p) + Cardinality(t) + (IF c \in owned THEN 1 ELSE 0)
           = (IF class[c] # 0 THEN 1 ELSE 0)
    BY <2>1, <2>4, <2>5, <2>7, <2>8, <2>9
  <2> QED
    BY <2>1, <2>5, <2>10 DEF Takers
<1>3. RemovalIsFinal
  BY DEF IInv, Swept, RemovalIsFinal
<1> QED
  BY <1>2, <1>3 DEF NoComponentLost

(* What IInv says of one node. *)
LEMMA NodeFacts ==
  ASSUME IInv, NEW n \in Nodes
  PROVE  /\ node[n] \in EntityNode /\ node[n].ref \in Nat
         /\ Attached(n) => node[n].ref # 0 /\ node[n].entity \in Entities
         /\ Holders(n) # {} => node[n].ref # 0
         /\ Attached(n) /\ Holders(n) # {} => node[n].ref # 1
         /\ node[n].ref > 0 <=> Contains(entity_list, n)
<1>1. IsFiniteSet(Holders(n)) /\ Cardinality(Holders(n)) \in Nat
  BY HoldersAre DEF IInv
<1>2. Holders(n) # {} => Cardinality(Holders(n)) # 0
  BY <1>1, FS_EmptySet
<1>3. node[n].ref = Cardinality(Holders(n)) + (IF Attached(n) THEN 1 ELSE 0)
  BY DEF IInv, NodesOK, Counts, RefCountExact
<1>4. node[n] \in EntityNode /\ node[n].ref \in Nat /\ node[n].entity \in Entities \cup {None}
  BY DEF IInv, TypeOK, EntityNode
<1>5. node[n].ref > 0 <=> Contains(entity_list, n)
  BY DEF IInv, NodesOK, Linked
<1> QED
  BY <1>1, <1>2, <1>3, <1>4, <1>5 DEF Attached

(* The operations in progress, and the innermost of them.                    *)
LEMMA StackFacts ==
  ASSUME IInv
  PROVE  /\ stack \in Seq(Operation) /\ Len(stack) \in Nat /\ DOMAIN stack = 1 .. Len(stack)
         /\ \A k \in DOMAIN stack : /\ stack[k] \in Operation /\ FrameOK(stack[k])
                                    /\ WalkOK(stack[k]) /\ RoomLeft(stack[k], k)
         /\ stack # <<>> => /\ Len(stack) \in DOMAIN stack /\ Top = stack[Len(stack)]
                            /\ Top \in Operation /\ FrameOK(Top) /\ WalkOK(Top)
                            /\ RoomLeft(Top, Len(stack))
         /\ ClientRuns /\ stack # <<>> => Top.at = "client"
<1>1. stack \in Seq(Operation) /\ Len(stack) \in Nat /\ DOMAIN stack = 1 .. Len(stack)
  BY DEF IInv, FramesOK
<1>2. stack # <<>> => Top = stack[Len(stack)] /\ Len(stack) \in DOMAIN stack
  BY <1>1 DEF Top, Last
<1>3. \A k \in DOMAIN stack : stack[k] \in Operation
  BY <1>1
<1>4. \A k \in DOMAIN stack : FrameOK(stack[k]) /\ WalkOK(stack[k]) /\ RoomLeft(stack[k], k)
  BY DEF IInv, FramesOK, NodesOK, Walks
<1> QED
  BY <1>1, <1>2, <1>3, <1>4 DEF ClientRuns

-----------------------------------------------------------------------------
(* The shapes of a step: an operation begins, returns, or goes on. *)

(* Frames that differ in late only, which grows.                             *)
Alike(f, g) ==
  /\ f.op = g.op /\ f.e = g.e /\ f.n = g.n /\ f.c = g.c /\ f.i = g.i /\ f.at = g.at
  /\ f.owed = g.owed /\ f.seen = g.seen /\ g.late \subseteq f.late

Grown(f) ==
  /\ Len(stack') = Len(stack) + 1 /\ DOMAIN stack' = 1 .. Len(stack) + 1
  /\ stack'[Len(stack) + 1] = f
  /\ \A k \in DOMAIN stack : Alike(stack'[k], stack[k])

Shrunk ==
  /\ Len(stack') + 1 = Len(stack) /\ DOMAIN stack' = 1 .. Len(stack')
  /\ \A k \in DOMAIN stack' : k \in DOMAIN stack /\ k # Len(stack) /\ stack'[k] = stack[k]
  /\ \A k \in DOMAIN stack : k # Len(stack) => k \in DOMAIN stack'

Moved(f) ==
  /\ Len(stack') = Len(stack) /\ DOMAIN stack' = DOMAIN stack
  /\ stack'[Len(stack)] = f
  /\ \A k \in DOMAIN stack : k # Len(stack) => stack'[k] = stack[k]

(* A sequence of operations with one more, seen frame by frame.              *)
LEMMA Pushed ==
  ASSUME NEW s \in Seq(Operation), NEW f \in Operation, NEW u, u = PushBack(s, f)
  PROVE  /\ u \in Seq(Operation) /\ Len(s) \in Nat /\ Len(u) = Len(s) + 1
         /\ DOMAIN s = 1 .. Len(s) /\ DOMAIN u = 1 .. Len(s) + 1
         /\ u[Len(s) + 1] = f /\ \A k \in 1 .. Len(s) : u[k] = s[k]
         /\ \A k \in DOMAIN u : k \in 1 .. Len(s) \/ k = Len(s) + 1
  BY DEF PushBack

(* An operation begins in client code; b is the stack it is put on.          *)
LEMMA PushShape ==
  ASSUME IInv, ClientRuns, NEW b \in Seq(Operation), Len(b) = Len(stack),
         \A k \in DOMAIN stack : Alike(b[k], stack[k]),
         NEW f \in Operation, FrameOK(f), RoomLeft(f, Len(stack) + 1), Len(stack) < MaxDepth,
         stack' = Append(b, f)
  PROVE  FramesOK' /\ Grown(f) /\ Len(stack') <= MaxDepth
<1>1. PICK len \in Nat : len = Len(stack) /\ DOMAIN stack = 1 .. len
  BY StackFacts
<1>2. /\ stack' \in Seq(Operation) /\ Len(stack') = len + 1
      /\ DOMAIN stack' = 1 .. len + 1
      /\ stack'[len + 1] = f /\ \A k \in 1 .. len : stack'[k] = b[k]
      /\ \A k \in DOMAIN stack' : k \in 1 .. len \/ k = len + 1
  BY <1>1, Pushed DEF PushBack
<1>3. Grown(f)
  BY <1>1, <1>2 DEF Grown
<1>4. \A k \in 1 .. len : FrameOK(stack'[k]) /\ RoomLeft(stack'[k], k)
  <2>1. \A k \in 1 .. len : FrameOK(stack[k]) /\ RoomLeft(stack[k], k)
    BY <1>1, StackFacts
  <2> QED
    BY <2>1, <1>1, <1>2 DEF Alike, FrameOK, RoomLeft
<1>5. ASSUME NEW k \in DOMAIN stack', k # len + 1
      PROVE  Nested(stack'[k], stack'[k + 1])
  <2>1. k \in 1 .. len /\ Alike(stack'[k], stack[k])
    BY <1>1, <1>2, <1>5
  <2>2. CASE k = len
    <3>1. stack # <<>>
      BY <2>1, <1>1
    <3>2. stack[k].at = "client"
      BY <3>1, <2>2, <1>1, StackFacts
    <3> QED
      BY <3>2, <2>1 DEF Alike, Nested
  <2>3. CASE k # len
    <3>1. k + 1 \in 1 .. len
      BY <2>1, <2>3
    <3>2. Alike(stack'[k + 1], stack[k + 1])
      BY <3>1, <1>1, <1>2
    <3>3. Nested(stack[k], stack[k + 1])
      BY <2>1, <2>3, <1>1 DEF IInv, FramesOK
    <3> QED
      BY <2>1, <3>2, <3>3 DEF Alike, Nested
  <2> QED
    BY <2>2, <2>3
<1>6. FramesOK'
  BY <1>1, <1>2, <1>4, <1>5 DEF FramesOK
<1> QED
  BY <1>1, <1>2, <1>3, <1>6

(* The innermost operation returns. *)
LEMMA ReturnShape ==
  ASSUME IInv, stack # <<>>, Return
  PROVE  FramesOK' /\ Shrunk /\ Len(stack') <= MaxDepth
<1>1. PICK len \in Nat : len + 1 = Len(stack)
  <2>1. PICK len : len = Len(stack) - 1
    OBVIOUS
  <2>2. len \in Nat /\ len + 1 = Len(stack)
    BY <2>1, StackFacts
  <2> QED
    BY <2>2
<1>2. /\ stack' \in Seq(Operation) /\ Len(stack') = len
      /\ DOMAIN stack = 1 .. len + 1 /\ DOMAIN stack' = 1 .. len
      /\ \A k \in 1 .. len : stack'[k] = stack[k] /\ k \in DOMAIN stack /\ k # len + 1
      /\ \A k \in DOMAIN stack : k \in 1 .. len \/ k = len + 1
  <2>1. stack' = Front(stack) /\ stack \in Seq(Operation) /\ DOMAIN stack = 1 .. len + 1
    BY <1>1, StackFacts DEF Return
  <2> QED
    BY <1>1, <2>1, FrontProperties
<1>3. Shrunk
  BY <1>1, <1>2 DEF Shrunk
<1>4. \A k \in 1 .. len : FrameOK(stack[k]) /\ RoomLeft(stack[k], k)
  BY <1>2, StackFacts
<1>5. ASSUME NEW k \in 1 .. len, k # len
      PROVE  Nested(stack'[k], stack'[k + 1])
  <2>1. k + 1 \in 1 .. len
    BY <1>5
  <2>2. Nested(stack[k], stack[k + 1])
    BY <1>1, <1>2 DEF IInv, FramesOK
  <2> QED
    BY <2>1, <2>2, <1>2
<1>6. FramesOK'
  BY <1>2, <1>4, <1>5 DEF FramesOK
<1>7. Len(stack) <= MaxDepth
  BY DEF IInv, TypeOK
<1> QED
  BY <1>1, <1>2, <1>3, <1>6, <1>7

(* The innermost operation goes on. *)
LEMMA BecomeShape ==
  ASSUME IInv, stack # <<>>, NEW f \in Operation, FrameOK(f), f.op = Top.op, f.e = Top.e,
         Become(f)
  PROVE  FramesOK' /\ Moved(f) /\ Len(stack') <= MaxDepth
<1>1. PICK len \in Nat : /\ len = Len(stack) /\ DOMAIN stack = 1 .. len /\ len \in 1 .. len
                         /\ Top = stack[len] /\ stack \in Seq(Operation)
  BY StackFacts
<1>2. stack' = [stack EXCEPT ![len] = f]
  BY <1>1 DEF Become
<1>3. /\ stack' \in Seq(Operation) /\ Len(stack') = len /\ DOMAIN stack' = 1 .. len
      /\ stack'[len] = f /\ \A k \in 1 .. len : k # len => stack'[k] = stack[k]
  BY <1>1, <1>2
<1>4. Moved(f)
  BY <1>1, <1>3 DEF Moved
<1>5. \A k \in 1 .. len : FrameOK(stack'[k]) /\ RoomLeft(stack'[k], k)
  <2>1. \A k \in 1 .. len : FrameOK(stack[k]) /\ RoomLeft(stack[k], k)
    BY <1>1, StackFacts
  <2>2. RoomLeft(f, len)
    BY <2>1, <1>1 DEF RoomLeft
  <2> QED
    BY <2>1, <2>2, <1>3
<1>6. ASSUME NEW k \in 1 .. len, k # len
      PROVE  Nested(stack'[k], stack'[k + 1])
  <2>1. k + 1 \in 1 .. len
    BY <1>6
  <2>2. Nested(stack[k], stack[k + 1])
    BY <1>1, <1>6 DEF IInv, FramesOK
  <2>3. stack'[k] = stack[k] /\ stack'[k + 1].op = stack[k + 1].op /\ stack'[k + 1].e = stack[k + 1].e
    BY <2>1, <1>1, <1>3, <1>6
  <2> QED
    BY <2>2, <2>3 DEF Nested
<1>7. FramesOK'
  BY <1>3, <1>5, <1>6 DEF FramesOK
<1>8. Len(stack) <= MaxDepth
  BY DEF IInv, TypeOK
<1> QED
  BY <1>1, <1>3, <1>4, <1>7, <1>8

-----------------------------------------------------------------------------
(* What a step may do without disturbing a part of IInv. *)

(* The nodes stay as they are, and whoever holds one goes on holding it.     *)
LEMMA NodesKept ==
  ASSUME IInv, FramesOK', UNCHANGED registry,
         \A k \in DOMAIN stack' :
           \/ /\ k \in DOMAIN stack /\ stack'[k].n = stack[k].n
              /\ stack'[k].owed = stack[k].owed /\ stack'[k].seen = stack[k].seen
              /\ stack'[k].at = "visit" <=> stack[k].at = "visit"
           \/ /\ k \notin DOMAIN stack /\ WalkOK(stack'[k])
              /\ stack'[k].n = None \/ stack'[k].at = "visit",
         \A k \in DOMAIN stack : k \in DOMAIN stack' \/ stack[k].n = None \/ stack[k].at = "visit"
  PROVE  NodesOK'
<1>1. entities' = entities /\ entity_list' = entity_list /\ node' = node
  BY DEF registry
<1>2. Linked' /\ Entries' /\ IsInjective(entity_list')
  BY <1>1 DEF IInv, NodesOK, Linked, Entries
<1>3. \A n \in Nodes : Holders(n)' = Holders(n)
  <2> SUFFICES ASSUME NEW n \in Nodes PROVE Holders(n)' = Holders(n)
    OBVIOUS
  <2>1. /\ \A k : k \in Holders(n) <=>
             k \in DOMAIN stack /\ stack[k].n = n /\ stack[k].at # "visit"
        /\ \A k : k \in Holders(n)' <=>
             k \in DOMAIN stack' /\ stack'[k].n = n /\ stack'[k].at # "visit"
    BY HoldersAre DEF IInv
  <2>2. n # None
    OBVIOUS
  <2>3. \A k : k \in Holders(n)' <=> k \in Holders(n)
    BY <2>1, <2>2
  <2> QED
    BY <2>3 DEF Holders
<1>4. Counts'
  BY <1>1, <1>3 DEF IInv, NodesOK, Counts, RefCountExact, Attached
<1>5. Walks'
  <2>1. \A k \in DOMAIN stack : WalkOK(stack[k])
    BY StackFacts
  <2>2. \A k \in DOMAIN stack' : WalkOK(stack'[k])
    BY <2>1 DEF WalkOK
  <2> QED
    BY <2>2, <1>1 DEF Walks, WalkOK, Attached
<1> QED
  BY <1>2, <1>4, <1>5 DEF NodesOK

(* No entity comes or goes; an operation that begins is no removal, uses an  *)
(* entity allocated and, if it is to remove all, finds none in use.          *)
LEMMA EntitiesKept ==
  ASSUME IInv, live' = live, entities' = entities,
         \A k \in DOMAIN stack' :
           \/ k \in DOMAIN stack /\ stack'[k].op = stack[k].op /\ stack'[k].e = stack[k].e
           \/ /\ k = Len(stack) + 1 /\ stack'[k].op # "Remove"
              /\ stack'[k].e # None => stack'[k].e \in live
              /\ stack'[k].op = "RemoveAllEntity" =>
                   \A j \in DOMAIN stack : stack[j].e # None => ~ Registered(stack[j].e),
         \A k \in DOMAIN stack : stack[k].op = "Remove" => k \in DOMAIN stack'
  PROVE  EntityPlaces'
<1>1. \A e : Registered(e)' <=> Registered(e)
  BY DEF Registered
<1>2. \A e : Removing(e)' <=> Removing(e)
  BY DEF Removing
<1>3. DOMAIN stack = 1 .. Len(stack) /\ Len(stack) \in Nat
  BY StackFacts
<1>4. /\ \A e \in Entities : /\ e \in live' <=> Registered(e)' \/ Removing(e)'
                             /\ ~ (Registered(e)' /\ Removing(e)')
      /\ \A k \in DOMAIN stack' : stack'[k].e # None => stack'[k].e \in live'
  BY <1>1, <1>2 DEF IInv, EntityPlaces
<1>5. ASSUME NEW j \in DOMAIN stack', NEW k \in DOMAIN stack', j < k, stack'[j].e # None
      PROVE  /\ stack'[k].op = "Remove" => stack'[j].e # stack'[k].e
             /\ stack'[k].op = "RemoveAllEntity" => ~ Registered(stack'[j].e)
  <2>1. j \in DOMAIN stack /\ stack'[j].e = stack[j].e
    BY <1>3, <1>5
  <2>2. CASE k \in DOMAIN stack
    <3>1. stack'[k].op = stack[k].op /\ stack'[k].e = stack[k].e
      BY <2>2, <1>3
    <3>2. /\ stack[k].op = "Remove" => stack[j].e # stack[k].e
          /\ stack[k].op = "RemoveAllEntity" => ~ Registered(stack[j].e)
      BY <2>1, <2>2, <1>5 DEF IInv, EntityPlaces
    <3> QED
      BY <2>1, <3>1, <3>2
  <2>3. CASE k \notin DOMAIN stack
    BY <2>1, <2>3, <1>5
  <2> QED
    BY <2>2, <2>3
<1> QED
  BY <1>1, <1>4, <1>5 DEF EntityPlaces

(* Components stay where they are, and who took one has it.                  *)
LEMMA ComponentsKept ==
  ASSUME IInv, UNCHANGED memory,
         \A k \in DOMAIN stack' :
           \/ k \in DOMAIN stack /\ stack'[k].op = stack[k].op /\ stack'[k].c = stack[k].c
           \/ k \notin DOMAIN stack /\ (stack'[k].c = None \/ stack'[k].op = "AddComponent"),
         \A k \in DOMAIN stack :
           k \in DOMAIN stack' \/ stack[k].c = None \/ stack[k].op = "AddComponent"
  PROVE  ComponentPlaces'
<1>1. live' = live /\ component_list' = component_list /\ class' = class /\ owned' = owned
  BY DEF memory
<1>2. \A c \in Components : Takers(c)' = Takers(c)
  <2> SUFFICES ASSUME NEW c \in Components PROVE Takers(c)' = Takers(c)
    OBVIOUS
  <2>1. c # None
    OBVIOUS
  <2>2. \A k : k \in Takers(c)' <=> k \in Takers(c)
    BY <2>1 DEF Takers
  <2> QED
    BY <2>2 DEF Takers
<1>3. \A c : Placed(c)' <=> Placed(c)
  BY <1>1 DEF Placed
<1> QED
  BY <1>1, <1>2, <1>3 DEF IInv, ComponentPlaces

(* No component comes to an entity being removed, and its sweep comes no     *)
(* further than the places that are empty.                                   *)
LEMMA SweptKept ==
  ASSUME IInv,
         \A e \in Entities, j \in Classes :
           component_list'[e][j] \in {component_list[e][j], None},
         \A k \in DOMAIN stack' : stack'[k].op = "Remove" =>
           /\ k \in DOMAIN stack /\ stack[k].op = "Remove" /\ stack[k].e = stack'[k].e
           /\ stack[k].at = stack'[k].at /\ stack[k].late \subseteq stack'[k].late
           /\ stack[k].at # "client" =>
                \A j \in Classes : j >= Reached(k) =>
                  j >= Reached(k)' \/ component_list'[stack[k].e][j] = None
  PROVE  Swept'
<1> SUFFICES ASSUME NEW k \in DOMAIN stack', stack'[k].op = "Remove",
                    NEW j \in Classes, component_list'[stack'[k].e][j] # None
             PROVE  /\ stack'[k].at \in {"client", "delete"} =>
                         component_list'[stack'[k].e][j] \in stack'[k].late
                    /\ stack'[k].at = "announce" =>
                         component_list'[stack'[k].e][j] \in stack'[k].late \/ j >= Reached(k)'
                    /\ stack'[k].at = "delete" => j >= Reached(k)'
  BY DEF Swept
<1>1. stack[k].e \in Entities
  <2>1. stack[k] \in Operation /\ FrameOK(stack[k])
    BY StackFacts
  <2> QED
    BY <2>1 DEF Operation, FrameOK
<1>2. component_list'[stack[k].e][j] = component_list[stack[k].e][j]
  BY <1>1
<1>3. /\ stack[k].at \in {"client", "delete"} =>
           component_list[stack[k].e][j] \in stack[k].late
      /\ stack[k].at = "announce" =>
           component_list[stack[k].e][j] \in stack[k].late \/ j >= Reached(k)
      /\ stack[k].at = "delete" => j >= Reached(k)
  BY <1>2 DEF IInv, Swept
<1> QED
  BY <1>2, <1>3

(* An operation begins. *)
LEMMA GrownKeeps ==
  ASSUME IInv, ClientRuns, NEW f, Grown(f), FramesOK', f.op # "Remove"
  PROVE  /\ UNCHANGED registry /\ (f.n = None \/ f.at = "visit") /\ WalkOK(f) => NodesOK'
         /\ /\ live' = live /\ entities' = entities /\ (f.e # None => f.e \in live)
            /\ f.op = "RemoveAllEntity" =>
                 \A j \in DOMAIN stack : stack[j].e # None => ~ Registered(stack[j].e)
            => EntityPlaces'
         /\ UNCHANGED memory /\ f.c = None => ComponentPlaces'
         /\ (\A e \in Entities, j \in Classes :
               component_list'[e][j] \in {component_list[e][j], None}) => Swept'
<1>1. PICK len \in Nat : /\ len = Len(stack) /\ DOMAIN stack = 1 .. len
                         /\ stack # <<>> => Top = stack[len] /\ Top.at = "client"
  BY StackFacts
<1>2. /\ Len(stack') = len + 1 /\ DOMAIN stack' = 1 .. len + 1 /\ stack'[len + 1] = f
      /\ \A k \in DOMAIN stack : k \in DOMAIN stack' /\ Alike(stack'[k], stack[k])
      /\ \A k \in DOMAIN stack' : k \in DOMAIN stack \/ (k = len + 1 /\ k \notin DOMAIN stack)
  BY <1>1 DEF Grown
<1>3. \A k \in DOMAIN stack :
        /\ stack'[k].op = stack[k].op /\ stack'[k].e = stack[k].e /\ stack'[k].n = stack[k].n
        /\ stack'[k].c = stack[k].c /\ stack'[k].i = stack[k].i /\ stack'[k].at = stack[k].at
        /\ stack'[k].owed = stack[k].owed /\ stack'[k].seen = stack[k].seen
        /\ stack[k].late \subseteq stack'[k].late
  BY <1>2 DEF Alike
<1>4. ASSUME UNCHANGED registry, f.n = None \/ f.at = "visit", WalkOK(f)
      PROVE  NodesOK'
  BY <1>2, <1>3, <1>4, NodesKept
<1>5. ASSUME live' = live, entities' = entities, f.e # None => f.e \in live,
             f.op = "RemoveAllEntity" =>
               \A j \in DOMAIN stack : stack[j].e # None => ~ Registered(stack[j].e)
      PROVE  EntityPlaces'
  BY <1>1, <1>2, <1>3, <1>5, EntitiesKept
<1>6. ASSUME UNCHANGED memory, f.c = None
      PROVE  ComponentPlaces'
  BY <1>2, <1>3, <1>6, ComponentsKept
<1>7. ASSUME \A e \in Entities, j \in Classes :
               component_list'[e][j] \in {component_list[e][j], None}
      PROVE  Swept'
  <2>1. ASSUME NEW k \in DOMAIN stack', stack'[k].op = "Remove"
        PROVE  /\ k \in DOMAIN stack /\ stack[k].op = "Remove" /\ stack[k].e = stack'[k].e
               /\ stack[k].at = stack'[k].at /\ stack[k].late \subseteq stack'[k].late
               /\ stack[k].at # "client" => Reached(k)' = Reached(k)
    <3>1. k \in DOMAIN stack
      BY <2>1, <1>2
    <3>2. ASSUME stack[k].at # "client"
          PROVE  Reached(k)' = Reached(k)
      <4>1. k # len /\ k # Len(stack')
        BY <3>1, <3>2, <1>1, <1>2
      <4>2. k + 1 \in DOMAIN stack
        BY <3>1, <4>1, <1>1
      <4> QED
        BY <4>1, <4>2, <1>1, <1>3 DEF Reached
    <3> QED
      BY <2>1, <3>1, <3>2, <1>3
  <2> QED
    BY <2>1, <1>7, SweptKept
<1> QED
  BY <1>4, <1>5, <1>6, <1>7

(* An operation that holds no node, entity or component returns.             *)
LEMMA ShrunkKeeps ==
  ASSUME IInv, stack # <<>>, Shrunk, FramesOK'
  PROVE  /\ UNCHANGED registry /\ (Top.n = None \/ Top.at = "visit") => NodesOK'
         /\ live' = live /\ entities' = entities /\ Top.op # "Remove" => EntityPlaces'
         /\ UNCHANGED memory /\ (Top.c = None \/ Top.op = "AddComponent") => ComponentPlaces'
         /\ /\ component_list' = component_list
            /\ Top.op = "RemoveAllComponent" =>
                 \A j \in Classes : j >= Top.i => component_list[Top.e][j] = None
            => Swept'
<1>1. PICK len \in Nat : /\ len = Len(stack) /\ DOMAIN stack = 1 .. len /\ len \in DOMAIN stack
                         /\ Top = stack[len]
  BY StackFacts
<1>2. /\ Len(stack') + 1 = len /\ DOMAIN stack' = 1 .. Len(stack')
      /\ \A k \in DOMAIN stack' : k \in DOMAIN stack /\ k # len /\ stack'[k] = stack[k]
      /\ \A k \in DOMAIN stack : k # len => k \in DOMAIN stack'
  BY <1>1 DEF Shrunk
<1>3. ASSUME UNCHANGED registry, Top.n = None \/ Top.at = "visit"
      PROVE  NodesOK'
  BY <1>1, <1>2, <1>3, NodesKept
<1>4. ASSUME live' = live, entities' = entities, Top.op # "Remove"
      PROVE  EntityPlaces'
  BY <1>1, <1>2, <1>4, EntitiesKept
<1>5. ASSUME UNCHANGED memory, Top.c = None \/ Top.op = "AddComponent"
      PROVE  ComponentPlaces'
  BY <1>1, <1>2, <1>5, ComponentsKept
<1>6. ASSUME component_list' = component_list,
             Top.op = "RemoveAllComponent" =>
               \A j \in Classes : j >= Top.i => component_list[Top.e][j] = None
      PROVE  Swept'
  <2>1. ASSUME NEW k \in DOMAIN stack', stack'[k].op = "Remove", stack[k].at # "client",
               NEW j \in Classes, j >= Reached(k)
        PROVE  j >= Reached(k)' \/ component_list'[stack[k].e][j] = None
    <3>1. k \in DOMAIN stack /\ k # len /\ k \in Nat /\ k + 1 \in DOMAIN stack /\ stack'[k] = stack[k]
      BY <1>1, <1>2, <2>1
    <3>2. Reached(k) = stack[k + 1].i
      BY <3>1, <1>1 DEF Reached
    <3>3. CASE k = Len(stack')
      <4>1. k + 1 = len
        BY <3>3, <1>2
      <4>2. Nested(stack[k], stack[k + 1]) /\ FrameOK(stack[k])
        BY <3>1, <1>1 DEF IInv, FramesOK
      <4>3. Top.op = "RemoveAllComponent" /\ Top.e = stack[k].e /\ Top.i = Reached(k)
        BY <2>1, <3>1, <3>2, <4>1, <4>2, <1>1 DEF Nested, FrameOK
      <4> QED
        BY <2>1, <4>3, <1>6
    <3>4. CASE k # Len(stack')
      <4>1. k + 1 \in DOMAIN stack'
        BY <3>1, <3>4, <1>1, <1>2
      <4>2. Reached(k)' = stack[k + 1].i
        BY <3>4, <4>1, <1>2 DEF Reached
      <4> QED
        BY <2>1, <3>2, <4>2
    <3> QED
      BY <3>3, <3>4
  <2>2. \A k \in DOMAIN stack' : k \in DOMAIN stack /\ stack'[k] = stack[k]
    BY <1>2
  <2>3. \A e \in Entities, j \in Classes :
          component_list'[e][j] \in {component_list[e][j], None}
    BY <1>6
  <2> QED
    BY <2>1, <2>2, <2>3, SweptKept
<1> QED
  BY <1>3, <1>4, <1>5, <1>6

(* The innermost operation goes on with what it holds.                       *)
LEMMA MovedKeeps ==
  ASSUME IInv, stack # <<>>, NEW f, Moved(f), FramesOK', f.op = Top.op, f.e = Top.e
  PROVE  /\ /\ UNCHANGED registry /\ f.n = Top.n /\ f.owed = Top.owed /\ f.seen = Top.seen
            /\ f.at = "visit" <=> Top.at = "visit"
            => NodesOK'
         /\ live' = live /\ entities' = entities => EntityPlaces'
         /\ UNCHANGED memory /\ f.c = Top.c => ComponentPlaces'
         /\ /\ \A e \in Entities, j \in Classes :
                 component_list'[e][j] \in {component_list[e][j], None}
            /\ f.op # "Remove"
            /\ f.op = "RemoveAllComponent" =>
                 \A j \in Classes : j >= Top.i => j >= f.i \/ component_list'[Top.e][j] = None
            => Swept'
<1>1. PICK len \in Nat : /\ len = Len(stack) /\ DOMAIN stack = 1 .. len /\ len \in DOMAIN stack
                         /\ Top = stack[len]
  BY StackFacts
<1>2. /\ Len(stack') = len /\ DOMAIN stack' = 1 .. len /\ stack'[len] = f
      /\ \A k \in DOMAIN stack : k # len => stack'[k] = stack[k]
  BY <1>1 DEF Moved
<1>3. ASSUME UNCHANGED registry, f.n = Top.n, f.owed = Top.owed, f.seen = Top.seen,
             f.at = "visit" <=> Top.at = "visit"
      PROVE  NodesOK'
  BY <1>1, <1>2, <1>3, NodesKept
<1>4. ASSUME live' = live, entities' = entities
      PROVE  EntityPlaces'
  BY <1>1, <1>2, <1>4, EntitiesKept
<1>5. ASSUME UNCHANGED memory, f.c = Top.c
      PROVE  ComponentPlaces'
  BY <1>1, <1>2, <1>5, ComponentsKept
<1>6. ASSUME \A e \in Entities, j \in Classes :
               component_list'[e][j] \in {component_list[e][j], None},
             f.op # "Remove",
             f.op = "RemoveAllComponent" =>
               \A j \in Classes : j >= Top.i => j >= f.i \/ component_list'[Top.e][j] = None
      PROVE  Swept'
  <2>1. \A k \in DOMAIN stack' : stack'[k].op = "Remove" =>
          k \in DOMAIN stack /\ k # len /\ stack'[k] = stack[k]
    BY <1>1, <1>2, <1>6
  <2>2. ASSUME NEW k \in DOMAIN stack', stack'[k].op = "Remove", stack[k].at # "client",
               NEW j \in Classes, j >= Reached(k)
        PROVE  j >= Reached(k)' \/ component_list'[stack[k].e][j] = None
    <3>1. k \in DOMAIN stack /\ k # len /\ k + 1 \in DOMAIN stack /\ stack'[k] = stack[k]
      BY <1>1, <1>2, <2>1, <2>2
    <3>2. Reached(k) = stack[k + 1].i /\ Reached(k)' = stack'[k + 1].i
      BY <3>1, <1>1, <1>2 DEF Reached
    <3>3. CASE k + 1 = len
      <4>1. Nested(stack[k], stack[k + 1]) /\ FrameOK(stack[k])
        BY <3>1, <1>1 DEF IInv, FramesOK
      <4>2. Top.op = "RemoveAllComponent" /\ Top.e = stack[k].e /\ Top.i = Reached(k)
        BY <2>2, <3>1, <3>2, <3>3, <4>1, <1>1 DEF Nested, FrameOK
      <4> QED
        BY <2>2, <3>2, <3>3, <4>2, <1>2, <1>6
    <3>4. CASE k + 1 # len
      BY <3>1, <3>2, <3>4, <2>2, <1>2
    <3> QED
      BY <3>3, <3>4
  <2> QED
    BY <2>1, <2>2, <1>6, SweptKept
<1> QED
  BY <1>3, <1>4, <1>5, <1>6

-----------------------------------------------------------------------------
(* Steps that change the stack only. *)

(* An operation begins that holds no node and no component.                  *)
LEMMA QuietPush ==
  ASSUME IInv, ClientRuns, UNCHANGED <<memory, registry>>,
         NEW f \in Operation, FrameOK(f), RoomLeft(f, Len(stack) + 1), Len(stack) < MaxDepth,
         stack' = Append(stack, f), WalkOK(f), f.n = None \/ f.at = "visit", f.c = None,
         f.op # "Remove", f.e # None => f.e \in live,
         f.op = "RemoveAllEntity" =>
           \A j \in DOMAIN stack : stack[j].e # None => ~ Registered(stack[j].e)
  PROVE  IInv'
<1>1. stack \in Seq(Operation) /\ \A k \in DOMAIN stack : Alike(stack[k], stack[k])
  BY StackFacts DEF Alike
<1>2. FramesOK' /\ Grown(f) /\ Len(stack') <= MaxDepth
  BY <1>1, PushShape
<1>3. UNCHANGED memory /\ UNCHANGED registry
  OBVIOUS
<1>4. /\ live' = live /\ component_list' = component_list /\ class' = class /\ owned' = owned
      /\ entities' = entities /\ entity_list' = entity_list /\ node' = node
  BY DEF memory, registry
<1>5. TypeOK'
  BY <1>2, <1>4 DEF IInv, TypeOK
<1>6. \A e \in Entities, j \in Classes :
        component_list'[e][j] \in {component_list[e][j], None}
  BY <1>4
<1>7. NodesOK' /\ EntityPlaces' /\ ComponentPlaces' /\ Swept'
  BY <1>2, <1>3, <1>4, <1>6, GrownKeeps
<1> QED
  BY <1>2, <1>5, <1>7 DEF IInv

(* An operation returns that holds no node and owns no component.            *)
LEMMA QuietReturn ==
  ASSUME IInv, stack # <<>>, Return, UNCHANGED <<memory, registry>>,
         Top.n = None \/ Top.at = "visit", Top.op # "Remove",
         Top.c = None \/ Top.op = "AddComponent",
         Top.op = "RemoveAllComponent" =>
           \A j \in Classes : j >= Top.i => component_list[Top.e][j] = None
  PROVE  IInv'
<1>1. FramesOK' /\ Shrunk /\ Len(stack') <= MaxDepth
  BY ReturnShape
<1>2. UNCHANGED memory /\ UNCHANGED registry
  OBVIOUS
<1>3. /\ live' = live /\ component_list' = component_list /\ class' = class /\ owned' = owned
      /\ entities' = entities /\ entity_list' = entity_list /\ node' = node
  BY DEF memory, registry
<1>4. TypeOK'
  BY <1>1, <1>3 DEF IInv, TypeOK
<1>5. NodesOK' /\ EntityPlaces' /\ ComponentPlaces' /\ Swept'
  BY <1>1, <1>2, <1>3, ShrunkKeeps
<1> QED
  BY <1>1, <1>4, <1>5 DEF IInv

(* An operation, not a removal, goes on with what it holds.                  *)
LEMMA QuietBecome ==
  ASSUME IInv, stack # <<>>, UNCHANGED <<memory, registry>>,
         NEW f \in Operation, FrameOK(f), Become(f), f.op = Top.op, f.e = Top.e,
         f.n = Top.n, f.owed = Top.owed, f.seen = Top.seen,
         f.at = "visit" <=> Top.at = "visit", f.c = Top.c,
         f.op \notin {"Remove", "RemoveAllComponent"}
  PROVE  IInv'
<1>1. FramesOK' /\ Moved(f) /\ Len(stack') <= MaxDepth
  BY BecomeShape
<1>2. UNCHANGED memory /\ UNCHANGED registry
  OBVIOUS
<1>3. /\ live' = live /\ component_list' = component_list /\ class' = class /\ owned' = owned
      /\ entities' = entities /\ entity_list' = entity_list /\ node' = node
  BY DEF memory, registry
<1>4. TypeOK'
  BY <1>1, <1>3 DEF IInv, TypeOK
<1>5. \A e \in Entities, j \in Classes :
        component_list'[e][j] \in {component_list[e][j], None}
  BY <1>3
<1>6. NodesOK' /\ EntityPlaces' /\ ComponentPlaces' /\ Swept'
  BY <1>1, <1>2, <1>3, <1>5, MovedKeeps
<1> QED
  BY <1>1, <1>4, <1>6 DEF IInv

(* RemoveAllComponent begins. *)
LEMMA RemoveAllComponentKeeps ==
  ASSUME IInv, NEW e \in Entities, RemoveAllComponent(e)
  PROVE  IInv'
<1>1. PICK f : f = Sweep(e)
  OBVIOUS
<1>2. /\ f \in Operation /\ f.op = "RemoveAllComponent" /\ f.e = e /\ f.n = None /\ f.c = None
      /\ f.at = "scan" /\ f.owed = {} /\ f.seen = {}
  BY <1>1 DEF Sweep, Frame, Operation
<1>3. FrameOK(f) /\ WalkOK(f) /\ RoomLeft(f, Len(stack) + 1)
  BY <1>2 DEF FrameOK, WalkOK, RoomLeft
<1>4. /\ ClientRuns /\ e \in live /\ Len(stack) < MaxDepth /\ stack' = Append(stack, f)
      /\ UNCHANGED <<memory, registry>>
  BY <1>1 DEF RemoveAllComponent, Push
<1> QED
  BY <1>2, <1>3, <1>4, QuietPush

(* ForeachComponent begins. *)
LEMMA ForeachComponentKeeps ==
  ASSUME IInv, NEW e \in Entities, ForeachComponent(e)
  PROVE  IInv'
<1>1. PICK k \in ComponentFrom(e, 1) :
        Push([Frame("ForeachComponent", e, None, None) EXCEPT !.i = k + 1])
  BY DEF ForeachComponent
<1>2. k \in Nat
  BY <1>1 DEF ComponentFrom
<1>3. PICK f : f = [Frame("ForeachComponent", e, None, None) EXCEPT !.i = k + 1]
  OBVIOUS
<1>4. /\ f \in Operation /\ f.op = "ForeachComponent" /\ f.e = e /\ f.n = None /\ f.c = None
      /\ f.at = "client" /\ f.owed = {} /\ f.seen = {}
  BY <1>2, <1>3 DEF Frame, Operation
<1>5. FrameOK(f) /\ WalkOK(f) /\ RoomLeft(f, Len(stack) + 1)
  BY <1>4 DEF FrameOK, WalkOK, RoomLeft
<1>6. /\ ClientRuns /\ e \in live /\ Len(stack) < MaxDepth /\ stack' = Append(stack, f)
      /\ UNCHANGED <<memory, registry>>
  BY <1>1, <1>3 DEF ForeachComponent, Push
<1> QED
  BY <1>4, <1>5, <1>6, QuietPush

(* ForeachComponent calls back for the next component.                       *)
LEMMA NextComponentKeeps ==
  ASSUME IInv, NextComponent
  PROVE  IInv'
<1>1. /\ stack # <<>> /\ Top.op = "ForeachComponent" /\ Top.at = "client"
      /\ UNCHANGED <<memory, registry>>
  BY DEF NextComponent, In
<1>2. Top \in Operation /\ FrameOK(Top)
  BY <1>1, StackFacts
<1>3. PICK k \in ComponentFrom(Top.e, Top.i) : Become([Top EXCEPT !.i = k + 1])
  BY DEF NextComponent
<1>4. k \in Nat
  BY <1>2, <1>3 DEF ComponentFrom, Operation
<1>5. PICK f : f = [Top EXCEPT !.i = k + 1]
  OBVIOUS
<1>6. /\ f \in Operation /\ f.op = Top.op /\ f.e = Top.e /\ f.n = Top.n /\ f.c = Top.c
      /\ f.at = Top.at /\ f.owed = Top.owed /\ f.seen = Top.seen
  BY <1>2, <1>4, <1>5 DEF Operation
<1>7. FrameOK(f)
  BY <1>2, <1>6 DEF FrameOK
<1> QED
  BY <1>1, <1>3, <1>5, <1>6, <1>7, QuietBecome

(* The operations return that hold nothing any more.                         *)
LEMMA ReturnsKeep ==
  ASSUME IInv, \/ AddComponentReturns \/ RemoveAllComponentReturns
               \/ ForeachComponentReturns \/ WalkReturns
  PROVE  IInv'
<1>1. stack # <<>> /\ Return /\ UNCHANGED <<memory, registry>>
  BY DEF AddComponentReturns, RemoveAllComponentReturns, ForeachComponentReturns, WalkReturns, In
<1>2. Top \in Operation /\ FrameOK(Top)
  BY <1>1, StackFacts
<1>3. CASE AddComponentReturns
  <2>1. Top.op = "AddComponent"
    BY <1>3 DEF AddComponentReturns, In
  <2>2. Top.n = None
    BY <2>1, <1>2 DEF FrameOK
  <2> QED
    BY <2>1, <2>2, <1>1, QuietReturn
<1>4. CASE RemoveAllComponentReturns
  <2>1. Top.op = "RemoveAllComponent" /\ Top.at = "scan"
    BY <1>4 DEF RemoveAllComponentReturns, In
  <2>2. Top.n = None /\ Top.c = None
    BY <2>1, <1>2 DEF FrameOK
  <2>3. \A j \in Classes : j >= Top.i => component_list[Top.e][j] = None
    BY <1>2, <1>4 DEF RemoveAllComponentReturns, Classes, Operation
  <2> QED
    BY <2>1, <2>2, <2>3, <1>1, QuietReturn
<1>5. CASE ForeachComponentReturns
  <2>1. Top.op = "ForeachComponent"
    BY <1>5 DEF ForeachComponentReturns, In
  <2>2. Top.n = None /\ Top.c = None
    BY <2>1, <1>2 DEF FrameOK
  <2> QED
    BY <2>1, <2>2, <1>1, QuietReturn
<1>6. CASE WalkReturns
  <2>1. Top.at = "visit"
    BY <1>6 DEF WalkReturns
  <2>2. Top.op \in {"RemoveAllEntity", "ForeachEntity"} /\ Top.c = None
    BY <2>1, <1>2 DEF FrameOK, Operation
  <2> QED
    BY <2>1, <2>2, <1>1, QuietReturn
<1> QED
  BY <1>3, <1>4, <1>5, <1>6

(* A callback of ForeachEntity says to go on. *)
LEMMA CallbackSaysOnKeeps ==
  ASSUME IInv, CallbackSaysOn
  PROVE  IInv'
<1>1. /\ stack # <<>> /\ Top.op = "ForeachEntity" /\ Top.at = "client"
      /\ UNCHANGED <<memory, registry>>
  BY DEF CallbackSaysOn, In
<1>2. Top \in Operation /\ FrameOK(Top)
  BY <1>1, StackFacts
<1>3. PICK f : f = [Top EXCEPT !.at = "leave"]
  OBVIOUS
<1>4. /\ f \in Operation /\ f.op = Top.op /\ f.e = Top.e /\ f.n = Top.n /\ f.c = Top.c
      /\ f.at = "leave" /\ f.owed = Top.owed /\ f.seen = Top.seen
  BY <1>2, <1>3 DEF Operation
<1>5. FrameOK(f) /\ Become(f)
  BY <1>1, <1>2, <1>3, <1>4 DEF FrameOK, CallbackSaysOn
<1> QED
  BY <1>1, <1>4, <1>5, QuietBecome

(* A walk over the entities begins at the first node.                        *)
LEMMA WalkBegins ==
  ASSUME IInv, NEW m, m = FirstNode
  PROVE  /\ m \in Nodes \cup {None}
         /\ m # None => Contains(entity_list, m)
         /\ \A a \in Nodes : Attached(a) =>
              m # None /\ (a = m \/ Before(entity_list, m, a))
<1>1. entity_list \in Seq(Nodes) /\ IsInjective(entity_list)
  BY DEF IInv, TypeOK, NodesOK
<1>2. \/ m = None /\ \A a : ~ Contains(entity_list, a)
      \/ /\ Contains(entity_list, m) /\ m \in Nodes
         /\ \A a : Contains(entity_list, a) => a = m \/ Before(entity_list, m, a)
  BY <1>1, FirstOfProperties, ToSetContains DEF FirstNode
<1>3. \A a \in Nodes : Attached(a) => Contains(entity_list, a)
  BY NodeFacts
<1> QED
  BY <1>2, <1>3

(* ForeachEntity owes a call for every entity registered.                    *)
LEMMA ForeachEntityKeeps ==
  ASSUME IInv, ForeachEntity
  PROVE  IInv'
<1>1. PICK m : m = FirstNode
  OBVIOUS
<1>2. PICK f : f = [Frame("ForeachEntity", None, m, None)
                      EXCEPT !.at = "visit", !.owed = {n \in Nodes : node[n].entity # None}]
  OBVIOUS
<1>3. /\ m \in Nodes \cup {None}
      /\ m # None => Contains(entity_list, m)
      /\ \A a \in Nodes : Attached(a) => m # None /\ (a = m \/ Before(entity_list, m, a))
  BY <1>1, WalkBegins
<1>4. /\ f \in Operation /\ f.op = "ForeachEntity" /\ f.e = None /\ f.n = m /\ f.c = None
      /\ f.at = "visit" /\ f.seen = {} /\ f.owed = {n \in Nodes : Attached(n)}
  <2>1. PICK o : o = {n \in Nodes : node[n].entity # None}
    OBVIOUS
  <2>2. o \in SUBSET Nodes /\ o = {n \in Nodes : Attached(n)}
    BY <2>1 DEF Attached
  <2>3. f = [op |-> "ForeachEntity", e |-> None, n |-> m, c |-> None, i |-> 1, at |-> "visit",
             owed |-> o, seen |-> {}, late |-> {}]
    BY <1>2, <2>1 DEF Frame
  <2> QED
    BY <1>3, <2>2, <2>3 DEF Operation
<1>5. FrameOK(f) /\ RoomLeft(f, Len(stack) + 1)
  BY <1>4 DEF FrameOK, RoomLeft
<1>6. WalkOK(f)
  BY <1>3, <1>4 DEF WalkOK
<1>7. /\ ClientRuns /\ Len(stack) < MaxDepth /\ stack' = Append(stack, f)
      /\ UNCHANGED <<memory, registry>>
  BY <1>1, <1>2 DEF ForeachEntity, Push
<1> QED
  BY <1>4, <1>5, <1>6, <1>7, QuietPush

(* RemoveAllEntity begins when no operation uses an entity registered.       *)
LEMMA RemoveAllEntityKeeps ==
  ASSUME IInv, RemoveAllEntity
  PROVE  IInv'
<1>1. PICK m : m = FirstNode
  OBVIOUS
<1>2. PICK f : f = [Frame("RemoveAllEntity", None, m, None) EXCEPT !.at = "visit"]
  OBVIOUS
<1>3. m \in Nodes \cup {None} /\ (m # None => Contains(entity_list, m))
  BY <1>1, WalkBegins
<1>4. /\ f \in Operation /\ f.op = "RemoveAllEntity" /\ f.e = None /\ f.n = m /\ f.c = None
      /\ f.at = "visit" /\ f.seen = {} /\ f.owed = {}
  BY <1>2, <1>3 DEF Frame, Operation
<1>5. /\ ClientRuns /\ Len(stack) + 3 <= MaxDepth /\ stack' = Append(stack, f)
      /\ UNCHANGED <<memory, registry>> /\ \A e \in Entities : Registered(e) => ~ InUse(e)
  BY <1>1, <1>2 DEF RemoveAllEntity, Push
<1>6. Len(stack) \in Nat
  BY StackFacts
<1>7. FrameOK(f) /\ WalkOK(f) /\ RoomLeft(f, Len(stack) + 1) /\ Len(stack) < MaxDepth
  BY <1>3, <1>4, <1>5, <1>6 DEF FrameOK, WalkOK, RoomLeft
<1>8. ASSUME NEW j \in DOMAIN stack, stack[j].e # None
      PROVE  ~ Registered(stack[j].e)
  <2>1. stack[j] \in Operation /\ FrameOK(stack[j])
    BY StackFacts
  <2>2. PICK e \in Entities : e = stack[j].e
    BY <2>1, <1>8 DEF Operation
  <2>3. InUse(e) \/ Removing(e)
    BY <2>1, <2>2, <1>8 DEF FrameOK, InUse, Removing
  <2>4. ~ (Registered(e) /\ Removing(e))
    BY DEF IInv, EntityPlaces
  <2> QED
    BY <2>2, <2>3, <2>4, <1>5
<1> QED
  BY <1>4, <1>5, <1>7, <1>8, QuietPush

-----------------------------------------------------------------------------
(* Steps in which a component comes or goes. *)

(* A place of an entity's component list is written.                         *)
Written(e, k, c) == component_list' = [component_list EXCEPT ![e][k] = c]

(* The place has what was written, all others what they had.                 *)
LEMMA PlaceWritten ==
  ASSUME IInv, NEW e \in Entities, NEW k \in Classes, NEW c \in Components \cup {None},
         Written(e, k, c)
  PROVE  /\ component_list' \in [Entities -> [Classes -> Components \cup {None}]]
         /\ component_list'[e][k] = c
         /\ \A d \in Entities, j \in Classes : d # e \/ j # k =>
              component_list'[d][j] = component_list[d][j]
<1>1. component_list \in [Entities -> [Classes -> Components \cup {None}]]
  BY DEF IInv, TypeOK
<1>2. component_list' = [component_list EXCEPT ![e] = [component_list[e] EXCEPT ![k] = c]]
  BY DEF Written
<1>3. PICK l \in [Classes -> Components \cup {None}] : l = [component_list[e] EXCEPT ![k] = c]
  BY <1>1
<1>4. l[k] = c /\ \A j \in Classes : j # k => l[j] = component_list[e][j]
  BY <1>1, <1>3
<1>5. component_list' = [component_list EXCEPT ![e] = l]
  BY <1>2, <1>3
<1>6. /\ component_list' \in [Entities -> [Classes -> Components \cup {None}]]
      /\ component_list'[e] = l /\ \A d \in Entities : d # e => component_list'[d] = component_list[d]
  BY <1>1, <1>5
<1> QED
  BY <1>4, <1>6

(* Where a component is that is in a place. *)
LEMMA PlaceFacts ==
  ASSUME IInv, NEW e \in Entities, NEW k \in Classes, NEW c, c = component_list[e][k], c # None
  PROVE  /\ c \in Components /\ class[c] = k /\ e \in live /\ c \notin owned /\ Takers(c) = {}
         /\ \A d \in Entities, j \in Classes : component_list[d][j] = c => d = e /\ j = k
<1>1. c \in Components
  BY DEF IInv, TypeOK
<1> QED
  BY <1>1 DEF IInv, ComponentPlaces

(* Component c goes into the hands of the operations in S, the others stay.  *)
Handed(c, S) ==
  /\ \A j : j \in Takers(c)' <=> j \in S
  /\ \A d \in Components : d # c => Takers(d)' = Takers(d)

(* A component goes from its place into the hands of an operation.           *)
LEMMA TakenPlaces ==
  ASSUME IInv, NEW e \in Entities, NEW k \in Classes, NEW c, c = component_list[e][k], c # None,
         component_list' = [component_list EXCEPT ![e][k] = None],
         live' = live, class' = class, owned' = owned,
         NEW t, Handed(c, {t})
  PROVE  /\ ComponentPlaces'
         /\ component_list' \in [Entities -> [Classes -> Components \cup {None}]]
         /\ \A d \in Entities, j \in Classes :
              component_list'[d][j] \in {component_list[d][j], None}
         /\ component_list'[e][k] = None
<1>1. /\ component_list' \in [Entities -> [Classes -> Components \cup {None}]]
      /\ component_list'[e][k] = None
      /\ \A d \in Entities, j \in Classes : d # e \/ j # k =>
           component_list'[d][j] = component_list[d][j]
  <2>1. Written(e, k, None)
    BY DEF Written
  <2> QED
    BY <2>1, PlaceWritten
<1>2. \A d \in Entities, j \in Classes :
        component_list'[d][j] \in {component_list[d][j], None}
  BY <1>1
<1>3. /\ c \in Components /\ class[c] = k /\ e \in live /\ c \notin owned /\ Takers(c) = {}
      /\ \A d \in Entities, j \in Classes : component_list[d][j] = c => d = e /\ j = k
  BY PlaceFacts
<1>4. ~ Placed(c)'
  <2> SUFFICES ASSUME NEW d \in Entities, NEW j \in Classes, component_list'[d][j] = c
               PROVE  FALSE
    BY DEF Placed
  <2>1. component_list[d][j] = c
    BY <1>2
  <2> QED
    BY <2>1, <1>1, <1>3
<1>5. ASSUME NEW b \in Components, b # c
      PROVE  \A d \in Entities, j \in Classes :
               component_list'[d][j] = b <=> component_list[d][j] = b
  BY <1>1, <1>5
<1>6. \A b \in Components : b # c => (Placed(b)' <=> Placed(b))
  BY <1>5 DEF Placed
<1>7. ASSUME NEW d \in Entities, NEW j \in Classes, NEW b \in Components,
             component_list'[d][j] = b
      PROVE  /\ class'[b] = j /\ d \in live' /\ b \notin owned' /\ Takers(b)' = {}
             /\ \A a \in Entities : component_list'[a][j] = b => a = d
  <2>1. b # c
    BY <1>4, <1>7 DEF Placed
  <2>2. component_list[d][j] = b
    BY <2>1, <1>5, <1>7
  <2>3. /\ class[b] = j /\ d \in live /\ b \notin owned /\ Takers(b) = {}
        /\ \A a \in Entities : component_list[a][j] = b => a = d
    BY <2>2 DEF IInv, ComponentPlaces
  <2> QED
    BY <2>1, <2>3, <1>5 DEF Handed
<1>8. ASSUME NEW b \in Components
      PROVE  /\ class'[b] # 0 <=> Placed(b)' \/ b \in owned' \/ Takers(b)' # {}
             /\ b \in owned' => Takers(b)' = {}
             /\ \A i, j \in Takers(b)' : i = j
  <2>1. /\ class[b] # 0 <=> Placed(b) \/ b \in owned \/ Takers(b) # {}
        /\ b \in owned => Takers(b) = {}
        /\ \A i, j \in Takers(b) : i = j
    BY DEF IInv, ComponentPlaces
  <2>2. CASE b = c
    <3>1. class[c] # 0
      BY <1>3 DEF Classes
    <3>2. (\A i, j \in Takers(c)' : i = j) /\ Takers(c)' # {}
      BY DEF Handed
    <3> QED
      BY <2>2, <3>1, <3>2, <1>3
  <2>3. CASE b # c
    BY <2>1, <2>3, <1>6 DEF Handed
  <2> QED
    BY <2>2, <2>3
<1>9. ComponentPlaces'
  BY <1>7, <1>8 DEF ComponentPlaces
<1> QED
  BY <1>1, <1>2, <1>9

(* A component that an operation had taken is deleted, or goes to the client. *)
LEMMA LeftPlaces ==
  ASSUME IInv, live' = live, component_list' = component_list,
         NEW c \in Components, Takers(c) # {}, Handed(c, {}),
         \/ class' = [class EXCEPT ![c] = 0] /\ owned' = owned
         \/ class' = class /\ owned' = owned \cup {c}
  PROVE  ComponentPlaces' /\ class' \in [Components -> 0 .. ClassCount] /\ owned' \subseteq Components
<1>1. class \in [Components -> 0 .. ClassCount] /\ owned \subseteq Components
  BY DEF IInv, TypeOK
<1>2. /\ class' \in [Components -> 0 .. ClassCount] /\ owned' \subseteq Components
      /\ \A b \in Components : b # c => class'[b] = class[b] /\ (b \in owned' <=> b \in owned)
  BY <1>1
<1>3. c \notin owned /\ class[c] # 0 /\ ~ Placed(c)
  BY DEF IInv, ComponentPlaces, Placed
<1>4. \A b : Placed(b)' <=> Placed(b)
  BY DEF Placed
<1>5. ASSUME NEW d \in Entities, NEW j \in Classes, NEW b \in Components,
             component_list'[d][j] = b
      PROVE  /\ class'[b] = j /\ d \in live' /\ b \notin owned' /\ Takers(b)' = {}
             /\ \A a \in Entities : component_list'[a][j] = b => a = d
  <2>1. b # c
    BY <1>3, <1>5 DEF Placed
  <2>2. /\ class[b] = j /\ d \in live /\ b \notin owned /\ Takers(b) = {}
        /\ \A a \in Entities : component_list[a][j] = b => a = d
    BY <1>5 DEF IInv, ComponentPlaces
  <2> QED
    BY <2>1, <2>2, <1>2 DEF Handed
<1>6. ASSUME NEW b \in Components
      PROVE  /\ class'[b] # 0 <=> Placed(b)' \/ b \in owned' \/ Takers(b)' # {}
             /\ b \in owned' => Takers(b)' = {}
             /\ \A i, j \in Takers(b)' : i = j
  <2>1. /\ class[b] # 0 <=> Placed(b) \/ b \in owned \/ Takers(b) # {}
        /\ b \in owned => Takers(b) = {}
        /\ \A i, j \in Takers(b) : i = j
    BY DEF IInv, ComponentPlaces
  <2>2. CASE b = c
    <3>1. class'[c] # 0 <=> c \in owned'
      BY <1>1, <1>3
    <3> QED
      BY <2>2, <3>1, <1>3, <1>4 DEF Handed
  <2>3. CASE b # c
    BY <2>1, <2>3, <1>2, <1>4 DEF Handed
  <2> QED
    BY <2>2, <2>3
<1>7. ComponentPlaces'
  BY <1>5, <1>6 DEF ComponentPlaces
<1> QED
  BY <1>2, <1>7

(* RemoveComponent or DetachComponent takes a component.                     *)
LEMMA TakeComponentKeeps ==
  ASSUME IInv, NEW op \in {"RemoveComponent", "DetachComponent"},
         NEW e \in Entities, NEW k \in Classes, TakeComponent(op, e, k)
  PROVE  IInv'
<1>1. PICK c : c = component_list[e][k]
  OBVIOUS
<1>2. PICK f : f = Frame(op, None, None, c)
  OBVIOUS
<1>3. /\ ClientRuns /\ e \in live /\ c # None
      /\ component_list' = [component_list EXCEPT ![e][k] = None]
      /\ Len(stack) < MaxDepth /\ stack' = Append(stack, f)
      /\ live' = live /\ class' = class /\ owned' = owned /\ UNCHANGED registry
  BY <1>1, <1>2 DEF TakeComponent, Push
<1>4. c \in Components /\ Takers(c) = {}
  BY <1>1, <1>3, PlaceFacts
<1>5. /\ f \in Operation /\ f.op = op /\ f.e = None /\ f.n = None /\ f.c = c
      /\ f.at = "client" /\ f.owed = {} /\ f.seen = {}
  BY <1>2, <1>4 DEF Frame, Operation
<1>6. FrameOK(f) /\ WalkOK(f) /\ RoomLeft(f, Len(stack) + 1)
  BY <1>4, <1>5 DEF FrameOK, WalkOK, RoomLeft
<1>7. stack \in Seq(Operation) /\ \A j \in DOMAIN stack : Alike(stack[j], stack[j])
  BY StackFacts DEF Alike
<1>8. FramesOK' /\ Grown(f) /\ Len(stack') <= MaxDepth
  BY <1>3, <1>5, <1>6, <1>7, PushShape
<1>9. PICK t : t = Len(stack) + 1
  OBVIOUS
<1>10. Handed(c, {t})
  <2>1. DOMAIN stack = 1 .. Len(stack) /\ Len(stack) \in Nat
    BY StackFacts
  <2>2. DOMAIN stack' = 1 .. t /\ stack'[t] = f /\ t \in 1 .. t
    BY <2>1, <1>8, <1>9 DEF Grown
  <2>3. \A j \in DOMAIN stack : stack'[j].c = stack[j].c /\ stack'[j].op = stack[j].op
    BY <1>8 DEF Grown, Alike
  <2>4. \A j \in 1 .. t : j # t <=> j \in DOMAIN stack
    BY <2>1, <1>9
  <2>5. \A d \in Components : \A j : j \in Takers(d)' <=>
          (j = t /\ d = c) \/ j \in Takers(d)
    BY <2>1, <2>2, <2>3, <2>4, <1>5, <1>9 DEF Takers
  <2> QED
    BY <2>5, <1>4 DEF Takers, Handed
<1>11. /\ ComponentPlaces'
       /\ component_list' \in [Entities -> [Classes -> Components \cup {None}]]
       /\ \A d \in Entities, j \in Classes :
            component_list'[d][j] \in {component_list[d][j], None}
  BY <1>1, <1>3, <1>10, TakenPlaces
<1>12. entities' = entities /\ entity_list' = entity_list /\ node' = node
  BY <1>3 DEF registry
<1>13. TypeOK'
  BY <1>3, <1>8, <1>11, <1>12 DEF IInv, TypeOK
<1>14. NodesOK' /\ EntityPlaces' /\ Swept'
  BY <1>3, <1>5, <1>6, <1>8, <1>11, <1>12, GrownKeeps
<1> QED
  BY <1>8, <1>11, <1>13, <1>14 DEF IInv

(* RemoveComponent deletes what it took, DetachComponent hands it back.      *)
LEMMA TakeReturnsKeeps ==
  ASSUME IInv, RemoveComponentReturns \/ DetachComponentReturns
  PROVE  IInv'
<1>1. /\ stack # <<>> /\ Top.op \in {"RemoveComponent", "DetachComponent"} /\ Return
      /\ live' = live /\ component_list' = component_list /\ UNCHANGED registry
  BY DEF RemoveComponentReturns, DetachComponentReturns, In
<1>2. PICK c : c = Top.c
  OBVIOUS
<1>3. \/ class' = [class EXCEPT ![c] = 0] /\ owned' = owned
      \/ class' = class /\ owned' = owned \cup {c}
  BY <1>2 DEF RemoveComponentReturns, DetachComponentReturns
<1>4. PICK top \in DOMAIN stack : /\ top = Len(stack) /\ Top = stack[top]
                                  /\ Top \in Operation /\ FrameOK(Top)
  BY <1>1, StackFacts
<1>5. c \in Components /\ Top.n = None
  BY <1>1, <1>2, <1>4 DEF FrameOK, Operation
<1>6. FramesOK' /\ Shrunk /\ Len(stack') <= MaxDepth
  BY <1>1, ReturnShape
<1>7. top \in Takers(c) /\ \A j \in Takers(c) : j = top
  <2>1. top \in Takers(c)
    BY <1>1, <1>2, <1>4 DEF Takers
  <2> QED
    BY <2>1, <1>5 DEF IInv, ComponentPlaces
<1>8. \A d \in Components : \A j : j \in Takers(d)' <=> j \in Takers(d) /\ j # top
  BY <1>4, <1>6 DEF Takers, Shrunk
<1>9. Handed(c, {})
  <2>1. \A d \in Components : d # c => top \notin Takers(d)
    BY <1>2, <1>4 DEF Takers
  <2>2. \A d \in Components : d # c => \A j : j \in Takers(d)' <=> j \in Takers(d)
    BY <2>1, <1>8
  <2> QED
    BY <2>2, <1>5, <1>7, <1>8 DEF Handed, Takers
<1>10. /\ ComponentPlaces' /\ class' \in [Components -> 0 .. ClassCount]
       /\ owned' \subseteq Components
  BY <1>1, <1>3, <1>5, <1>7, <1>9, LeftPlaces
<1>11. entities' = entities /\ entity_list' = entity_list /\ node' = node
  BY <1>1 DEF registry
<1>12. TypeOK'
  BY <1>1, <1>6, <1>10, <1>11 DEF IInv, TypeOK
<1>13. NodesOK' /\ EntityPlaces' /\ Swept'
  BY <1>1, <1>5, <1>6, <1>11, ShrunkKeeps
<1> QED
  BY <1>6, <1>10, <1>12, <1>13 DEF IInv

(* The client deletes a component that is its own.                           *)
LEMMA DeleteOwnedKeeps ==
  ASSUME IInv, NEW c \in Components, DeleteOwned(c)
  PROVE  IInv'
<1>1. /\ c \in owned /\ owned' = owned \ {c} /\ class' = [class EXCEPT ![c] = 0]
      /\ live' = live /\ component_list' = component_list /\ stack' = stack /\ UNCHANGED registry
  BY DEF DeleteOwned
<1>2. entities' = entities /\ entity_list' = entity_list /\ node' = node
  BY <1>1 DEF registry
<1>3. class \in [Components -> 0 .. ClassCount] /\ owned \subseteq Components
  BY DEF IInv, TypeOK
<1>4. /\ class' \in [Components -> 0 .. ClassCount] /\ class'[c] = 0
      /\ \A b \in Components : b # c => class'[b] = class[b]
  BY <1>1, <1>3
<1>5. TypeOK'
  BY <1>1, <1>2, <1>3, <1>4 DEF IInv, TypeOK
<1>6. FramesOK' /\ EntityPlaces'
  BY <1>1, <1>2 DEF IInv, FramesOK, EntityPlaces, Registered, Removing
<1>7. NodesOK'
  <2>1. Counts' /\ Linked' /\ Entries'
    BY <1>1, <1>2 DEF IInv, NodesOK, Counts, RefCountExact, Holders, Attached, Linked, Entries
  <2>2. Walks'
    BY <1>1, <1>2 DEF IInv, NodesOK, Walks, WalkOK, Attached
  <2> QED
    BY <2>1, <2>2, <1>2 DEF IInv, NodesOK
<1>8. Swept'
  BY <1>1 DEF IInv, Swept, Reached
<1>9. \A b \in Components : Takers(b)' = Takers(b) /\ (Placed(b)' <=> Placed(b))
  BY <1>1 DEF Takers, Placed
<1>10. ~ Placed(c) /\ Takers(c) = {}
  BY <1>1 DEF IInv, ComponentPlaces, Placed
<1>11. ASSUME NEW d \in Entities, NEW j \in Classes, NEW b \in Components,
              component_list'[d][j] = b
       PROVE  /\ class'[b] = j /\ d \in live' /\ b \notin owned' /\ Takers(b)' = {}
              /\ \A a \in Entities : component_list'[a][j] = b => a = d
  <2>1. b # c
    BY <1>1, <1>10, <1>11 DEF Placed
  <2>2. /\ class[b] = j /\ d \in live /\ b \notin owned /\ Takers(b) = {}
        /\ \A a \in Entities : component_list[a][j] = b => a = d
    BY <1>1, <1>11 DEF IInv, ComponentPlaces
  <2> QED
    BY <2>1, <2>2, <1>1, <1>4, <1>9
<1>12. ASSUME NEW b \in Components
       PROVE  /\ class'[b] # 0 <=> Placed(b)' \/ b \in owned' \/ Takers(b)' # {}
              /\ b \in owned' => Takers(b)' = {}
              /\ \A i, j \in Takers(b)' : i = j
  <2>1. /\ class[b] # 0 <=> Placed(b) \/ b \in owned \/ Takers(b) # {}
        /\ b \in owned => Takers(b) = {}
        /\ \A i, j \in Takers(b) : i = j
    BY DEF IInv, ComponentPlaces
  <2>2. CASE b = c
    BY <2>2, <1>1, <1>4, <1>9, <1>10
  <2>3. CASE b # c
    BY <2>1, <2>3, <1>1, <1>4, <1>9
  <2> QED
    BY <2>2, <2>3
<1>13. ComponentPlaces'
  BY <1>11, <1>12 DEF ComponentPlaces
<1> QED
  BY <1>5, <1>6, <1>7, <1>8, <1>13 DEF IInv

(* A sweep takes the next component out. *)
LEMMA SweepComponentKeeps ==
  ASSUME IInv, SweepComponent
  PROVE  IInv'
<1>1. /\ stack # <<>> /\ Top.op = "RemoveAllComponent" /\ Top.at = "scan"
      /\ live' = live /\ class' = class /\ owned' = owned /\ UNCHANGED registry
  BY DEF SweepComponent, In
<1>2. PICK top \in DOMAIN stack : /\ top = Len(stack) /\ Top = stack[top]
                                  /\ Top \in Operation /\ FrameOK(Top)
  BY <1>1, StackFacts
<1>3. PICK e \in Entities : e = Top.e /\ Top.n = None /\ Top.c = None
  BY <1>1, <1>2 DEF FrameOK, Operation
<1>4. PICK k \in Top.i .. ClassCount :
        /\ component_list[e][k] # None
        /\ \A j \in Top.i .. k - 1 : component_list[e][j] = None
        /\ component_list' = [component_list EXCEPT ![e][k] = None]
        /\ Become([Top EXCEPT !.i = k + 1, !.c = component_list[e][k], !.at = "client"])
  BY <1>3 DEF SweepComponent
<1>5. Top.i \in Nat \ {0} /\ k \in Classes /\ k \in Nat
  BY <1>2 DEF Operation, Classes
<1>6. PICK c : c = component_list[e][k]
  OBVIOUS
<1>7. c \in Components /\ Takers(c) = {}
  BY <1>4, <1>5, <1>6, PlaceFacts
<1>8. PICK f : f = [Top EXCEPT !.i = k + 1, !.c = c, !.at = "client"]
  OBVIOUS
<1>9. /\ f \in Operation /\ f.op = Top.op /\ f.e = Top.e /\ f.n = Top.n /\ f.c = c /\ f.i = k + 1
      /\ f.at = "client" /\ f.owed = Top.owed /\ f.seen = Top.seen
  <2>1. PICK g \in Operation, i \in Nat \ {0} : g = Top /\ i = k + 1
    BY <1>2, <1>5
  <2>2. f = [g EXCEPT !.i = i, !.c = c, !.at = "client"]
    BY <2>1, <1>8
  <2>3. f \in Operation /\ f.op = g.op /\ f.e = g.e /\ f.n = g.n /\ f.c = c /\ f.i = i
        /\ f.at = "client" /\ f.owed = g.owed /\ f.seen = g.seen
    BY <2>2, <1>7 DEF Operation
  <2> QED
    BY <2>1, <2>3
<1>10. FrameOK(f)
  BY <1>1, <1>2, <1>7, <1>9 DEF FrameOK
<1>11. FramesOK' /\ Moved(f) /\ Len(stack') <= MaxDepth
  BY <1>1, <1>4, <1>6, <1>8, <1>9, <1>10, BecomeShape
<1>12. Handed(c, {top})
  <2>1. \A d \in Components : \A j : j \in Takers(d)' <=> j \in Takers(d) \/ (j = top /\ d = c)
    BY <1>1, <1>2, <1>3, <1>9, <1>11 DEF Takers, Moved
  <2>2. \A d \in Components : d # c => \A j : j \in Takers(d)' <=> j \in Takers(d)
    BY <2>1
  <2> QED
    BY <2>1, <2>2, <1>7 DEF Handed, Takers
<1>13. /\ ComponentPlaces'
       /\ component_list' \in [Entities -> [Classes -> Components \cup {None}]]
       /\ \A d \in Entities, j \in Classes :
            component_list'[d][j] \in {component_list[d][j], None}
       /\ component_list'[e][k] = None
  BY <1>1, <1>4, <1>5, <1>6, <1>12, TakenPlaces
<1>14. entities' = entities /\ entity_list' = entity_list /\ node' = node
  BY <1>1 DEF registry
<1>15. TypeOK'
  BY <1>1, <1>11, <1>13, <1>14 DEF IInv, TypeOK
<1>16. \A j \in Classes : j >= Top.i => j >= f.i \/ component_list'[Top.e][j] = None
  <2> SUFFICES ASSUME NEW j \in Classes, j >= Top.i, ~ (j >= k + 1)
               PROVE  component_list'[e][j] = None
    BY <1>3, <1>9
  <2>1. CASE j = k
    BY <2>1, <1>13
  <2>2. CASE j # k
    <3>1. j \in Top.i .. k - 1
      BY <2>2, <1>5 DEF Classes
    <3> QED
      BY <3>1, <1>4, <1>13
  <2> QED
    BY <2>1, <2>2
<1>17. NodesOK' /\ EntityPlaces' /\ Swept'
  BY <1>1, <1>9, <1>11, <1>13, <1>14, <1>16, MovedKeeps
<1> QED
  BY <1>11, <1>13, <1>15, <1>17 DEF IInv

(* A sweep deletes the component it took. *)
LEMMA DeleteSweptKeeps ==
  ASSUME IInv, DeleteSwept
  PROVE  IInv'
<1>1. /\ stack # <<>> /\ Top.op = "RemoveAllComponent" /\ Top.at = "client"
      /\ class' = [class EXCEPT ![Top.c] = 0]
      /\ live' = live /\ component_list' = component_list /\ owned' = owned /\ UNCHANGED registry
  BY DEF DeleteSwept, In
<1>2. PICK top \in DOMAIN stack : /\ top = Len(stack) /\ Top = stack[top]
                                  /\ Top \in Operation /\ FrameOK(Top)
  BY <1>1, StackFacts
<1>3. PICK c \in Components : c = Top.c /\ Top.n = None
  BY <1>1, <1>2 DEF FrameOK, Operation
<1>4. PICK f : f = [Top EXCEPT !.c = None, !.at = "scan"]
  OBVIOUS
<1>5. /\ f \in Operation /\ f.op = Top.op /\ f.e = Top.e /\ f.n = Top.n /\ f.c = None /\ f.i = Top.i
      /\ f.at = "scan" /\ f.owed = Top.owed /\ f.seen = Top.seen
  <2>1. PICK t \in Operation : t = Top
    BY <1>2
  <2>2. f = [t EXCEPT !.c = None, !.at = "scan"]
    BY <2>1, <1>4
  <2>3. /\ f \in Operation /\ f.op = t.op /\ f.e = t.e /\ f.n = t.n /\ f.c = None /\ f.i = t.i
        /\ f.at = "scan" /\ f.owed = t.owed /\ f.seen = t.seen
    BY <2>2 DEF Operation
  <2> QED
    BY <2>1, <2>3
<1>6. FrameOK(f) /\ Become(f)
  BY <1>1, <1>2, <1>4, <1>5 DEF FrameOK, DeleteSwept
<1>7. FramesOK' /\ Moved(f) /\ Len(stack') <= MaxDepth
  BY <1>1, <1>5, <1>6, BecomeShape
<1>8. top \in Takers(c) /\ \A j \in Takers(c) : j = top
  <2>1. top \in Takers(c)
    BY <1>1, <1>2, <1>3 DEF Takers
  <2> QED
    BY <2>1 DEF IInv, ComponentPlaces
<1>9. Handed(c, {})
  <2>1. \A d \in Components : \A j : j \in Takers(d)' <=> j \in Takers(d) /\ j # top
    BY <1>2, <1>5, <1>7 DEF Takers, Moved
  <2>2. \A d \in Components : d # c => top \notin Takers(d)
    BY <1>2, <1>3 DEF Takers
  <2>3. \A d \in Components : d # c => \A j : j \in Takers(d)' <=> j \in Takers(d)
    BY <2>1, <2>2
  <2> QED
    BY <2>1, <2>3, <1>8 DEF Handed, Takers
<1>10. ComponentPlaces' /\ class' \in [Components -> 0 .. ClassCount]
  BY <1>1, <1>3, <1>8, <1>9, LeftPlaces
<1>11. entities' = entities /\ entity_list' = entity_list /\ node' = node
  BY <1>1 DEF registry
<1>12. TypeOK'
  BY <1>1, <1>7, <1>10, <1>11 DEF IInv, TypeOK
<1>13. NodesOK' /\ EntityPlaces' /\ Swept'
  <2>1. \A d \in Entities, j \in Classes :
          component_list'[d][j] \in {component_list[d][j], None}
    BY <1>1
  <2> QED
    BY <2>1, <1>1, <1>5, <1>7, <1>11, MovedKeeps
<1> QED
  BY <1>7, <1>10, <1>12, <1>13 DEF IInv

(* A component is put into an empty place; the removals of the entity take   *)
(* note of it.                                                               *)
LEMMA OnAddComponentKeeps ==
  ASSUME IInv, NEW e \in Entities, NEW k \in Classes, NEW c \in Components,
         OnAddComponent(e, c, k), live' = live, UNCHANGED registry,
         ~ Placed(c), Takers(c) = {},
         class' \in [Components -> 0 .. ClassCount], class'[c] = k,
         \A b \in Components : b # c => class'[b] = class[b],
         owned' \subseteq Components, c \notin owned',
         \A b \in Components : b # c => (b \in owned' <=> b \in owned)
  PROVE  IInv'
<1>1. PICK f : f = Frame("AddComponent", e, None, c)
  OBVIOUS
<1>2. PICK b : b = [j \in DOMAIN stack |->
                      IF stack[j].op = "Remove" /\ stack[j].e = e
                      THEN [stack[j] EXCEPT !.late = @ \cup {c}] ELSE stack[j]]
  OBVIOUS
<1>3. /\ ClientRuns /\ e \in live /\ ~ Destructing(e) /\ component_list[e][k] = None
      /\ component_list' = [component_list EXCEPT ![e][k] = c]
      /\ Len(stack) < MaxDepth /\ stack' = Append(b, f)
  BY <1>1, <1>2 DEF OnAddComponent
<1>4. /\ f \in Operation /\ f.op = "AddComponent" /\ f.e = e /\ f.n = None /\ f.c = c
      /\ f.at = "client" /\ f.owed = {} /\ f.seen = {}
  BY <1>1 DEF Frame, Operation
<1>5. FrameOK(f) /\ WalkOK(f) /\ RoomLeft(f, Len(stack) + 1)
  BY <1>4 DEF FrameOK, WalkOK, RoomLeft
<1>6. PICK len \in Nat : /\ len = Len(stack) /\ DOMAIN stack = 1 .. len
                         /\ \A j \in 1 .. len : stack[j] \in Operation
                         /\ stack # <<>> => Top = stack[len] /\ Top.at = "client"
  BY <1>3, StackFacts
<1>7. ASSUME NEW j \in 1 .. len
      PROVE  /\ b[j] \in Operation /\ Alike(b[j], stack[j])
             /\ stack[j].op = "Remove" /\ stack[j].e = e => c \in b[j].late
  <2>1. PICK g \in Operation : g = stack[j]
    BY <1>6
  <2>2. CASE g.op = "Remove" /\ g.e = e
    <3>1. b[j] = [g EXCEPT !.late = @ \cup {c}]
      BY <2>1, <2>2, <1>2, <1>6
    <3> QED
      BY <3>1, <2>1 DEF Operation, Alike
  <2>3. CASE ~ (g.op = "Remove" /\ g.e = e)
    <3>1. b[j] = g
      BY <2>1, <2>3, <1>2, <1>6
    <3> QED
      BY <3>1, <2>1, <2>3 DEF Alike
  <2> QED
    BY <2>2, <2>3
<1>8. b \in Seq(Operation) /\ Len(b) = len /\ DOMAIN b = 1 .. len
  <2>1. b \in [1 .. len -> Operation]
    BY <1>2, <1>6, <1>7
  <2> QED
    BY <2>1, FunctionIsSeq
<1>9. FramesOK' /\ Grown(f) /\ Len(stack') <= MaxDepth
  BY <1>3, <1>4, <1>5, <1>6, <1>7, <1>8, PushShape
<1>10. /\ DOMAIN stack' = 1 .. len + 1 /\ stack'[len + 1] = f
       /\ \A j \in 1 .. len : stack'[j] = b[j] /\ Alike(stack'[j], stack[j])
       /\ \A j \in 1 .. len + 1 : j \in 1 .. len \/ j = len + 1
  <2>1. stack' = PushBack(b, f)
    BY <1>3 DEF PushBack
  <2>2. /\ DOMAIN stack' = 1 .. len + 1 /\ stack'[len + 1] = f
        /\ \A j \in 1 .. len : stack'[j] = b[j]
    <3>1. PICK u : u = stack'
      OBVIOUS
    <3>2. /\ DOMAIN u = 1 .. Len(b) + 1 /\ u[Len(b) + 1] = f
          /\ \A j \in 1 .. Len(b) : u[j] = b[j]
      BY <3>1, <2>1, <1>4, <1>8, Pushed DEF PushBack
    <3> QED
      BY <3>1, <3>2, <1>8
  <2>3. ASSUME NEW j \in 1 .. len
        PROVE  Alike(stack'[j], stack[j])
    BY <2>2, <1>7
  <2> QED
    BY <2>2, <2>3
<1>11. /\ component_list' \in [Entities -> [Classes -> Components \cup {None}]]
       /\ component_list'[e][k] = c
       /\ \A d \in Entities, j \in Classes : d # e \/ j # k =>
            component_list'[d][j] = component_list[d][j]
  <2>1. c \in Components \cup {None} /\ Written(e, k, c)
    BY <1>3 DEF Written
  <2> QED
    BY <2>1, PlaceWritten
<1>12. entities' = entities /\ entity_list' = entity_list /\ node' = node
  BY DEF registry
<1>13. TypeOK'
  BY <1>9, <1>11, <1>12 DEF IInv, TypeOK
<1>14. NodesOK' /\ EntityPlaces'
  BY <1>3, <1>4, <1>5, <1>9, <1>12, GrownKeeps
<1>15. \A d \in Components : Takers(d)' = Takers(d)
  <2>1. \A d \in Components : \A j : j \in Takers(d)' <=> j \in Takers(d)
    BY <1>4, <1>6, <1>10 DEF Takers, Alike
  <2> QED
    BY <2>1 DEF Takers
<1>16. \A d \in Components : d # c => (Placed(d)' <=> Placed(d))
  <2>1. \A d \in Components, a \in Entities, j \in Classes : d # c =>
          (component_list'[a][j] = d <=> component_list[a][j] = d)
    BY <1>3, <1>11
  <2> QED
    BY <2>1 DEF Placed
<1>17. Placed(c)'
  BY <1>11 DEF Placed
<1>18. ASSUME NEW d \in Entities, NEW j \in Classes, NEW m \in Components,
              component_list'[d][j] = m
       PROVE  /\ class'[m] = j /\ d \in live' /\ m \notin owned' /\ Takers(m)' = {}
              /\ \A a \in Entities : component_list'[a][j] = m => a = d
  <2>1. \A a \in Entities, i \in Classes : component_list'[a][i] = c => a = e /\ i = k
    BY <1>11 DEF Placed
  <2>2. CASE m = c
    BY <2>1, <2>2, <1>3, <1>15, <1>18
  <2>3. CASE m # c
    <3>1. \A a \in Entities, i \in Classes :
            component_list'[a][i] = m => component_list[a][i] = m
      BY <2>3, <1>11
    <3>2. /\ class[m] = j /\ d \in live /\ m \notin owned /\ Takers(m) = {}
          /\ \A a \in Entities : component_list[a][j] = m => a = d
      BY <3>1, <1>18 DEF IInv, ComponentPlaces
    <3> QED
      BY <2>3, <3>1, <3>2, <1>15
  <2> QED
    BY <2>2, <2>3
<1>19. ASSUME NEW m \in Components
       PROVE  /\ class'[m] # 0 <=> Placed(m)' \/ m \in owned' \/ Takers(m)' # {}
              /\ m \in owned' => Takers(m)' = {}
              /\ \A i, j \in Takers(m)' : i = j
  <2>1. /\ class[m] # 0 <=> Placed(m) \/ m \in owned \/ Takers(m) # {}
        /\ m \in owned => Takers(m) = {}
        /\ \A i, j \in Takers(m) : i = j
    BY DEF IInv, ComponentPlaces
  <2>2. CASE m = c
    BY <2>2, <1>15, <1>17 DEF Classes
  <2>3. CASE m # c
    BY <2>1, <2>3, <1>15, <1>16
  <2> QED
    BY <2>2, <2>3
<1>20. ComponentPlaces'
  BY <1>18, <1>19 DEF ComponentPlaces
<1>21. Swept'
  <2> SUFFICES ASSUME NEW m \in DOMAIN stack', stack'[m].op = "Remove",
                      NEW j \in Classes, component_list'[stack'[m].e][j] # None
               PROVE  /\ stack'[m].at \in {"client", "delete"} =>
                           component_list'[stack'[m].e][j] \in stack'[m].late
                      /\ stack'[m].at = "announce" =>
                           component_list'[stack'[m].e][j] \in stack'[m].late \/ j >= Reached(m)'
                      /\ stack'[m].at = "delete" => j >= Reached(m)'
    BY DEF Swept
  <2>1. m \in 1 .. len /\ Alike(stack'[m], stack[m]) /\ FrameOK(stack[m])
    BY <1>4, <1>6, <1>10, StackFacts
  <2>2. PICK d \in Entities : /\ d = stack[m].e /\ d = stack'[m].e /\ stack[m].op = "Remove"
                              /\ stack'[m].at = stack[m].at
                              /\ stack[m].late \subseteq stack'[m].late
    BY <2>1, <1>6 DEF Alike, FrameOK, Operation
  <2>3. CASE d = e /\ j = k
    <3>1. c \in stack'[m].late
      BY <2>1, <2>2, <2>3, <1>7, <1>10
    <3>2. stack'[m].at # "delete"
      BY <2>1, <2>2, <2>3, <1>3, <1>6 DEF Destructing
    <3> QED
      BY <3>1, <3>2, <2>2, <2>3, <1>11
  <2>4. CASE ~ (d = e /\ j = k)
    <3>1. component_list'[d][j] = component_list[d][j]
      BY <2>4, <1>11
    <3>2. /\ stack[m].at \in {"client", "delete"} => component_list[d][j] \in stack[m].late
          /\ stack[m].at = "announce" =>
               component_list[d][j] \in stack[m].late \/ j >= Reached(m)
          /\ stack[m].at = "delete" => j >= Reached(m)
      BY <2>1, <2>2, <3>1, <1>6 DEF IInv, Swept
    <3>3. ASSUME stack[m].at # "client"
          PROVE  Reached(m)' = Reached(m)
      <4>1. m # len /\ m # Len(stack') /\ m + 1 \in 1 .. len
        BY <3>3, <2>1, <1>6, <1>9 DEF Grown
      <4>2. stack'[m + 1].i = stack[m + 1].i
        BY <4>1, <1>10 DEF Alike
      <4> QED
        BY <4>1, <4>2, <1>6 DEF Reached
    <3> QED
      BY <2>2, <3>1, <3>2, <3>3
  <2> QED
    BY <2>3, <2>4
<1> QED
  BY <1>9, <1>13, <1>14, <1>20, <1>21 DEF IInv

(* AddComponent allocates the component. *)
LEMMA AddComponentKeeps ==
  ASSUME IInv, NEW e \in Entities, NEW k \in Classes, AddComponent(e, k)
  PROVE  IInv'
<1>1. PICK c \in Components : class[c] = 0 /\ AllocateClass(c, k) /\ OnAddComponent(e, c, k)
  BY DEF AddComponent
<1>2. live' = live /\ owned' = owned /\ UNCHANGED registry
  BY DEF AddComponent
<1>3. ~ Placed(c) /\ Takers(c) = {} /\ c \notin owned
  BY <1>1 DEF IInv, ComponentPlaces
<1>4. /\ class' \in [Components -> 0 .. ClassCount] /\ class'[c] = k
      /\ \A b \in Components : b # c => class'[b] = class[b]
  BY <1>1 DEF AllocateClass, IInv, TypeOK, Classes
<1>5. owned' \subseteq Components
  BY <1>2 DEF IInv, TypeOK
<1> QED
  BY <1>1, <1>2, <1>3, <1>4, <1>5, OnAddComponentKeeps

(* CopyComponent adds a component of the class of its image.                 *)
LEMMA CopyComponentKeeps ==
  ASSUME IInv, NEW e \in Entities, NEW image \in Components, CopyComponent(e, image)
  PROVE  IInv'
<1>1. class[image] \in Classes /\ AddComponent(e, class[image])
  BY DEF CopyComponent, IInv, TypeOK, Classes
<1> QED
  BY <1>1, AddComponentKeeps

(* AttachComponent takes the component from the client.                      *)
LEMMA AttachComponentKeeps ==
  ASSUME IInv, NEW e \in Entities, NEW c \in Components, AttachComponent(e, c)
  PROVE  IInv'
<1>1. /\ c \in owned /\ OnAddComponent(e, c, class[c]) /\ owned' = owned \ {c}
      /\ live' = live /\ class' = class /\ UNCHANGED registry
  BY DEF AttachComponent
<1>2. ~ Placed(c) /\ Takers(c) = {} /\ class[c] # 0
  BY <1>1 DEF IInv, ComponentPlaces, Placed
<1>3. class' \in [Components -> 0 .. ClassCount] /\ class[c] \in Classes
      /\ owned \subseteq Components
  BY <1>1, <1>2 DEF IInv, TypeOK, Classes
<1> QED
  BY <1>1, <1>2, <1>3, OnAddComponentKeeps

-----------------------------------------------------------------------------
(* Steps of a removal. *)

(* s \o <<f, g>>, under a name the provers do not take apart.                *)
PushTwo(s, f, g) == s \o <<f, g>>

(* A sequence of operations with two more, seen frame by frame.              *)
LEMMA PushedTwice ==
  ASSUME NEW s \in Seq(Operation), NEW f \in Operation, NEW g \in Operation,
         NEW u, u = PushTwo(s, f, g)
  PROVE  /\ u \in Seq(Operation) /\ Len(s) \in Nat /\ Len(u) = Len(s) + 2
         /\ DOMAIN s = 1 .. Len(s) /\ DOMAIN u = 1 .. Len(s) + 2
         /\ u[Len(s) + 1] = f /\ u[Len(s) + 2] = g /\ \A k \in 1 .. Len(s) : u[k] = s[k]
         /\ \A k \in DOMAIN u : k \in 1 .. Len(s) \/ k = Len(s) + 1 \/ k = Len(s) + 2
  BY DEF PushTwo

(* The operations around the innermost one. *)
LEMMA AroundTop ==
  ASSUME IInv, stack # <<>>, NEW len, len = Len(stack) - 1, NEW h, h = Front(stack)
  PROVE  /\ len \in Nat /\ len + 1 = Len(stack) /\ DOMAIN stack = 1 .. len + 1
         /\ Top = stack[len + 1]
         /\ h \in Seq(Operation) /\ Len(h) = len /\ DOMAIN h = 1 .. len
         /\ \A k \in 1 .. len : h[k] = stack[k]
<1>1. /\ stack \in Seq(Operation) /\ Len(stack) \in Nat \ {0} /\ DOMAIN stack = 1 .. Len(stack)
      /\ Top = stack[Len(stack)]
  BY StackFacts
<1>2. len \in Nat /\ len + 1 = Len(stack)
  BY <1>1
<1> QED
  BY <1>1, <1>2, FrontProperties

(* entity_remove_event_ is fired when the sweep is over.                     *)
LEMMA AnnounceKeeps ==
  ASSUME IInv, Announce
  PROVE  IInv'
<1>1. /\ stack # <<>> /\ Top.op = "Remove" /\ Top.at = "announce"
      /\ UNCHANGED <<memory, registry>>
  BY DEF Announce, In
<1>2. PICK top \in DOMAIN stack : /\ top = Len(stack) /\ Top = stack[top]
                                  /\ Top \in Operation /\ FrameOK(Top)
  BY <1>1, StackFacts
<1>3. PICK f : f = [Top EXCEPT !.at = "client"]
  OBVIOUS
<1>4. /\ f \in Operation /\ f.op = Top.op /\ f.e = Top.e /\ f.n = Top.n /\ f.c = Top.c
      /\ f.i = Top.i /\ f.at = "client" /\ f.owed = Top.owed /\ f.seen = Top.seen
      /\ f.late = Top.late
  BY <1>2, <1>3 DEF Operation
<1>5. FrameOK(f) /\ Become(f)
  BY <1>1, <1>2, <1>3, <1>4 DEF FrameOK, Announce
<1>6. FramesOK' /\ Moved(f) /\ Len(stack') <= MaxDepth
  BY <1>1, <1>4, <1>5, BecomeShape
<1>7. UNCHANGED memory /\ UNCHANGED registry
  BY <1>1
<1>8. /\ live' = live /\ component_list' = component_list /\ class' = class /\ owned' = owned
      /\ entities' = entities /\ entity_list' = entity_list /\ node' = node
  BY <1>1 DEF memory, registry
<1>9. TypeOK'
  BY <1>6, <1>8 DEF IInv, TypeOK
<1>10. NodesOK' /\ EntityPlaces' /\ ComponentPlaces'
  BY <1>1, <1>4, <1>6, <1>7, <1>8, MovedKeeps
<1>11. Swept'
  <2> SUFFICES ASSUME NEW k \in DOMAIN stack', stack'[k].op = "Remove",
                      NEW j \in Classes, component_list[stack'[k].e][j] # None
               PROVE  /\ stack'[k].at \in {"client", "delete"} =>
                           component_list[stack'[k].e][j] \in stack'[k].late
                      /\ stack'[k].at = "announce" =>
                           component_list[stack'[k].e][j] \in stack'[k].late \/ j >= Reached(k)'
                      /\ stack'[k].at = "delete" => j >= Reached(k)'
    BY <1>8 DEF Swept
  <2>1. k \in DOMAIN stack /\ Len(stack) = top /\ Len(stack') = top
    BY <1>2, <1>6 DEF Moved
  <2>2. DOMAIN stack = 1 .. top /\ top \in Nat
    BY <1>2, StackFacts
  <2>3. CASE k = top
    <3>1. ~ (j >= Reached(k))
      BY <2>1, <2>3 DEF Reached, Classes
    <3>2. stack'[k] = f
      BY <2>1, <2>3, <1>6 DEF Moved
    <3> QED
      BY <2>1, <2>3, <3>1, <3>2, <1>1, <1>2, <1>4 DEF IInv, Swept
  <2>4. CASE k # top
    <3>1. stack'[k] = stack[k]
      BY <2>1, <2>4, <1>6 DEF Moved
    <3>2. k + 1 \in 1 .. top
      BY <2>1, <2>2, <2>4
    <3>3. stack'[k + 1].i = stack[k + 1].i
      BY <2>1, <2>2, <3>2, <1>2, <1>4, <1>6 DEF Moved
    <3>4. Reached(k)' = Reached(k)
      BY <2>1, <2>4, <3>3 DEF Reached
    <3> QED
      BY <2>1, <3>1, <3>4 DEF IInv, Swept
  <2> QED
    BY <2>3, <2>4
<1> QED
  BY <1>6, <1>9, <1>10, <1>11 DEF IInv

(* ~Entity begins with a sweep. *)
LEMMA DestructEntityKeeps ==
  ASSUME IInv, DestructEntity
  PROVE  IInv'
<1>1. /\ stack # <<>> /\ Top.op = "Remove" /\ Top.at = "client"
      /\ UNCHANGED <<memory, registry>>
  BY DEF DestructEntity, In
<1>2. PICK len, h : len = Len(stack) - 1 /\ h = Front(stack)
  OBVIOUS
<1>3. /\ len \in Nat /\ len + 1 = Len(stack) /\ DOMAIN stack = 1 .. len + 1
      /\ Top = stack[len + 1]
      /\ h \in Seq(Operation) /\ Len(h) = len /\ DOMAIN h = 1 .. len
      /\ \A k \in 1 .. len : h[k] = stack[k]
  BY <1>1, <1>2, AroundTop
<1>4. len + 1 \in DOMAIN stack /\ Top \in Operation /\ FrameOK(Top) /\ RoomLeft(Top, len + 1)
  BY <1>1, <1>3, StackFacts
<1>5. PICK e \in Entities : e = Top.e /\ Top.n = None /\ Top.c = None /\ Top.owed = {}
  BY <1>1, <1>4 DEF FrameOK, Operation
<1>6. PICK f : f = [Top EXCEPT !.at = "delete"]
  OBVIOUS
<1>7. /\ f \in Operation /\ f.op = "Remove" /\ f.e = e /\ f.n = None /\ f.c = None
      /\ f.at = "delete" /\ f.owed = {} /\ f.seen = Top.seen /\ f.late = Top.late
      /\ f.i = Top.i
  <2>1. PICK t \in Operation : t = Top
    BY <1>4
  <2>2. f = [t EXCEPT !.at = "delete"]
    BY <2>1, <1>6
  <2>3. /\ f \in Operation /\ f.op = t.op /\ f.e = t.e /\ f.n = t.n /\ f.c = t.c /\ f.i = t.i
        /\ f.at = "delete" /\ f.owed = t.owed /\ f.seen = t.seen /\ f.late = t.late
    BY <2>2 DEF Operation
  <2> QED
    BY <2>1, <2>3, <1>1, <1>5
<1>8. PICK g : g = Sweep(e)
  OBVIOUS
<1>9. /\ g \in Operation /\ g.op = "RemoveAllComponent" /\ g.e = e /\ g.n = None /\ g.c = None
      /\ g.at = "scan" /\ g.owed = {} /\ g.seen = {} /\ g.i = 1
  BY <1>8 DEF Sweep, Frame, Operation
<1>10. /\ stack' \in Seq(Operation) /\ Len(stack') = len + 2 /\ DOMAIN stack' = 1 .. len + 2
       /\ stack'[len + 1] = f /\ stack'[len + 2] = g
       /\ \A k \in 1 .. len : stack'[k] = stack[k]
       /\ \A k \in 1 .. len + 2 : k \in 1 .. len \/ k = len + 1 \/ k = len + 2
  <2>1. stack' = Append(h, f) \o <<g>>
    BY <1>2, <1>5, <1>6, <1>8 DEF DestructEntity
  <2>2. f \in Operation /\ g \in Operation /\ h \in Seq(Operation)
    BY <1>7, <1>9, <1>3
  <2>3. PICK u : u = PushTwo(h, f, g)
    OBVIOUS
  <2>4. /\ u \in Seq(Operation) /\ Len(h) \in Nat /\ Len(u) = Len(h) + 2
        /\ DOMAIN h = 1 .. Len(h) /\ DOMAIN u = 1 .. Len(h) + 2
        /\ u[Len(h) + 1] = f /\ u[Len(h) + 2] = g /\ \A k \in 1 .. Len(h) : u[k] = h[k]
        /\ \A k \in DOMAIN u : k \in 1 .. Len(h) \/ k = Len(h) + 1 \/ k = Len(h) + 2
    BY <2>2, <2>3, PushedTwice DEF PushTwo
  <2>5. u = stack'
    BY <2>1, <2>2, <2>3 DEF PushTwo
  <2> QED
    BY <2>4, <2>5, <1>3
<1>11. \A k \in 1 .. len + 1 :
         /\ k \in DOMAIN stack
         /\ stack'[k].op = stack[k].op /\ stack'[k].e = stack[k].e /\ stack'[k].n = stack[k].n
         /\ stack'[k].c = stack[k].c /\ stack'[k].i = stack[k].i
         /\ stack'[k].owed = stack[k].owed /\ stack'[k].seen = stack[k].seen
         /\ stack'[k].at = "visit" <=> stack[k].at = "visit"
  <2>1. \A k \in 1 .. len : k \in DOMAIN stack /\ stack'[k] = stack[k]
    BY <1>3, <1>10
  <2>2. \A k \in 1 .. len + 1 : k \in 1 .. len \/ k = len + 1
    BY <1>3
  <2>3. /\ f.op = Top.op /\ f.e = Top.e /\ f.n = Top.n /\ f.c = Top.c /\ f.i = Top.i
        /\ f.owed = Top.owed /\ f.seen = Top.seen
        /\ f.at = "visit" <=> Top.at = "visit"
    BY <1>1, <1>5, <1>7
  <2>4. len + 1 \in DOMAIN stack /\ stack'[len + 1] = f /\ stack[len + 1] = Top
    BY <1>3, <1>4, <1>10
  <2> QED
    BY <2>1, <2>2, <2>3, <2>4, Zenon
<1>12. UNCHANGED memory /\ UNCHANGED registry
  BY <1>1
<1>13. /\ live' = live /\ component_list' = component_list /\ class' = class /\ owned' = owned
       /\ entities' = entities /\ entity_list' = entity_list /\ node' = node
  BY <1>1 DEF memory, registry
<1>14. FramesOK'
  <2>1. FrameOK(f) /\ FrameOK(g) /\ RoomLeft(f, len + 1) /\ RoomLeft(g, len + 2)
    BY <1>1, <1>4, <1>5, <1>7, <1>9 DEF FrameOK, RoomLeft
  <2>2. \A k \in 1 .. len : FrameOK(stack[k]) /\ RoomLeft(stack[k], k)
    BY <1>3, StackFacts
  <2>3. \A k \in 1 .. len + 2 : FrameOK(stack'[k]) /\ RoomLeft(stack'[k], k)
    BY <2>1, <2>2, <1>10
  <2>4. ASSUME NEW k \in 1 .. len
        PROVE  Nested(stack'[k], stack'[k + 1])
    <3>1. k + 1 \in 1 .. len + 1 /\ k # len + 1 /\ k \in DOMAIN stack
      BY <1>3
    <3>2. Nested(stack[k], stack[k + 1])
      BY <3>1, <1>3 DEF IInv, FramesOK
    <3> QED
      BY <3>1, <3>2, <1>10, <1>11 DEF Nested
  <2>5. Nested(f, g)
    BY <1>7, <1>9 DEF Nested
  <2>6. \A k \in 1 .. len + 2 : k # len + 2 => Nested(stack'[k], stack'[k + 1])
    <3> SUFFICES ASSUME NEW k \in 1 .. len + 2, k # len + 2
                 PROVE  Nested(stack'[k], stack'[k + 1])
      OBVIOUS
    <3>1. CASE k = len + 1
      <4>1. k + 1 = len + 2
        BY <3>1, <1>3
      <4> QED
        BY <3>1, <4>1, <2>5, <1>3, <1>10
    <3>2. CASE k # len + 1
      BY <3>2, <2>4, <1>3
    <3> QED
      BY <3>1, <3>2
  <2> QED
    BY <2>3, <2>6, <1>10 DEF FramesOK
<1>15. Len(stack') <= MaxDepth
  BY <1>1, <1>4, <1>3, <1>10 DEF RoomLeft
<1>16. TypeOK'
  BY <1>13, <1>15 DEF IInv, TypeOK
<1>17. NodesOK'
  <2>1. WalkOK(g)
    BY <1>9 DEF WalkOK
  <2> QED
    BY <2>1, <1>9, <1>3, <1>10, <1>11, <1>12, <1>14, NodesKept
<1>18. EntityPlaces'
  <2>1. e \in live
    BY <1>4, <1>5, <1>3 DEF IInv, EntityPlaces
  <2> QED
    BY <2>1, <1>9, <1>3, <1>10, <1>11, <1>13, EntitiesKept
<1>19. ComponentPlaces'
  BY <1>9, <1>3, <1>10, <1>11, <1>12, ComponentsKept
<1>20. Swept'
  <2> SUFFICES ASSUME NEW k \in DOMAIN stack', stack'[k].op = "Remove",
                      NEW j \in Classes, component_list[stack'[k].e][j] # None
               PROVE  /\ stack'[k].at \in {"client", "delete"} =>
                           component_list[stack'[k].e][j] \in stack'[k].late
                      /\ stack'[k].at = "announce" =>
                           component_list[stack'[k].e][j] \in stack'[k].late \/ j >= Reached(k)'
                      /\ stack'[k].at = "delete" => j >= Reached(k)'
    BY <1>13 DEF Swept
  <2>1. k \in 1 .. len + 1
    BY <1>9, <1>3, <1>10
  <2>2. CASE k = len + 1
    <3>1. Reached(k)' = 1
      <4>1. k # Len(stack') /\ k + 1 = len + 2
        BY <2>2, <1>3, <1>10
      <4> QED
        BY <4>1, <1>9, <1>3, <1>10 DEF Reached
    <3>2. component_list[e][j] # None => component_list[e][j] \in Top.late
      BY <1>1, <1>4, <1>5, <1>3 DEF IInv, Swept
    <3> QED
      BY <2>2, <3>1, <3>2, <1>7, <1>10 DEF Classes
  <2>3. CASE k # len + 1
    <3>1. k \in 1 .. len /\ k + 1 \in 1 .. len + 1 /\ k # Len(stack) /\ k # Len(stack')
      BY <2>1, <2>3, <1>3, <1>10
    <3>2. stack'[k + 1].i = stack[k + 1].i
      BY <3>1, <1>11
    <3>3. Reached(k)' = Reached(k)
      BY <3>1, <3>2 DEF Reached
    <3> QED
      BY <3>1, <3>3, <1>3, <1>10 DEF IInv, Swept
  <2> QED
    BY <2>2, <2>3
<1> QED
  BY <1>14, <1>16, <1>17, <1>18, <1>19, <1>20 DEF IInv

(* The entity is deleted, without components. *)
LEMMA DeleteEntityKeeps ==
  ASSUME IInv, DeleteEntity
  PROVE  IInv'
<1>1. /\ stack # <<>> /\ Top.op = "Remove" /\ Top.at = "delete" /\ Return
      /\ live' = live \ {Top.e} /\ component_list' = [component_list EXCEPT ![Top.e] = NoComponents]
      /\ class' = class /\ owned' = owned /\ UNCHANGED registry
  BY DEF DeleteEntity, In
<1>2. PICK top \in DOMAIN stack : /\ top = Len(stack) /\ Top = stack[top]
                                  /\ Top \in Operation /\ FrameOK(Top)
                                  /\ DOMAIN stack = 1 .. top /\ top \in Nat
  BY <1>1, StackFacts
<1>3. PICK e \in Entities : e = Top.e /\ Top.n = None /\ Top.c = None
  BY <1>1, <1>2 DEF FrameOK, Operation
<1>4. FramesOK' /\ Shrunk /\ Len(stack') <= MaxDepth
  BY <1>1, ReturnShape
<1>5. \A j \in Classes : component_list[e][j] = None
  <2>1. Reached(top) = ClassCount + 1
    BY <1>2 DEF Reached
  <2>2. \A j \in Classes : ~ (j >= ClassCount + 1)
    BY DEF Classes
  <2> QED
    BY <2>1, <2>2, <1>1, <1>2, <1>3 DEF IInv, Swept
<1>6. component_list' = component_list
  <2>1. component_list \in [Entities -> [Classes -> Components \cup {None}]]
    BY DEF IInv, TypeOK
  <2>2. component_list[e] = NoComponents
    BY <2>1, <1>5 DEF NoComponents
  <2> QED
    BY <2>1, <2>2, <1>1, <1>3
<1>7. entities' = entities /\ entity_list' = entity_list /\ node' = node
  BY <1>1 DEF registry
<1>8. live' = live \ {e} /\ live' \subseteq Entities
  BY <1>1, <1>3 DEF IInv, TypeOK
<1>9. TypeOK'
  BY <1>1, <1>4, <1>6, <1>7, <1>8 DEF IInv, TypeOK
<1>10. NodesOK'
  BY <1>1, <1>3, <1>4, ShrunkKeeps
<1>11. Swept'
  BY <1>1, <1>4, <1>6, ShrunkKeeps
<1>12. /\ \A k \in DOMAIN stack' : k \in DOMAIN stack /\ k # top /\ k < top /\ stack'[k] = stack[k]
       /\ \A k \in DOMAIN stack : k # top => k \in DOMAIN stack'
  BY <1>2, <1>4 DEF Shrunk
<1>13. EntityPlaces'
  <2>1. \A d \in Entities : Registered(d)' <=> Registered(d)
    BY <1>7 DEF Registered
  <2>2. \A k \in DOMAIN stack' : stack'[k].e # e
    <3>1. \A k \in DOMAIN stack' : stack[k].e # None => stack[k].e # stack[top].e
      BY <1>1, <1>2, <1>12 DEF IInv, EntityPlaces
    <3> QED
      BY <3>1, <1>2, <1>3, <1>12
  <2>3. \A d \in Entities : Removing(d)' <=> Removing(d) /\ d # e
    BY <2>2, <1>1, <1>2, <1>3, <1>12 DEF Removing
  <2>4. Removing(e)
    BY <1>1, <1>2, <1>3 DEF Removing
  <2>5. \A d \in Entities : /\ d \in live <=> Registered(d) \/ Removing(d)
                            /\ ~ (Registered(d) /\ Removing(d))
    BY DEF IInv, EntityPlaces
  <2>6. \A d \in Entities : /\ d \in live' <=> Registered(d)' \/ Removing(d)'
                            /\ ~ (Registered(d)' /\ Removing(d)')
    BY <2>1, <2>3, <2>4, <2>5, <1>8
  <2>7. \A k \in DOMAIN stack' : stack'[k].e # None => stack'[k].e \in live'
    BY <2>2, <1>8, <1>12 DEF IInv, EntityPlaces
  <2>8. \A j, k \in DOMAIN stack' : j < k /\ stack'[j].e # None =>
          /\ stack'[k].op = "Remove" => stack'[j].e # stack'[k].e
          /\ stack'[k].op = "RemoveAllEntity" => ~ Registered(stack'[j].e)
    BY <1>12 DEF IInv, EntityPlaces
  <2> QED
    BY <2>6, <2>7, <2>8, <1>7 DEF EntityPlaces, Registered
<1>14. ComponentPlaces'
  <2>1. \A c \in Components : \A k : k \in Takers(c)' <=> k \in Takers(c)
    <3>1. \A c \in Components : top \notin Takers(c)
      BY <1>2, <1>3 DEF Takers
    <3>2. \A c \in Components : \A k : k \in Takers(c)' <=> k \in Takers(c) /\ k # top
      BY <1>12 DEF Takers
    <3> QED
      BY <3>1, <3>2
  <2>2. \A c \in Components : Takers(c)' = Takers(c)
    BY <2>1 DEF Takers
  <2>3. \A c \in Components : Placed(c)' <=> Placed(c)
    BY <1>6 DEF Placed
  <2>4. ASSUME NEW d \in Entities, NEW k \in Classes, NEW c \in Components,
               component_list'[d][k] = c
        PROVE  /\ class'[c] = k /\ d \in live' /\ c \notin owned' /\ Takers(c)' = {}
               /\ \A a \in Entities : component_list'[a][k] = c => a = d
    <3>1. d # e
      BY <2>4, <1>5, <1>6
    <3>2. /\ class[c] = k /\ d \in live /\ c \notin owned /\ Takers(c) = {}
          /\ \A a \in Entities : component_list[a][k] = c => a = d
      BY <2>4, <1>6 DEF IInv, ComponentPlaces
    <3> QED
      BY <2>2, <3>1, <3>2, <1>1, <1>6, <1>8
  <2>5. \A c \in Components :
          /\ class'[c] # 0 <=> Placed(c)' \/ c \in owned' \/ Takers(c)' # {}
          /\ c \in owned' => Takers(c)' = {}
          /\ \A j, k \in Takers(c)' : j = k
    BY <2>2, <2>3, <1>1 DEF IInv, ComponentPlaces
  <2> QED
    BY <2>4, <2>5 DEF ComponentPlaces
<1> QED
  BY <1>4, <1>9, <1>10, <1>11, <1>13, <1>14 DEF IInv

-----------------------------------------------------------------------------
(* Steps that take or drop a reference to a node. *)

(* The list is what it was, without the nodes that lost their last           *)
(* reference.                                                                *)
ListKept ==
  /\ \A a \in Nodes : Contains(entity_list', a) <=> Contains(entity_list, a) /\ node'[a].ref > 0
  /\ \A a, b \in Nodes : Before(entity_list, a, b) /\ node'[a].ref > 0 /\ node'[b].ref > 0 =>
       Before(entity_list', a, b)

(* A linked node changed: it is unlinked with its last reference.            *)
LEMMA StoreFacts ==
  ASSUME IInv, NEW n \in Nodes, Contains(entity_list, n), NEW r \in EntityNode, Store(n, r)
  PROVE  /\ node' \in [Nodes -> EntityNode]
         /\ node'[n] = r /\ \A a \in Nodes : a # n => node'[a] = node[a]
         /\ entity_list' \in Seq(Nodes) /\ IsInjective(entity_list')
         /\ ListKept /\ Linked'
<1>1. node \in [Nodes -> EntityNode] /\ entity_list \in Seq(Nodes) /\ IsInjective(entity_list)
  BY DEF IInv, TypeOK, NodesOK, EntityNode
<1>2. /\ node' \in [Nodes -> EntityNode]
      /\ node'[n] = r /\ \A a \in Nodes : a # n => node'[a] = node[a]
  BY <1>1 DEF Store
<1>3. \A a \in Nodes : Contains(entity_list, a) <=> node[a].ref > 0
  BY DEF IInv, NodesOK, Linked
<1>4. CASE r.ref = 0
  <2>1. entity_list' = Unlinked(entity_list, {n})
    BY <1>4 DEF Store
  <2>2. /\ entity_list' \in Seq(Nodes) /\ IsInjective(entity_list')
        /\ \A a : Contains(entity_list', a) <=> Contains(entity_list, a) /\ a \notin {n}
        /\ \A a, b : Before(entity_list', a, b) <=>
             Before(entity_list, a, b) /\ a \notin {n} /\ b \notin {n}
    BY <1>1, <2>1, UnlinkedProperties
  <2>3. \A a \in Nodes : Contains(entity_list, a) => (a \notin {n} <=> node'[a].ref > 0)
    BY <1>2, <1>3, <1>4
  <2>4. \A a \in Nodes : node'[a].ref > 0 => a \notin {n}
    BY <1>2, <1>4
  <2>5. ListKept
    BY <2>2, <2>3, <2>4 DEF ListKept
  <2>6. Linked'
    BY <2>2, <2>3, <2>4, <1>2, <1>3 DEF Linked
  <2> QED
    BY <2>2, <2>5, <2>6, <1>2
<1>5. CASE r.ref # 0
  <2>1. entity_list' = entity_list
    BY <1>5 DEF Store
  <2>2. r.ref > 0
    BY <1>5 DEF EntityNode
  <2>3. \A a \in Nodes : Contains(entity_list, a) <=> node'[a].ref > 0
    BY <2>2, <1>2, <1>3
  <2> QED
    BY <2>1, <2>3, <1>1, <1>2 DEF ListKept, Linked
<1> QED
  BY <1>4, <1>5

(* A walk that stands where it stood, at a node still referenced, goes on    *)
(* with what it owes and is still attached.                                  *)
LEMMA WalkKept ==
  ASSUME IInv, ListKept, Linked', NEW f \in Operation, WalkOK(f), NEW g \in Operation,
         g.n = f.n, g.at = f.at \/ g.n \notin g.owed \ g.seen, g.owed \subseteq f.owed,
         g.owed \ g.seen \subseteq f.owed \ f.seen,
         g.n # None => node'[g.n].ref > 0,
         \A a \in g.owed : Attached(a)' /\ node'[a].ref > 0
  PROVE  WalkOK(g)'
<1>1. g.n \in Nodes \cup {None} /\ g.owed \in SUBSET Nodes
  BY DEF Operation
<1>2. g.n # None => Contains(entity_list', g.n)
  BY <1>1 DEF WalkOK, ListKept
<1>3. ASSUME NEW a \in g.owed \ g.seen
      PROVE  /\ g.n # None
             /\ Before(entity_list', g.n, a) \/ (a = g.n /\ g.at = "visit")
  <2>1. f.n # None /\ (Before(entity_list, f.n, a) \/ (a = f.n /\ f.at = "visit"))
    BY <1>3 DEF WalkOK
  <2>2. Before(entity_list, g.n, a) => Before(entity_list', g.n, a)
    BY <2>1, <1>1, <1>3 DEF ListKept
  <2> QED
    BY <2>1, <2>2, <1>3
<1> QED
  BY <1>2, <1>3 DEF WalkOK

(* A walk comes to a node and takes a reference to it.                       *)
LEMMA ReferencedKeeps ==
  ASSUME IInv, stack # <<>>, Top.at = "visit", Top.n # None,
         Store(Top.n, Referenced(node[Top.n])), UNCHANGED <<memory, entities>>,
         NEW g \in Operation, Become(g), FrameOK(g), g.op = Top.op, g.e = Top.e, g.c = Top.c,
         g.n = Top.n, g.at # "visit", g.owed = Top.owed, Top.seen \subseteq g.seen,
         Top.n \in g.owed => Top.n \in g.seen
  PROVE  IInv'
<1>1. PICK top \in DOMAIN stack, f \in Operation, n \in Nodes :
        /\ top = Len(stack) /\ f = Top /\ f = stack[top] /\ n = f.n /\ f.at = "visit"
        /\ FrameOK(f) /\ WalkOK(f) /\ Contains(entity_list, n)
  BY StackFacts DEF Operation, WalkOK
<1>2. FramesOK' /\ Moved(g) /\ Len(stack') <= MaxDepth
  BY <1>1, BecomeShape
<1>3. /\ DOMAIN stack' = DOMAIN stack
      /\ stack'[top] = g /\ \A k \in DOMAIN stack : k # top => stack'[k] = stack[k]
  BY <1>1, <1>2 DEF Moved
<1>4. PICK r \in EntityNode :
        Store(n, r) /\ r.entity = node[n].entity /\ r.ref = node[n].ref + 1
  <2>1. node[n] \in EntityNode
    BY NodeFacts
  <2> QED
    BY <2>1, <1>1 DEF Referenced, EntityNode
<1>5. /\ node' \in [Nodes -> EntityNode]
      /\ node'[n] = r /\ \A a \in Nodes : a # n => node'[a] = node[a]
      /\ entity_list' \in Seq(Nodes) /\ IsInjective(entity_list')
      /\ ListKept /\ Linked'
  BY <1>1, <1>4, StoreFacts
<1>6. \A a \in Nodes : /\ node'[a].entity = node[a].entity /\ (Attached(a)' <=> Attached(a))
                       /\ node[a].ref > 0 => node'[a].ref > 0
  <2>1. \A a \in Nodes : node'[a].entity = node[a].entity
    BY <1>4, <1>5
  <2>2. node[n].ref \in Nat
    BY NodeFacts
  <2> QED
    BY <2>1, <2>2, <1>4, <1>5 DEF Attached
<1>7. /\ live' = live /\ component_list' = component_list /\ class' = class /\ owned' = owned
      /\ entities' = entities /\ UNCHANGED memory
  BY DEF memory
<1>8. TypeOK'
  BY <1>2, <1>5, <1>7 DEF IInv, TypeOK, EntityNode
<1>9. Walks'
  <2>1. \A a \in Nodes : Attached(a) \/ Contains(entity_list, a) => node'[a].ref > 0
    <3>1. \A a \in Nodes : Attached(a) \/ Contains(entity_list, a) => node[a].ref > 0
      BY NodeFacts DEF EntityNode
    <3> QED
      BY <3>1, <1>6
  <2>2. ASSUME NEW k \in DOMAIN stack, k # top PROVE WalkOK(stack[k])'
    <3>1. stack[k] \in Operation /\ WalkOK(stack[k])
      BY StackFacts
    <3>2. PICK h \in Operation : h = stack[k] /\ WalkOK(h)
      BY <3>1
    <3>3. h.n # None => node'[h.n].ref > 0
      BY <3>2, <2>1 DEF WalkOK, Operation
    <3>4. \A a \in h.owed : Attached(a)' /\ node'[a].ref > 0
      BY <3>2, <2>1, <1>6 DEF WalkOK, Operation
    <3>5. WalkOK(h)'
      BY <3>2, <3>3, <3>4, <1>5, WalkKept
    <3> QED
      BY <3>2, <3>5, <2>2, <1>3 DEF WalkOK
  <2>3. WalkOK(g)'
    <3>1. g.n # None => node'[g.n].ref > 0
      BY <2>1, <1>1
    <3>2. \A a \in g.owed : Attached(a) /\ a \in Nodes
      BY <1>1 DEF WalkOK, Operation
    <3>3. \A a \in g.owed : Attached(a)' /\ node'[a].ref > 0
      BY <3>2, <2>1, <1>6
    <3>4. g.n \notin g.owed \ g.seen
      OBVIOUS
    <3> QED
      BY <3>1, <3>3, <3>4, <1>1, <1>5, WalkKept
  <2> QED
    BY <2>2, <2>3, <1>3 DEF Walks
<1>10. Counts'
  <2>1. \A a \in Nodes : a # n => \A k : k \in Holders(a)' <=> k \in Holders(a)
    BY <1>1, <1>2, <1>3, HoldersAre DEF IInv
  <2>2. /\ \A k : k \in Holders(n)' <=> k \in Holders(n) \/ k = top
        /\ top \notin Holders(n)
    BY <1>1, <1>2, <1>3, HoldersAre DEF IInv
  <2>3. \A a \in Nodes : a # n => Holders(a)' = Holders(a)
    BY <2>1 DEF Holders
  <2>4. Holders(n)' = Holders(n) \cup {top}
    BY <2>2 DEF Holders
  <2>5. Cardinality(Holders(n)') = Cardinality(Holders(n)) + 1 /\ Cardinality(Holders(n)) \in Nat
    <3>1. IsFiniteSet(Holders(n)) /\ Cardinality(Holders(n)) \in Nat
      BY HoldersAre DEF IInv
    <3>2. Cardinality(Holders(n) \cup {top}) = Cardinality(Holders(n)) + 1
      BY <2>2, <3>1, FS_AddElement
    <3> QED
      BY <2>4, <3>1, <3>2
  <2>6. node[n].ref = Cardinality(Holders(n)) + (IF Attached(n) THEN 1 ELSE 0)
    BY DEF IInv, NodesOK, Counts, RefCountExact
  <2>7. node'[n].ref = Cardinality(Holders(n)') + (IF Attached(n)' THEN 1 ELSE 0)
    BY <2>5, <2>6, <1>4, <1>5, <1>6
  <2> QED
    BY <2>3, <2>7, <1>5, <1>6 DEF IInv, NodesOK, Counts, RefCountExact
<1>11. Entries'
  BY <1>6, <1>7 DEF IInv, NodesOK, Entries
<1>12. NodesOK'
  BY <1>5, <1>9, <1>10, <1>11 DEF NodesOK
<1>13. EntityPlaces' /\ ComponentPlaces' /\ Swept'
  <2>1. g.op # "Remove" /\ g.op # "RemoveAllComponent"
    BY <1>1 DEF FrameOK
  <2>2. \A d \in Entities, j \in Classes :
          component_list'[d][j] \in {component_list[d][j], None}
    BY <1>7
  <2> QED
    BY <2>1, <2>2, <1>2, <1>7, MovedKeeps
<1> QED
  BY <1>2, <1>8, <1>12, <1>13 DEF IInv

(* ForeachEntity comes to a node: it owes its entity no more than this call. *)
LEMMA CallVisitedKeeps ==
  ASSUME IInv, CallVisited
  PROVE  IInv'
<1>1. stack # <<>> /\ Top.op = "ForeachEntity" /\ Top.at = "visit" /\ Top.n # None
  BY DEF CallVisited, In
<1>2. PICK f \in Operation : f = Top /\ FrameOK(f) /\ WalkOK(f)
  BY <1>1, StackFacts
<1>3. Store(Top.n, Referenced(node[Top.n])) /\ UNCHANGED <<memory, entities>>
  BY DEF CallVisited
<1>4. CASE ~ Attached(f.n)
  <2>1. PICK g : g = [f EXCEPT !.at = "leave"]
    OBVIOUS
  <2>2. /\ g \in Operation /\ g.op = f.op /\ g.e = f.e /\ g.n = f.n /\ g.c = f.c
        /\ g.at = "leave" /\ g.owed = f.owed /\ g.seen = f.seen
    BY <2>1 DEF Operation
  <2>3. Become(g)
    BY <2>1, <1>2, <1>4 DEF CallVisited, Attached
  <2>4. FrameOK(g)
    BY <1>1, <1>2, <2>2 DEF FrameOK
  <2>5. f.n \notin f.owed
    BY <1>2, <1>4 DEF WalkOK
  <2> QED
    BY <2>2, <2>3, <2>4, <2>5, <1>1, <1>2, <1>3, ReferencedKeeps
<1>5. CASE Attached(f.n)
  <2>1. PICK g : g = [f EXCEPT !.at = "client", !.seen = @ \cup {f.n}]
    OBVIOUS
  <2>2. /\ g \in Operation /\ g.op = f.op /\ g.e = f.e /\ g.n = f.n /\ g.c = f.c
        /\ g.at = "client" /\ g.owed = f.owed /\ g.seen = f.seen \cup {f.n}
    BY <2>1, <1>1, <1>2 DEF Operation
  <2>3. Become(g)
    BY <2>1, <1>2, <1>5 DEF CallVisited, Attached
  <2>4. FrameOK(g)
    BY <1>1, <1>2, <2>2 DEF FrameOK
  <2> QED
    BY <2>2, <2>3, <2>4, <1>1, <1>2, <1>3, ReferencedKeeps
<1> QED
  BY <1>4, <1>5

(* Of the holders of node n the innermost operation is one no more.          *)
Released(n, top) ==
  /\ top \in Holders(n)
  /\ \A k : k \in Holders(n)' <=> k \in Holders(n) /\ k # top
  /\ \A a \in Nodes : a # n => Holders(a)' = Holders(a)
  /\ \A k \in DOMAIN stack' : k # top => k \in DOMAIN stack /\ stack'[k] = stack[k]

(* A reference is dropped: the node goes only if nobody else stands there    *)
(* and its entity was removed.                                               *)
LEMMA ReleasedNodes ==
  ASSUME IInv, stack # <<>>, FramesOK', NEW n \in Nodes, NEW top, top = Len(stack),
         Released(n, top), Store(n, Dereferenced(node[n])), entities' = entities
  PROVE  /\ node' \in [Nodes -> EntityNode] /\ entity_list' \in Seq(Nodes)
         /\ IsInjective(entity_list') /\ ListKept /\ Linked' /\ Entries' /\ Counts'
         /\ \A a \in Nodes : (Attached(a)' <=> Attached(a)) /\ (Attached(a) => node'[a].ref > 0)
         /\ \A a \in Nodes : a # n /\ Contains(entity_list, a) => node'[a].ref > 0
         /\ \A k \in DOMAIN stack' : k # top => WalkOK(stack[k])'
<1>1. /\ top \in Holders(n) /\ Holders(n)' = Holders(n) \ {top}
      /\ \A a \in Nodes : a # n => Holders(a)' = Holders(a)
  <2>1. \A k : k \in Holders(n)' <=> k \in Holders(n) \ {top}
    BY DEF Released
  <2> QED
    BY <2>1 DEF Released, Holders
<1>2. /\ node[n] \in EntityNode /\ node[n].ref \in Nat \ {0}
      /\ Attached(n) => node[n].ref # 1
      /\ Contains(entity_list, n)
  BY <1>1, NodeFacts
<1>3. PICK r \in EntityNode :
        Store(n, r) /\ r.entity = node[n].entity /\ r.ref = node[n].ref - 1
  BY <1>2 DEF Dereferenced, EntityNode
<1>4. /\ node' \in [Nodes -> EntityNode]
      /\ node'[n] = r /\ \A a \in Nodes : a # n => node'[a] = node[a]
      /\ entity_list' \in Seq(Nodes) /\ IsInjective(entity_list')
      /\ ListKept /\ Linked'
  BY <1>2, <1>3, StoreFacts
<1>5. \A a \in Nodes : /\ node'[a].entity = node[a].entity /\ (Attached(a)' <=> Attached(a))
                       /\ Attached(a) => node'[a].ref > 0
  <2>1. \A a \in Nodes : node'[a].entity = node[a].entity
    BY <1>3, <1>4
  <2>2. \A a \in Nodes : Attached(a) => node[a].ref > 0
    BY NodeFacts
  <2>3. Attached(n) => node'[n].ref > 0
    BY <1>2, <1>3, <1>4
  <2> QED
    BY <2>1, <2>2, <2>3, <1>4 DEF Attached
<1>6. Entries'
  BY <1>5 DEF IInv, NodesOK, Entries
<1>7. \A a \in Nodes : a # n /\ Contains(entity_list, a) => node'[a].ref > 0
  BY <1>4, NodeFacts
<1>8. Counts' /\ (Holders(n)' # {} => node'[n].ref > 0)
  <2>1. IsFiniteSet(Holders(n)) /\ Cardinality(Holders(n)) \in Nat
    BY HoldersAre DEF IInv
  <2>2. Cardinality(Holders(n) \ {top}) = Cardinality(Holders(n)) - 1
    BY <1>1, <2>1, FS_RemoveElement
  <2>3. node[n].ref = Cardinality(Holders(n)) + (IF Attached(n) THEN 1 ELSE 0)
    BY DEF IInv, NodesOK, Counts, RefCountExact
  <2>4. node'[n].ref = Cardinality(Holders(n)') + (IF Attached(n)' THEN 1 ELSE 0)
    BY <2>1, <2>2, <2>3, <1>1, <1>3, <1>4, <1>5
  <2>5. Counts'
    BY <2>4, <1>1, <1>4, <1>5 DEF IInv, NodesOK, Counts, RefCountExact
  <2>6. ASSUME Holders(n)' # {}
        PROVE  node'[n].ref > 0
    <3>1. PICK h : h = Holders(n)'
      OBVIOUS
    <3>2. IsFiniteSet(h) /\ Cardinality(h) \in Nat /\ h # {}
      BY <3>1, <2>6, HoldersAre
    <3>3. Cardinality(h) # 0
      BY <3>2, FS_EmptySet
    <3> QED
      BY <2>4, <3>1, <3>2, <3>3
  <2> QED
    BY <2>5, <2>6
<1>9. ASSUME NEW k \in DOMAIN stack', k # top
      PROVE  WalkOK(stack[k])'
  <2>1. PICK h \in Operation : /\ k \in DOMAIN stack /\ h = stack[k] /\ h = stack'[k]
                               /\ WalkOK(h) /\ FrameOK(h)
    BY <1>9, StackFacts DEF Released
  <2>2. h.n # None => node'[h.n].ref > 0
    <3>1. CASE h.n = n
      <4>1. DOMAIN stack = 1 .. top /\ top \in Nat
        BY StackFacts
      <4>2. Nested(stack[k], stack[k + 1])
        BY <2>1, <1>9, <4>1 DEF IInv, FramesOK
      <4>3. h.at # "visit"
        BY <2>1, <4>2 DEF Nested
      <4>4. k \in Holders(n)
        BY <2>1, <3>1, <4>3, HoldersAre DEF IInv
      <4> QED
        BY <3>1, <4>4, <1>1, <1>8, <1>9
    <3>2. CASE h.n # n
      BY <2>1, <3>2, <1>7 DEF WalkOK, Operation
    <3> QED
      BY <3>1, <3>2
  <2>3. \A a \in h.owed : Attached(a)' /\ node'[a].ref > 0
    BY <2>1, <1>5 DEF WalkOK, Operation
  <2>4. WalkOK(h)'
    BY <2>1, <2>2, <2>3, <1>4, WalkKept
  <2> QED
    BY <2>1, <2>4 DEF WalkOK
<1> QED
  BY <1>4, <1>5, <1>6, <1>7, <1>8, <1>9

(* AddEntity, or a ForeachEntity told to stop, drops its reference.          *)
LEMMA HolderReturnsKeeps ==
  ASSUME IInv, AddEntityReturns \/ CallbackSaysStop
  PROVE  IInv'
<1>1. /\ stack # <<>> /\ Top.op \in {"AddEntity", "ForeachEntity"} /\ Top.at = "client"
      /\ Return /\ UNCHANGED <<memory, entities>> /\ Store(Top.n, Dereferenced(node[Top.n]))
  BY DEF AddEntityReturns, CallbackSaysStop, In
<1>2. PICK top \in DOMAIN stack : /\ top = Len(stack) /\ Top = stack[top]
                                  /\ Top \in Operation /\ FrameOK(Top)
  BY <1>1, StackFacts
<1>3. PICK n \in Nodes : n = Top.n /\ Top.c = None
  BY <1>1, <1>2 DEF FrameOK, Operation
<1>4. FramesOK' /\ Shrunk /\ Len(stack') <= MaxDepth
  BY <1>1, ReturnShape
<1>5. /\ \A k \in DOMAIN stack' : k \in DOMAIN stack /\ k # top /\ stack'[k] = stack[k]
      /\ \A k \in DOMAIN stack : k # top => k \in DOMAIN stack'
  BY <1>2, <1>4 DEF Shrunk
<1>6. Released(n, top)
  <2>1. top \in Holders(n)
    BY <1>1, <1>2, <1>3, HoldersAre DEF IInv
  <2>2. \A a \in Nodes : \A k : k \in Holders(a)' <=> k \in Holders(a) /\ k # top
    BY <1>4, <1>5, HoldersAre DEF IInv
  <2>3. \A a \in Nodes : a # n => top \notin Holders(a)
    BY <1>2, <1>3, HoldersAre DEF IInv
  <2>4. \A a \in Nodes : a # n => \A k : k \in Holders(a)' <=> k \in Holders(a)
    BY <2>2, <2>3
  <2>5. \A a \in Nodes : a # n => Holders(a)' = Holders(a)
    BY <2>4 DEF Holders
  <2> QED
    BY <2>1, <2>2, <2>5, <1>5 DEF Released
<1>7. /\ live' = live /\ component_list' = component_list /\ class' = class /\ owned' = owned
      /\ entities' = entities /\ UNCHANGED memory
  BY <1>1 DEF memory
<1>8. /\ node' \in [Nodes -> EntityNode] /\ entity_list' \in Seq(Nodes)
      /\ IsInjective(entity_list') /\ Linked' /\ Entries' /\ Counts'
      /\ \A k \in DOMAIN stack' : k # top => WalkOK(stack[k])'
  BY <1>1, <1>2, <1>3, <1>4, <1>6, <1>7, ReleasedNodes
<1>9. TypeOK'
  BY <1>4, <1>7, <1>8 DEF IInv, TypeOK, EntityNode
<1>10. NodesOK'
  BY <1>5, <1>8 DEF NodesOK, Walks
<1>11. EntityPlaces' /\ ComponentPlaces' /\ Swept'
  BY <1>1, <1>3, <1>4, <1>7, ShrunkKeeps
<1> QED
  BY <1>4, <1>9, <1>10, <1>11 DEF IInv

(* A walk leaves its node: the next one comes first in what it still owes.   *)
LEMMA LeaveKeeps ==
  ASSUME IInv, Leave
  PROVE  IInv'
<1>1. /\ stack # <<>> /\ Top.at = "leave" /\ UNCHANGED <<memory, entities>>
      /\ Store(Top.n, Dereferenced(node[Top.n]))
  BY DEF Leave
<1>2. PICK top \in DOMAIN stack, f \in Operation, n \in Nodes :
        /\ top = Len(stack) /\ f = Top /\ f = stack[top] /\ n = f.n /\ f.at = "leave"
        /\ FrameOK(f) /\ WalkOK(f) /\ Contains(entity_list, n)
        /\ f.op \in {"RemoveAllEntity", "ForeachEntity"} /\ f.e = None /\ f.c = None
  BY <1>1, StackFacts DEF Operation, WalkOK, FrameOK
<1>3. PICK l \in Seq(Nodes) : l = entity_list /\ IsInjective(l)
  BY DEF IInv, TypeOK, NodesOK
<1>4. PICK m : m = NextOf(l, n, None)
  OBVIOUS
<1>5. \/ m = None /\ \A a : Contains(l, a) => a = n \/ Before(l, a, n)
      \/ /\ Contains(l, m) /\ m \in Nodes /\ m # n
         /\ \A a : Before(l, n, a) <=> a = m \/ Before(l, m, a)
  <2>1. \/ m = None /\ \A a : Contains(l, a) => a = n \/ Before(l, a, n)
        \/ /\ Contains(l, m)
           /\ \A a : Before(l, a, m) <=> a = n \/ Before(l, a, n)
           /\ \A a : Before(l, n, a) <=> a = m \/ Before(l, m, a)
    BY <1>2, <1>3, <1>4, NextOfProperties
  <2>2. \A a : Contains(l, a) => a \in Nodes
    BY ToSetContains
  <2>3. \A a, b : Before(l, a, b) => a # b
    BY <1>3, BeforeIsOrder
  <2> QED
    BY <2>1, <2>2, <2>3
<1>6. PICK g \in Operation :
        /\ Become(g) /\ g.at = "visit" /\ g.op = f.op /\ g.e = None /\ g.c = None
        /\ g.n = m /\ g.owed = f.owed /\ g.seen = f.seen
  <2>1. PICK g : g = [f EXCEPT !.n = m, !.at = "visit"]
    OBVIOUS
  <2>2. m \in Nodes \cup {None}
    BY <1>5
  <2>3. /\ g \in Operation /\ g.at = "visit" /\ g.op = f.op /\ g.e = None /\ g.c = None
        /\ g.n = m /\ g.owed = f.owed /\ g.seen = f.seen
    BY <2>1, <2>2, <1>2 DEF Operation
  <2>4. Become(g)
    BY <2>1, <1>2, <1>3, <1>4 DEF Leave, NextNode
  <2> QED
    BY <2>3, <2>4
<1>7. FramesOK' /\ Moved(g) /\ Len(stack') <= MaxDepth
  <2>1. FrameOK(g)
    BY <1>2, <1>6 DEF FrameOK
  <2> QED
    BY <2>1, <1>1, <1>2, <1>6, BecomeShape
<1>8. /\ DOMAIN stack' = DOMAIN stack /\ stack'[top] = g
      /\ \A k \in DOMAIN stack : k # top => stack'[k] = stack[k]
  BY <1>2, <1>7 DEF Moved
<1>9. Released(n, top)
  <2>1. top \in Holders(n)
    BY <1>2, HoldersAre DEF IInv
  <2>2. \A a \in Nodes : \A k : k \in Holders(a)' <=> k \in Holders(a) /\ k # top
    <3> SUFFICES ASSUME NEW a \in Nodes, NEW k
                 PROVE  k \in Holders(a)' <=> k \in Holders(a) /\ k # top
      OBVIOUS
    <3>1. FramesOK /\ FramesOK'
      BY <1>7 DEF IInv
    <3>2. k \in Holders(a) <=> k \in DOMAIN stack /\ stack[k].n = a /\ stack[k].at # "visit"
      BY <3>1, HoldersAre
    <3>3. k \in Holders(a)' <=>
            k \in DOMAIN stack' /\ stack'[k].n = a /\ stack'[k].at # "visit"
      BY <3>1, HoldersAre
    <3>4. stack'[top].at = "visit"
      BY <1>6, <1>8
    <3> QED
      BY <3>2, <3>3, <3>4, <1>8
  <2>3. \A a \in Nodes : a # n => top \notin Holders(a)
    BY <1>2, HoldersAre DEF IInv
  <2>4. \A a \in Nodes : a # n => \A k : k \in Holders(a)' <=> k \in Holders(a)
    BY <2>2, <2>3
  <2>5. \A a \in Nodes : a # n => Holders(a)' = Holders(a)
    BY <2>4 DEF Holders
  <2> QED
    BY <2>1, <2>2, <2>5, <1>8 DEF Released
<1>10. /\ live' = live /\ component_list' = component_list /\ class' = class /\ owned' = owned
       /\ entities' = entities /\ UNCHANGED memory
  BY <1>1 DEF memory
<1>11. /\ node' \in [Nodes -> EntityNode] /\ entity_list' \in Seq(Nodes)
       /\ IsInjective(entity_list') /\ ListKept /\ Linked' /\ Entries' /\ Counts'
       /\ \A a \in Nodes : (Attached(a)' <=> Attached(a)) /\ (Attached(a) => node'[a].ref > 0)
       /\ \A a \in Nodes : a # n /\ Contains(entity_list, a) => node'[a].ref > 0
       /\ \A k \in DOMAIN stack' : k # top => WalkOK(stack[k])'
  BY <1>1, <1>2, <1>7, <1>9, <1>10, ReleasedNodes
<1>12. TypeOK'
  BY <1>7, <1>10, <1>11 DEF IInv, TypeOK, EntityNode
<1>13. WalkOK(g)'
  <2>1. \A a \in g.owed : a \in Nodes /\ Attached(a) /\ Attached(a)' /\ node'[a].ref > 0
                          /\ Contains(l, a)
    <3>1. \A a \in g.owed : a \in Nodes /\ Attached(a)
      BY <1>2, <1>6 DEF WalkOK, Operation
    <3>2. \A a \in Nodes : Attached(a) => Contains(l, a)
      BY <1>3, NodeFacts
    <3> QED
      BY <3>1, <3>2, <1>11
  <2>2. \A a \in g.owed \ g.seen : Before(l, n, a)
    BY <1>2, <1>3, <1>6 DEF WalkOK
  <2>3. m # None => m \in Nodes /\ node'[m].ref > 0 /\ Contains(entity_list', m)
    <3>1. m # None => m \in Nodes /\ m # n /\ Contains(l, m)
      BY <1>5
    <3> QED
      BY <3>1, <1>3, <1>11 DEF ListKept
  <2>4. ASSUME NEW a \in g.owed \ g.seen
        PROVE  m # None /\ (Before(entity_list', m, a) \/ a = m)
    <3>1. Before(l, n, a) /\ a # n /\ ~ Before(l, a, n) /\ Contains(l, a)
      BY <2>2, <2>4, <1>3, BeforeIsOrder
    <3>2. m # None /\ (a = m \/ Before(l, m, a))
      BY <3>1, <1>5
    <3> QED
      BY <3>2, <2>1, <2>3, <2>4, <1>3, <1>11 DEF ListKept
  <2> QED
    BY <2>1, <2>3, <2>4, <1>6 DEF WalkOK
<1>14. NodesOK'
  <2>1. Walks'
    BY <1>8, <1>11, <1>13 DEF Walks, WalkOK
  <2> QED
    BY <2>1, <1>11 DEF NodesOK
<1>15. EntityPlaces' /\ ComponentPlaces' /\ Swept'
  <2>1. g.op # "Remove" /\ g.op # "RemoveAllComponent" /\ g.op = Top.op /\ g.e = Top.e /\ g.c = Top.c
    BY <1>2, <1>6
  <2>2. \A d \in Entities, j \in Classes :
          component_list'[d][j] \in {component_list[d][j], None}
    BY <1>10
  <2> QED
    BY <2>1, <2>2, <1>1, <1>7, <1>10, MovedKeeps
<1> QED
  BY <1>7, <1>12, <1>14, <1>15 DEF IInv

-----------------------------------------------------------------------------
(* Steps in which an entity comes or goes. *)

(* A new entity gets a node that nobody holds, behind all others.            *)
LEMMA AddEntityKeeps ==
  ASSUME IInv, AddEntity
  PROVE  IInv'
<1>1. PICK e \in Entities \ live : \E n \in Nodes :
        /\ node[n].ref = 0
        /\ live' = live \cup {e}
        /\ entities' = [entities EXCEPT ![e] = n]
        /\ entity_list' = PushBack(entity_list, n)
        /\ node' = [node EXCEPT ![n] = Referenced([entity |-> e, ref |-> 1])]
        /\ Push(Frame("AddEntity", None, n, None))
  BY DEF AddEntity, PushBack
<1>2. PICK n \in Nodes :
        /\ node[n].ref = 0
        /\ live' = live \cup {e}
        /\ entities' = [entities EXCEPT ![e] = n]
        /\ entity_list' = PushBack(entity_list, n)
        /\ node' = [node EXCEPT ![n] = Referenced([entity |-> e, ref |-> 1])]
        /\ Push(Frame("AddEntity", None, n, None))
  BY <1>1
<1>3. PICK f : f = Frame("AddEntity", None, n, None)
  OBVIOUS
<1>4. /\ ClientRuns /\ Len(stack) < MaxDepth /\ stack' = Append(stack, f)
      /\ component_list' = component_list /\ class' = class /\ owned' = owned
  BY <1>2, <1>3 DEF AddEntity, Push
<1>5. /\ f \in Operation /\ f.op = "AddEntity" /\ f.e = None /\ f.n = n /\ f.c = None
      /\ f.at = "client" /\ f.owed = {} /\ f.seen = {}
  BY <1>3 DEF Frame, Operation
<1>6. FrameOK(f) /\ RoomLeft(f, Len(stack) + 1)
  BY <1>5 DEF FrameOK, RoomLeft
<1>7. FramesOK' /\ Grown(f) /\ Len(stack') <= MaxDepth
  <2>1. stack \in Seq(Operation) /\ \A k \in DOMAIN stack : Alike(stack[k], stack[k])
    BY StackFacts DEF Alike
  <2> QED
    BY <2>1, <1>4, <1>5, <1>6, PushShape
<1>8. PICK top : top = Len(stack) + 1
  OBVIOUS
<1>9. /\ top \notin DOMAIN stack /\ top \in DOMAIN stack' /\ stack'[top] = f
      /\ \A k \in DOMAIN stack' : k \in DOMAIN stack \/ k = top
      /\ \A k \in DOMAIN stack : k \in DOMAIN stack' /\ k < top
  <2>1. DOMAIN stack = 1 .. Len(stack) /\ Len(stack) \in Nat
    BY StackFacts
  <2> QED
    BY <2>1, <1>7, <1>8 DEF Grown
<1>10. \A k \in DOMAIN stack : stack'[k] = stack[k]
  <2>1. stack \in Seq(Operation)
    BY StackFacts
  <2> QED
    BY <2>1, <1>4, <1>5
<1>11. ~ Registered(e) /\ ~ Removing(e) /\ \A k \in DOMAIN stack : stack[k].e # e
  BY DEF IInv, EntityPlaces
<1>12. \A a \in Nodes : node[a].entity # e
  BY <1>11 DEF Registered, IInv, NodesOK, Entries
<1>13. ~ Attached(n) /\ Holders(n) = {} /\ ~ Contains(entity_list, n)
  BY <1>2, NodeFacts
<1>14. /\ node' \in [Nodes -> EntityNode] /\ node'[n].entity = e /\ node'[n].ref = 2
       /\ \A a \in Nodes : a # n => node'[a] = node[a]
  <2>1. PICK r : r = Referenced([entity |-> e, ref |-> 1])
    OBVIOUS
  <2>2. r \in EntityNode /\ r.entity = e /\ r.ref = 2
    BY <2>1 DEF Referenced, EntityNode
  <2>3. node \in [Nodes -> EntityNode]
    BY DEF IInv, TypeOK, EntityNode
  <2> QED
    BY <2>1, <2>2, <2>3, <1>2
<1>15. /\ entities' \in [Entities -> Nodes \cup {None}] /\ entities'[e] = n
       /\ \A d \in Entities : d # e => entities'[d] = entities[d]
  BY <1>2 DEF IInv, TypeOK
<1>16. /\ entity_list' \in Seq(Nodes) /\ IsInjective(entity_list')
       /\ \A a : Contains(entity_list', a) <=> Contains(entity_list, a) \/ a = n
       /\ \A a, b : Before(entity_list, a, b) => Before(entity_list', a, b)
  <2>1. entity_list \in Seq(Nodes) /\ IsInjective(entity_list)
    BY DEF IInv, TypeOK, NodesOK
  <2> QED
    BY <2>1, <1>2, <1>13, LinkedLast
<1>17. TypeOK'
  BY <1>2, <1>4, <1>7, <1>14, <1>15, <1>16 DEF IInv, TypeOK, EntityNode
<1>18. Attached(n)' /\ \A a \in Nodes : a # n => (Attached(a)' <=> Attached(a))
  BY <1>14 DEF Attached
<1>19. Walks'
  <2>1. ASSUME NEW k \in DOMAIN stack PROVE WalkOK(stack[k])'
    <3>1. PICK h \in Operation : h = stack[k] /\ WalkOK(h)
      BY StackFacts
    <3>2. h.n # None => Contains(entity_list', h.n)
      BY <3>1, <1>16 DEF WalkOK
    <3>3. \A a \in h.owed : a \in Nodes /\ Attached(a)
      BY <3>1 DEF WalkOK, Operation
    <3>4. \A a \in h.owed : Attached(a)'
      BY <3>3, <1>18
    <3>5. \A a \in h.owed \ h.seen :
            h.n # None /\ (Before(entity_list', h.n, a) \/ (a = h.n /\ h.at = "visit"))
      BY <3>1, <1>16 DEF WalkOK
    <3>6. WalkOK(h)'
      BY <3>2, <3>4, <3>5 DEF WalkOK
    <3> QED
      BY <3>1, <3>6, <1>10 DEF WalkOK
  <2>2. WalkOK(f)'
    BY <1>5, <1>16 DEF WalkOK
  <2> QED
    BY <2>1, <2>2, <1>9 DEF Walks, WalkOK
<1>20. Counts'
  <2>1. \A a \in Nodes : \A k : k \in Holders(a)' <=> k \in Holders(a) \/ (k = top /\ a = n)
    BY <1>5, <1>7, <1>9, <1>10, HoldersAre DEF IInv
  <2>2. \A a \in Nodes : a # n => Holders(a)' = Holders(a)
    BY <2>1 DEF Holders
  <2>3. Holders(n)' = {top}
    BY <2>1, <1>13 DEF Holders
  <2>4. Cardinality(Holders(n)') = 1
    BY <2>3, FS_Singleton
  <2> QED
    BY <2>2, <2>4, <1>14, <1>18 DEF IInv, NodesOK, Counts, RefCountExact
<1>21. Linked'
  BY <1>14, <1>16 DEF IInv, NodesOK, Linked
<1>22. Entries'
  <2> SUFFICES ASSUME NEW d \in Entities, NEW a \in Nodes
               PROVE  entities'[d] = a <=> node'[a].entity = d
    BY DEF Entries
  <2>1. entities[d] = a <=> node[a].entity = d
    BY DEF IInv, NodesOK, Entries
  <2>2. node[n].entity = None /\ entities[e] = None
    BY <1>11, <1>13 DEF Attached, Registered
  <2> QED
    BY <2>1, <2>2, <1>12, <1>14, <1>15
<1>23. NodesOK'
  BY <1>16, <1>19, <1>20, <1>21, <1>22 DEF NodesOK
<1>24. EntityPlaces'
  <2>1. Registered(e)' /\ \A d \in Entities : d # e => (Registered(d)' <=> Registered(d))
    BY <1>15 DEF Registered
  <2>2. \A d : Removing(d)' <=> Removing(d)
    BY <1>5, <1>9, <1>10 DEF Removing
  <2>3. \A d \in Entities : /\ d \in live' <=> Registered(d)' \/ Removing(d)'
                            /\ ~ (Registered(d)' /\ Removing(d)')
    BY <2>1, <2>2, <1>2, <1>11 DEF IInv, EntityPlaces
  <2>4. \A k \in DOMAIN stack' : stack'[k].e # None => stack'[k].e \in live'
    BY <1>2, <1>5, <1>9, <1>10 DEF IInv, EntityPlaces
  <2>5. ASSUME NEW j \in DOMAIN stack', NEW k \in DOMAIN stack', j < k, stack'[j].e # None
        PROVE  /\ stack'[k].op = "Remove" => stack'[j].e # stack'[k].e
               /\ stack'[k].op = "RemoveAllEntity" => entities'[stack'[j].e] = None
    <3>1. CASE k = top
      BY <3>1, <1>5, <1>9
    <3>2. CASE k # top
      <4>1. k \in DOMAIN stack /\ j \in DOMAIN stack /\ stack'[j] = stack[j] /\ stack'[k] = stack[k]
        BY <2>5, <3>2, <1>5, <1>9, <1>10
      <4>2. /\ stack[k].op = "Remove" => stack[j].e # stack[k].e
            /\ stack[k].op = "RemoveAllEntity" => ~ Registered(stack[j].e)
        BY <2>5, <4>1 DEF IInv, EntityPlaces
      <4>3. stack[j].e \in Entities /\ stack[j].e # e
        BY <2>5, <4>1, <1>11, StackFacts DEF Operation
      <4> QED
        BY <4>1, <4>2, <4>3, <1>15 DEF Registered
    <3> QED
      BY <3>1, <3>2
  <2> QED
    BY <2>3, <2>4, <2>5 DEF EntityPlaces, Registered
<1>25. ComponentPlaces'
  <2>1. \A c \in Components : \A k : k \in Takers(c)' <=> k \in Takers(c)
    BY <1>5, <1>9, <1>10 DEF Takers
  <2>2. \A c \in Components : Takers(c)' = Takers(c)
    BY <2>1 DEF Takers
  <2>3. \A c : Placed(c)' <=> Placed(c)
    BY <1>4 DEF Placed
  <2>4. \A d \in Entities, k \in Classes, c \in Components : component_list'[d][k] = c =>
          /\ class'[c] = k /\ d \in live' /\ c \notin owned' /\ Takers(c)' = {}
          /\ \A a \in Entities : component_list'[a][k] = c => a = d
    <3>1. ComponentPlaces
      BY DEF IInv
    <3>2. \A d \in Entities, k \in Classes, c \in Components : component_list[d][k] = c =>
            /\ class[c] = k /\ d \in live /\ c \notin owned /\ Takers(c) = {}
            /\ \A a \in Entities : component_list[a][k] = c => a = d
      BY <3>1 DEF ComponentPlaces
    <3> QED
      BY <3>2, <2>2, <1>2, <1>4, SMTT(30)
  <2>5. \A c \in Components :
          /\ class'[c] # 0 <=> Placed(c)' \/ c \in owned' \/ Takers(c)' # {}
          /\ c \in owned' => Takers(c)' = {}
          /\ \A j, k \in Takers(c)' : j = k
    BY <2>2, <2>3, <1>4 DEF IInv, ComponentPlaces
  <2> QED
    BY <2>4, <2>5 DEF ComponentPlaces
<1>26. Swept'
  <2>1. \A d \in Entities, j \in Classes :
          component_list'[d][j] \in {component_list[d][j], None}
    BY <1>4
  <2> QED
    BY <2>1, <1>4, <1>5, <1>7, GrownKeeps
<1> QED
  BY <1>7, <1>17, <1>23, <1>24, <1>25, <1>26 DEF IInv

(* The frames of a removal that begins.                                      *)
LEMMA RemovalFrames ==
  ASSUME NEW e \in Entities, NEW f, f = Removal(e), NEW g, g = Sweep(e)
  PROVE  /\ f \in Operation /\ f.op = "Remove" /\ f.e = e /\ f.n = None /\ f.c = None
         /\ f.at = "announce" /\ f.owed = {} /\ f.seen = {}
         /\ g \in Operation /\ g.op = "RemoveAllComponent" /\ g.e = e /\ g.n = None
         /\ g.c = None /\ g.at = "scan" /\ g.owed = {} /\ g.seen = {} /\ g.i = 1
<1>1. f = [op |-> "Remove", e |-> e, n |-> None, c |-> None, i |-> 1, at |-> "announce",
           owed |-> {}, seen |-> {}, late |-> {}]
  BY DEF Removal, Frame
<1>2. g = [op |-> "RemoveAllComponent", e |-> e, n |-> None, c |-> None, i |-> 1, at |-> "scan",
           owed |-> {}, seen |-> {}, late |-> {}]
  BY DEF Sweep, Frame
<1>3. /\ f \in Operation /\ f.op = "Remove" /\ f.e = e /\ f.n = None /\ f.c = None
      /\ f.at = "announce" /\ f.owed = {} /\ f.seen = {}
  BY <1>1 DEF Operation
<1>4. /\ g \in Operation /\ g.op = "RemoveAllComponent" /\ g.e = e /\ g.n = None
      /\ g.c = None /\ g.at = "scan" /\ g.owed = {} /\ g.seen = {} /\ g.i = 1
  BY <1>2 DEF Operation
<1> QED
  BY <1>3, <1>4

(* g is f, except that it owes node n nothing and may stand elsewhere.       *)
Disowned(g, f, n) ==
  /\ g.op = f.op /\ g.e = f.e /\ g.n = f.n /\ g.c = f.c /\ g.i = f.i /\ g.late = f.late
  /\ g.owed = f.owed \ {n} /\ g.seen = f.seen \ {n}

(* Unowed changes only what the walks owe and have seen.                     *)
LEMMA UnowedFacts ==
  ASSUME NEW b \in Seq(Operation), NEW n, NEW u, u = Unowed(b, n)
  PROVE  /\ u \in Seq(Operation) /\ Len(u) = Len(b) /\ DOMAIN u = DOMAIN b
         /\ \A k \in DOMAIN b : /\ Disowned(u[k], b[k], n) /\ u[k].at = b[k].at
                                /\ FrameOK(b[k]) => FrameOK(u[k])
<1>1. PICK d \in Nat : d = Len(b) /\ DOMAIN b = 1 .. d
  OBVIOUS
<1>2. DOMAIN u = 1 .. d
  BY <1>1 DEF Unowed
<1>3. ASSUME NEW k \in 1 .. d
      PROVE  u[k] \in Operation /\ Disowned(u[k], b[k], n) /\ u[k].at = b[k].at
  <2>1. PICK f \in Operation : f = b[k]
    BY <1>1
  <2>2. u[k] = [f EXCEPT !.owed = @ \ {n}, !.seen = @ \ {n}]
    BY <1>1, <2>1 DEF Unowed
  <2>3. PICK o \in SUBSET Nodes, v \in SUBSET Nodes : o = f.owed \ {n} /\ v = f.seen \ {n}
    BY DEF Operation
  <2>4. u[k] = [f EXCEPT !.owed = o, !.seen = v]
    BY <2>2, <2>3
  <2>5. /\ u[k].op = f.op /\ u[k].e = f.e /\ u[k].n = f.n /\ u[k].c = f.c
        /\ u[k].i = f.i /\ u[k].late = f.late /\ u[k].at = f.at
    BY <2>4 DEF Operation
  <2>6. u[k] \in Operation /\ u[k].owed = f.owed \ {n} /\ u[k].seen = f.seen \ {n}
    BY <2>3, <2>4 DEF Operation
  <2> QED
    BY <2>1, <2>5, <2>6 DEF Disowned
<1>4. u \in [1 .. d -> Operation]
  BY <1>1, <1>3 DEF Unowed
<1>5. u \in Seq(Operation) /\ Len(u) = d
  BY <1>4, FunctionIsSeq
<1>6. ASSUME NEW k \in 1 .. d, FrameOK(b[k])
      PROVE  FrameOK(u[k])
  BY <1>3, <1>6 DEF FrameOK, Disowned
<1> QED
  BY <1>1, <1>2, <1>3, <1>5, <1>6

(* The stack when an entity is detached from node n: client code runs, or a  *)
(* RemoveAllEntity at n is to leave it.                                      *)
Detaching(b, n) ==
  /\ b \in Seq(Operation) /\ Len(b) = Len(stack)
  /\ \A k \in DOMAIN stack :
       \/ b[k] = stack[k] /\ (k = Len(stack) => stack[k].at = "client")
       \/ /\ k = Len(stack) /\ stack[k].op = "RemoveAllEntity" /\ stack[k].n = n
          /\ stack[k].at = "visit" /\ b[k] = [stack[k] EXCEPT !.at = "leave"]

(* The removal of entity e has begun, detached from node n. *)
Begun(e, n) ==
  /\ Len(stack') = Len(stack) + 2 /\ DOMAIN stack' = 1 .. Len(stack) + 2
  /\ stack'[Len(stack) + 1] = Removal(e) /\ stack'[Len(stack) + 2] = Sweep(e)
  /\ \A k \in DOMAIN stack :
       /\ Disowned(stack'[k], stack[k], n) /\ stack'[k].at # "visit"
       /\ \/ stack'[k].at = stack[k].at
          \/ stack[k].op = "RemoveAllEntity" /\ stack[k].n = n /\ stack[k].at = "visit"
       /\ k = Len(stack) => stack'[k].at \in {"client", "leave"}

(* A removal begins in client code or when a RemoveAllEntity comes to it.    *)
LEMMA RemovalBegins ==
  ASSUME IInv, NEW e \in Entities, NEW n \in Nodes, NEW b, Detaching(b, n),
         Len(stack) + 2 <= MaxDepth, stack' = Unowed(b, n) \o RemovalSteps(e)
  PROVE  FramesOK' /\ Begun(e, n) /\ Len(stack') <= MaxDepth
<1>1. PICK len \in Nat : len = Len(stack) /\ DOMAIN stack = 1 .. len
  BY StackFacts
<1>2. /\ b \in Seq(Operation) /\ Len(b) = len /\ DOMAIN b = 1 .. len
      /\ \A k \in 1 .. len :
           \/ b[k] = stack[k] /\ (k = len => stack[k].at = "client")
           \/ /\ k = len /\ stack[k].op = "RemoveAllEntity" /\ stack[k].n = n
              /\ stack[k].at = "visit" /\ b[k] = [stack[k] EXCEPT !.at = "leave"]
  BY <1>1 DEF Detaching
<1>3. PICK f : f = Removal(e)
  OBVIOUS
<1>4. PICK g : g = Sweep(e)
  OBVIOUS
<1>5. /\ f \in Operation /\ f.op = "Remove" /\ f.e = e /\ f.n = None /\ f.c = None
      /\ f.at = "announce" /\ f.owed = {} /\ f.seen = {}
      /\ g \in Operation /\ g.op = "RemoveAllComponent" /\ g.e = e /\ g.n = None
      /\ g.c = None /\ g.at = "scan" /\ g.owed = {} /\ g.seen = {} /\ g.i = 1
  BY <1>3, <1>4, RemovalFrames
<1>6. PICK u : u = Unowed(b, n)
  OBVIOUS
<1>7. /\ u \in Seq(Operation) /\ Len(u) = len /\ DOMAIN u = 1 .. len
      /\ \A k \in 1 .. len : /\ Disowned(u[k], b[k], n) /\ u[k].at = b[k].at
                             /\ FrameOK(b[k]) => FrameOK(u[k])
  BY <1>2, <1>6, UnowedFacts
<1>8. ASSUME NEW k \in 1 .. len
      PROVE  /\ Disowned(u[k], stack[k], n)
             /\ \/ u[k].at = stack[k].at /\ (k = len => stack[k].at = "client")
                \/ /\ k = len /\ stack[k].op = "RemoveAllEntity" /\ stack[k].n = n
                   /\ stack[k].at = "visit" /\ u[k].at = "leave"
             /\ FrameOK(u[k])
  <2>1. PICK h \in Operation : h = stack[k] /\ FrameOK(h)
    BY <1>1, StackFacts
  <2>2. CASE b[k] = stack[k] /\ (k = len => stack[k].at = "client")
    BY <2>1, <2>2, <1>7
  <2>3. CASE /\ k = len /\ stack[k].op = "RemoveAllEntity" /\ stack[k].n = n
             /\ stack[k].at = "visit" /\ b[k] = [stack[k] EXCEPT !.at = "leave"]
    <3>1. b[k] = [h EXCEPT !.at = "leave"]
      BY <2>1, <2>3
    <3>2. /\ b[k].op = h.op /\ b[k].e = h.e /\ b[k].n = h.n /\ b[k].c = h.c /\ b[k].i = h.i
          /\ b[k].late = h.late /\ b[k].owed = h.owed /\ b[k].seen = h.seen /\ b[k].at = "leave"
      BY <3>1 DEF Operation
    <3>3. FrameOK(b[k])
      BY <2>1, <2>3, <3>2 DEF FrameOK
    <3>4. Disowned(u[k], b[k], n) /\ u[k].at = "leave" /\ FrameOK(u[k])
      BY <1>7, <3>2, <3>3
    <3>5. Disowned(u[k], h, n)
      BY <3>2, <3>4 DEF Disowned
    <3> QED
      BY <2>1, <2>3, <3>4, <3>5
  <2> QED
    BY <2>2, <2>3, <1>2
<1>9. PICK v : v = PushTwo(u, f, g)
  OBVIOUS
<1>10. /\ v \in Seq(Operation) /\ Len(u) \in Nat /\ Len(v) = Len(u) + 2
       /\ DOMAIN u = 1 .. Len(u) /\ DOMAIN v = 1 .. Len(u) + 2
       /\ v[Len(u) + 1] = f /\ v[Len(u) + 2] = g /\ \A k \in 1 .. Len(u) : v[k] = u[k]
       /\ \A k \in DOMAIN v : k \in 1 .. Len(u) \/ k = Len(u) + 1 \/ k = Len(u) + 2
  <2>1. f \in Operation /\ g \in Operation /\ u \in Seq(Operation)
    BY <1>5, <1>7
  <2> QED
    BY <2>1, <1>9, PushedTwice DEF PushTwo
<1>11. v = stack'
  BY <1>3, <1>4, <1>6, <1>9 DEF PushTwo, RemovalSteps
<1>12. /\ stack' \in Seq(Operation) /\ Len(stack') = len + 2 /\ DOMAIN stack' = 1 .. len + 2
       /\ stack'[len + 1] = f /\ stack'[len + 2] = g /\ \A k \in 1 .. len : stack'[k] = u[k]
       /\ \A k \in 1 .. len + 2 : k \in 1 .. len \/ k = len + 1 \/ k = len + 2
  BY <1>7, <1>10, <1>11
<1>13. \A k \in 1 .. len : k # len => Nested(stack[k], stack[k + 1])
  BY <1>1 DEF IInv, FramesOK
<1>14. \A k \in 1 .. len : u[k].at # "visit"
  BY <1>8, <1>13 DEF Nested
<1>15. Begun(e, n)
  <2>1. \A k \in 1 .. len :
          /\ Disowned(stack'[k], stack[k], n) /\ stack'[k].at # "visit"
          /\ \/ stack'[k].at = stack[k].at
             \/ stack[k].op = "RemoveAllEntity" /\ stack[k].n = n /\ stack[k].at = "visit"
          /\ k = len => stack'[k].at \in {"client", "leave"}
    BY <1>8, <1>12, <1>14
  <2> QED
    BY <2>1, <1>1, <1>3, <1>4, <1>12 DEF Begun
<1>16. FramesOK'
  <2>1. FrameOK(f) /\ FrameOK(g) /\ RoomLeft(f, len + 1) /\ RoomLeft(g, len + 2)
    BY <1>1, <1>5 DEF FrameOK, RoomLeft
  <2>2. \A k \in 1 .. len : RoomLeft(u[k], k)
    <3>1. \A k \in 1 .. len : RoomLeft(stack[k], k)
      BY <1>1, StackFacts
    <3> QED
      BY <3>1, <1>8 DEF Disowned, RoomLeft
  <2>3. \A k \in 1 .. len + 2 : FrameOK(stack'[k]) /\ RoomLeft(stack'[k], k)
    BY <2>1, <2>2, <1>8, <1>12
  <2>4. ASSUME NEW k \in 1 .. len
        PROVE  Nested(stack'[k], stack'[k + 1])
    <3>1. CASE k = len
      <4>1. stack'[k].at \in {"client", "leave"}
        BY <3>1, <1>8, <1>12
      <4> QED
        BY <4>1 DEF Nested
    <3>2. CASE k # len
      <4>1. k + 1 \in 1 .. len
        BY <3>2
      <4>2. Disowned(u[k + 1], stack[k + 1], n) /\ Disowned(u[k], stack[k], n) /\ u[k].at = stack[k].at
        BY <4>1, <3>2, <1>8
      <4>3. Nested(stack[k], stack[k + 1])
        BY <3>2, <1>13
      <4>4. stack'[k] = u[k] /\ stack'[k + 1] = u[k + 1]
        BY <4>1, <1>12
      <4> QED
        BY <4>2, <4>3, <4>4 DEF Nested, Disowned
    <3> QED
      BY <3>1, <3>2
  <2>5. Nested(f, g)
    BY <1>5 DEF Nested
  <2>6. ASSUME NEW k \in 1 .. len + 2, k # len + 2
        PROVE  Nested(stack'[k], stack'[k + 1])
    <3>1. CASE k = len + 1
      <4>1. k + 1 = len + 2
        BY <3>1
      <4> QED
        BY <3>1, <4>1, <2>5, <1>12
    <3>2. CASE k # len + 1
      <4>1. k \in 1 .. len
        BY <2>6, <3>2
      <4> QED
        BY <4>1, <2>4
    <3> QED
      BY <3>1, <3>2
  <2> QED
    BY <2>3, <2>6, <1>12 DEF FramesOK
<1> QED
  BY <1>1, <1>12, <1>15, <1>16

(* The entity passes from the registry into the hands of its removal, and    *)
(* its sweep is yet to begin.                                                *)
LEMMA RemovalPlaces ==
  ASSUME IInv, NEW e \in Entities, NEW n \in Nodes, Begun(e, n), UNCHANGED memory,
         Registered(e), entities' = [entities EXCEPT ![e] = None],
         \A k \in DOMAIN stack : stack[k].e # e
  PROVE  EntityPlaces' /\ ComponentPlaces' /\ Swept'
<1>1. PICK len \in Nat : len = Len(stack) /\ DOMAIN stack = 1 .. len
  BY StackFacts
<1>2. PICK f, g : f = Removal(e) /\ g = Sweep(e)
  OBVIOUS
<1>3. /\ f.op = "Remove" /\ f.e = e /\ f.c = None /\ f.at = "announce"
      /\ g.op = "RemoveAllComponent" /\ g.e = e /\ g.c = None /\ g.i = 1
  BY <1>2, RemovalFrames
<1>4. /\ Len(stack') = len + 2 /\ DOMAIN stack' = 1 .. len + 2
      /\ stack'[len + 1] = f /\ stack'[len + 2] = g
      /\ \A k \in 1 .. len + 2 : k \in 1 .. len \/ k = len + 1 \/ k = len + 2
      /\ \A k \in 1 .. len : k \in DOMAIN stack' /\ Disowned(stack'[k], stack[k], n)
  BY <1>1, <1>2 DEF Begun
<1>5. \A k \in 1 .. len : /\ stack'[k].op = stack[k].op /\ stack'[k].e = stack[k].e
                          /\ stack'[k].c = stack[k].c /\ stack'[k].i = stack[k].i
                          /\ stack'[k].late = stack[k].late
  BY <1>4 DEF Disowned
<1>6. /\ live' = live /\ component_list' = component_list /\ class' = class /\ owned' = owned
  BY DEF memory
<1>7. entities \in [Entities -> Nodes \cup {None}]
  BY DEF IInv, TypeOK
<1>8. EntityPlaces'
  <2>1. \A d \in Entities : entities'[d] # None <=> Registered(d) /\ d # e
    BY <1>7 DEF Registered
  <2>2. \A d : Removing(d)' <=> Removing(d) \/ d = e
    <3>1. \A d : Removing(d)' <=> \E k \in 1 .. len + 2 : stack'[k].op = "Remove" /\ stack'[k].e = d
      BY <1>4 DEF Removing
    <3>2. \A d : Removing(d) <=> \E k \in 1 .. len : stack[k].op = "Remove" /\ stack[k].e = d
      BY <1>1 DEF Removing
    <3>3. len + 1 \in 1 .. len + 2 /\ \A k \in 1 .. len : k \in 1 .. len + 2
      OBVIOUS
    <3> QED
      BY <3>1, <3>2, <3>3, <1>3, <1>4, <1>5
  <2>3. e \in live
    BY DEF IInv, EntityPlaces
  <2>4. \A d \in Entities : /\ d \in live' <=> entities'[d] # None \/ Removing(d)'
                            /\ ~ (entities'[d] # None /\ Removing(d)')
    BY <2>1, <2>2, <2>3, <1>6 DEF IInv, EntityPlaces
  <2>5. \A k \in 1 .. len : stack[k].e # None => stack[k].e \in live
    BY <1>1 DEF IInv, EntityPlaces
  <2>6. \A k \in 1 .. len + 2 : stack'[k].e # None => stack'[k].e \in live'
    BY <2>3, <2>5, <1>3, <1>4, <1>5, <1>6
  <2>7. ASSUME NEW j \in 1 .. len + 2, NEW k \in 1 .. len + 2, j < k, stack'[j].e # None
        PROVE  /\ stack'[k].op = "Remove" => stack'[j].e # stack'[k].e
               /\ stack'[k].op = "RemoveAllEntity" => ~ (entities'[stack'[j].e] # None)
    <3>1. CASE k = len + 2
      BY <3>1, <1>3, <1>4
    <3>2. CASE k = len + 1
      <4>1. j \in 1 .. len
        BY <2>7, <3>2
      <4> QED
        BY <4>1, <3>2, <1>1, <1>3, <1>4, <1>5
    <3>3. CASE k \in 1 .. len
      <4>1. j \in 1 .. len
        BY <2>7, <3>3
      <4>2. /\ stack[k].op = "Remove" => stack[j].e # stack[k].e
            /\ stack[k].op = "RemoveAllEntity" => ~ Registered(stack[j].e)
        BY <2>7, <3>3, <4>1, <1>1, <1>5 DEF IInv, EntityPlaces
      <4>3. stack[j].e \in Entities
        BY <2>7, <4>1, <1>1, <1>5, StackFacts DEF Operation
      <4> QED
        BY <3>3, <4>1, <4>2, <4>3, <2>1, <1>5
    <3> QED
      BY <3>1, <3>2, <3>3, <1>4
  <2> QED
    BY <2>4, <2>6, <2>7, <1>4 DEF EntityPlaces, Registered
<1>9. ComponentPlaces'
  BY <1>1, <1>3, <1>4, <1>5, ComponentsKept
<1>10. Swept'
  <2> SUFFICES ASSUME NEW k \in 1 .. len + 2, stack'[k].op = "Remove",
                      NEW j \in Classes, component_list[stack'[k].e][j] # None
               PROVE  /\ stack'[k].at \in {"client", "delete"} =>
                           component_list[stack'[k].e][j] \in stack'[k].late
                      /\ stack'[k].at = "announce" =>
                           component_list[stack'[k].e][j] \in stack'[k].late \/ j >= Reached(k)'
                      /\ stack'[k].at = "delete" => j >= Reached(k)'
    BY <1>4, <1>6 DEF Swept
  <2>1. CASE k = len + 1
    <3>1. Reached(k)' = 1
      <4>1. k # Len(stack') /\ k + 1 = len + 2
        BY <2>1, <1>4
      <4> QED
        BY <4>1, <1>3, <1>4 DEF Reached
    <3> QED
      BY <2>1, <3>1, <1>3, <1>4 DEF Classes
  <2>2. CASE k \in 1 .. len
    <3>1. /\ stack[k].op = "Remove" /\ stack[k].e = stack'[k].e /\ stack[k].late = stack'[k].late
          /\ k \in DOMAIN stack
      BY <2>2, <1>1, <1>5
    <3>2. stack'[k].at = stack[k].at /\ (k = len => stack'[k].at \in {"client", "leave"})
      BY <3>1, <1>1 DEF Begun
    <3>3. /\ stack[k].at \in {"client", "delete"} =>
               component_list[stack[k].e][j] \in stack[k].late
          /\ stack[k].at = "announce" =>
               component_list[stack[k].e][j] \in stack[k].late \/ j >= Reached(k)
          /\ stack[k].at = "delete" => j >= Reached(k)
      BY <3>1 DEF IInv, Swept
    <3>4. ASSUME k # len
          PROVE  Reached(k)' = Reached(k)
      <4>1. k + 1 \in 1 .. len /\ k # Len(stack) /\ k # Len(stack')
        BY <2>2, <3>4, <1>1, <1>4
      <4> QED
        BY <4>1, <1>5 DEF Reached
    <3> QED
      BY <3>1, <3>2, <3>3, <3>4
  <2>3. k # len + 2
    BY <1>3, <1>4
  <2> QED
    BY <2>1, <2>2, <2>3, <1>4
<1> QED
  BY <1>8, <1>9, <1>10

(* A node that loses its entity loses a reference.                           *)
LEMMA DetachedFacts ==
  ASSUME NEW r \in EntityNode, r.ref # 0
  PROVE  Detached(r) \in EntityNode /\ Detached(r).entity = None /\ Detached(r).ref = r.ref - 1
<1>1. PICK q : q = [r EXCEPT !.entity = None]
  OBVIOUS
<1>2. q \in EntityNode /\ q.entity = None /\ q.ref = r.ref /\ r.ref \in Nat
  BY <1>1 DEF EntityNode
<1>3. Detached(r) = [q EXCEPT !.ref = q.ref - 1]
  BY <1>1 DEF Detached, Dereferenced
<1>4. q.ref - 1 \in Nat
  BY <1>2
<1> QED
  BY <1>2, <1>3, <1>4 DEF EntityNode

(* The node detached keeps a reference for each operation that stands there. *)
LEMMA DetachedNodes ==
  ASSUME IInv, FramesOK', NEW e \in Entities, NEW n \in Nodes, Begun(e, n), entities[e] = n,
         entities' = [entities EXCEPT ![e] = None],
         NEW r \in EntityNode, Store(n, r), r.entity = None, r.ref = Cardinality(Holders(n)'),
         \A a \in Nodes : a # n => Holders(a)' = Holders(a)
  PROVE  /\ NodesOK' /\ node' \in [Nodes -> EntityNode] /\ entity_list' \in Seq(Nodes)
         /\ entities' \in [Entities -> Nodes \cup {None}]
<1>1. node[n].entity = e /\ Attached(n)
  BY DEF Attached, IInv, NodesOK, Entries
<1>2. Contains(entity_list, n)
  BY <1>1, NodeFacts
<1>3. /\ node' \in [Nodes -> EntityNode]
      /\ node'[n] = r /\ \A a \in Nodes : a # n => node'[a] = node[a]
      /\ entity_list' \in Seq(Nodes) /\ IsInjective(entity_list')
      /\ ListKept /\ Linked'
  BY <1>2, StoreFacts
<1>4. ~ Attached(n)' /\ \A a \in Nodes : a # n => (Attached(a)' <=> Attached(a))
  BY <1>3 DEF Attached
<1>5. /\ entities' \in [Entities -> Nodes \cup {None}] /\ entities'[e] = None
      /\ \A d \in Entities : d # e => entities'[d] = entities[d]
  BY DEF IInv, TypeOK
<1>6. Entries'
  <2> SUFFICES ASSUME NEW d \in Entities, NEW a \in Nodes
               PROVE  entities'[d] = a <=> node'[a].entity = d
    BY DEF Entries
  <2>1. entities[d] = a <=> node[a].entity = d
    BY DEF IInv, NodesOK, Entries
  <2>2. a # None /\ d # None
    OBVIOUS
  <2> QED
    BY <2>1, <2>2, <1>1, <1>3, <1>5
<1>7. Counts'
  <2>1. Cardinality(Holders(n)') \in Nat
    BY HoldersAre
  <2>2. node'[n].ref = Cardinality(Holders(n)') + (IF Attached(n)' THEN 1 ELSE 0)
    BY <2>1, <1>3, <1>4
  <2> QED
    BY <2>2, <1>3, <1>4 DEF IInv, NodesOK, Counts, RefCountExact
<1>8. PICK len \in Nat : len = Len(stack) /\ DOMAIN stack = 1 .. len
  BY StackFacts
<1>9. /\ DOMAIN stack' = 1 .. len + 2
      /\ stack'[len + 1] = Removal(e) /\ stack'[len + 2] = Sweep(e)
      /\ \A k \in 1 .. len + 2 : k \in 1 .. len \/ k = len + 1 \/ k = len + 2
  BY <1>8 DEF Begun
<1>10. ASSUME NEW k \in 1 .. len PROVE WalkOK(stack[k])'
  <2>1. PICK g \in Operation : g = stack'[k]
    BY <1>9 DEF FramesOK
  <2>2. PICK f \in Operation : f = stack[k] /\ WalkOK(f)
    BY <1>8, StackFacts
  <2>3. /\ Disowned(g, f, n) /\ g.at # "visit"
        /\ \/ g.at = f.at
           \/ f.op = "RemoveAllEntity" /\ f.n = n /\ f.at = "visit"
    BY <2>1, <2>2, <1>8 DEF Begun
  <2>4. g.n = f.n /\ g.owed = f.owed \ {n} /\ g.seen = f.seen \ {n} /\ (g.at = f.at \/ g.n = n)
    BY <2>3 DEF Disowned
  <2>5. g.n \in Nodes \cup {None} /\ g.owed \in SUBSET Nodes
    BY DEF Operation
  <2>6. g.n # None => node'[g.n].ref > 0
    <3>1. CASE g.n = n
      <4>1. PICK h : h = Holders(n)'
        OBVIOUS
      <4>2. IsFiniteSet(h) /\ Cardinality(h) \in Nat
        BY <4>1, HoldersAre
      <4>3. k \in h
        BY <4>1, <3>1, <2>1, <2>3, <1>9, HoldersAre
      <4>4. Cardinality(h) # 0
        BY <4>2, <4>3, FS_EmptySet
      <4> QED
        BY <3>1, <4>1, <4>2, <4>4, <1>3
    <3>2. CASE g.n # n
      <4>1. g.n # None => node[g.n].ref > 0
        BY <2>2, <2>4, <2>5, NodeFacts DEF WalkOK
      <4> QED
        BY <3>2, <4>1, <2>5, <1>3
    <3> QED
      BY <3>1, <3>2
  <2>7. \A a \in g.owed : Attached(a)' /\ node'[a].ref > 0
    <3>1. \A a \in g.owed : a \in Nodes /\ a # n /\ Attached(a)
      BY <2>2, <2>4, <2>5 DEF WalkOK
    <3>2. \A a \in Nodes : Attached(a) => node[a].ref > 0
      BY NodeFacts
    <3> QED
      BY <3>1, <3>2, <1>3, <1>4
  <2>8. g.owed \subseteq f.owed /\ g.owed \ g.seen \subseteq f.owed \ f.seen
        /\ (g.at = f.at \/ g.n \notin g.owed \ g.seen)
    BY <2>4
  <2>9. WalkOK(g)'
    BY <2>2, <2>4, <2>6, <2>7, <2>8, <1>3, WalkKept
  <2> QED
    BY <2>1, <2>9 DEF WalkOK
<1>11. Walks'
  <2>1. PICK f, g : f = Removal(e) /\ g = Sweep(e)
    OBVIOUS
  <2>2. f.n = None /\ f.owed = {} /\ g.n = None /\ g.owed = {}
    BY <2>1, RemovalFrames
  <2>3. WalkOK(f)' /\ WalkOK(g)'
    BY <2>2 DEF WalkOK
  <2> QED
    BY <2>1, <2>3, <1>9, <1>10 DEF Walks, WalkOK
<1> QED
  BY <1>3, <1>5, <1>6, <1>7, <1>11 DEF NodesOK

(* Once a removal has begun, an operation that stands at a node holds it.    *)
LEMMA HoldersBegun ==
  ASSUME IInv, FramesOK', NEW e \in Entities, NEW n \in Nodes, Begun(e, n), NEW a \in Nodes
  PROVE  \A k : k \in Holders(a)' <=> k \in DOMAIN stack /\ stack[k].n = a
<1>1. PICK len \in Nat : len = Len(stack) /\ DOMAIN stack = 1 .. len
  BY StackFacts
<1>2. PICK f, g : f = Removal(e) /\ g = Sweep(e)
  OBVIOUS
<1>3. f.n = None /\ g.n = None
  BY <1>2, RemovalFrames
<1>4. /\ DOMAIN stack' = 1 .. len + 2 /\ stack'[len + 1] = f /\ stack'[len + 2] = g
      /\ \A k \in 1 .. len + 2 : k \in 1 .. len \/ k = len + 1 \/ k = len + 2
      /\ \A k \in 1 .. len : k \in 1 .. len + 2
      /\ \A k \in 1 .. len : stack'[k].n = stack[k].n /\ stack'[k].at # "visit"
  BY <1>1, <1>2 DEF Begun, Disowned
<1>5. \A k : k \in Holders(a)' <=> k \in 1 .. len + 2 /\ stack'[k].n = a /\ stack'[k].at # "visit"
  BY <1>4, HoldersAre
<1>6. a # None
  OBVIOUS
<1> QED
  BY <1>1, <1>3, <1>4, <1>5, <1>6

(* RemoveEntity: what uses the entity is not among the operations in         *)
(* progress, and whoever stands at its node keeps its reference.             *)
LEMMA RemoveEntityKeeps ==
  ASSUME IInv, NEW e \in Entities, RemoveEntity(e)
  PROVE  IInv'
<1>1. /\ ClientRuns /\ Registered(e) /\ ~ InUse(e) /\ Len(stack) + 2 <= MaxDepth
      /\ entities' = [entities EXCEPT ![e] = None] /\ UNCHANGED memory
  BY DEF RemoveEntity
<1>2. PICK n \in Nodes : n = entities[e]
  BY <1>1 DEF Registered, IInv, TypeOK
<1>3. /\ Store(n, Detached(node[n])) /\ stack' = Unowed(stack, n) \o RemovalSteps(e)
  BY <1>2 DEF RemoveEntity
<1>4. /\ stack \in Seq(Operation) /\ Len(stack) \in Nat /\ DOMAIN stack = 1 .. Len(stack)
      /\ \A k \in DOMAIN stack : k = Len(stack) => stack[k].at = "client"
  BY <1>1, StackFacts
<1>5. Detaching(stack, n)
  BY <1>4 DEF Detaching
<1>6. FramesOK' /\ Begun(e, n) /\ Len(stack') <= MaxDepth
  BY <1>1, <1>3, <1>5, RemovalBegins
<1>7. \A k \in DOMAIN stack : stack[k].at # "visit"
  <2>1. \A k \in DOMAIN stack : k # Len(stack) => Nested(stack[k], stack[k + 1])
    BY DEF IInv, FramesOK
  <2> QED
    BY <2>1, <1>4 DEF Nested
<1>8. \A k \in DOMAIN stack : stack[k].e # e
  <2> SUFFICES ASSUME NEW k \in DOMAIN stack, stack[k].e = e PROVE FALSE
    OBVIOUS
  <2>1. FrameOK(stack[k])
    BY StackFacts
  <2>2. InUse(e) \/ Removing(e)
    BY <2>1 DEF FrameOK, InUse, Removing
  <2>3. ~ (Registered(e) /\ Removing(e))
    BY DEF IInv, EntityPlaces
  <2> QED
    BY <2>2, <2>3, <1>1
<1>9. \A a \in Nodes : Holders(a)' = Holders(a)
  <2>1. \A a \in Nodes : \A k : k \in Holders(a)' <=> k \in Holders(a)
    BY <1>6, <1>7, HoldersBegun, HoldersAre DEF IInv
  <2> QED
    BY <2>1 DEF Holders
<1>10. PICK r \in EntityNode :
         Store(n, r) /\ r.entity = None /\ r.ref = Cardinality(Holders(n)')
  <2>1. Attached(n)
    BY <1>2 DEF Attached, IInv, NodesOK, Entries
  <2>2. node[n] \in EntityNode /\ node[n].ref # 0
    BY <2>1, NodeFacts
  <2>3. node[n].ref = Cardinality(Holders(n)) + 1
    BY <2>1 DEF IInv, NodesOK, Counts, RefCountExact
  <2>4. Cardinality(Holders(n)) \in Nat /\ Holders(n)' = Holders(n)
    BY <1>9, HoldersAre DEF IInv
  <2>5. PICK q : q = Detached(node[n])
    OBVIOUS
  <2>6. q \in EntityNode /\ q.entity = None /\ q.ref = node[n].ref - 1
    BY <2>2, <2>5, DetachedFacts
  <2>7. q.ref = Cardinality(Holders(n)')
    BY <2>3, <2>4, <2>6
  <2> QED
    BY <2>5, <2>6, <2>7, <1>3
<1>11. /\ NodesOK' /\ node' \in [Nodes -> EntityNode] /\ entity_list' \in Seq(Nodes)
       /\ entities' \in [Entities -> Nodes \cup {None}]
  BY <1>1, <1>2, <1>6, <1>9, <1>10, DetachedNodes
<1>12. EntityPlaces' /\ ComponentPlaces' /\ Swept'
  BY <1>1, <1>6, <1>8, RemovalPlaces
<1>13. TypeOK'
  BY <1>1, <1>6, <1>11 DEF memory, IInv, TypeOK, EntityNode
<1> QED
  BY <1>6, <1>11, <1>12, <1>13 DEF IInv

(* RemoveAllEntity comes to a node: it holds it, detached or to be detached. *)
LEMMA RemoveVisitedKeeps ==
  ASSUME IInv, RemoveVisited
  PROVE  IInv'
<1>1. /\ stack # <<>> /\ Top.op = "RemoveAllEntity" /\ Top.at = "visit" /\ Top.n # None
      /\ UNCHANGED memory
  BY DEF RemoveVisited, In
<1>2. PICK top \in DOMAIN stack, f \in Operation, n \in Nodes :
        /\ top = Len(stack) /\ f = Top /\ f = stack[top] /\ n = f.n
        /\ FrameOK(f) /\ WalkOK(f) /\ RoomLeft(f, top)
  BY <1>1, StackFacts DEF Operation
<1>3. PICK g : g = [f EXCEPT !.at = "leave"]
  OBVIOUS
<1>4. /\ g \in Operation /\ g.op = f.op /\ g.e = f.e /\ g.n = f.n /\ g.c = f.c
      /\ g.at = "leave" /\ g.owed = f.owed /\ g.seen = f.seen
  BY <1>3 DEF Operation
<1>5. FrameOK(g) /\ f.e = None /\ f.owed = {}
  BY <1>1, <1>2, <1>4 DEF FrameOK
<1>6. PICK len : len = Len(stack) - 1
  OBVIOUS
<1>7. PICK h : h = Front(stack)
  OBVIOUS
<1>8. /\ len \in Nat /\ len + 1 = Len(stack) /\ DOMAIN stack = 1 .. len + 1
      /\ h \in Seq(Operation) /\ Len(h) = len /\ DOMAIN h = 1 .. len
      /\ \A k \in 1 .. len : h[k] = stack[k]
  BY <1>1, <1>6, <1>7, AroundTop
<1>9. PICK b : b = PushBack(h, g)
  OBVIOUS
<1>10. /\ b \in Seq(Operation) /\ Len(b) = len + 1 /\ b[len + 1] = g
       /\ \A k \in 1 .. len : b[k] = stack[k]
  BY <1>4, <1>8, <1>9, Pushed DEF PushBack
<1>11. CASE ~ Attached(n)
  <2>1. /\ Store(n, Referenced(node[n])) /\ UNCHANGED entities
        /\ stack' = Append(Front(stack), g)
    BY <1>2, <1>3, <1>11 DEF RemoveVisited, Attached
  <2>2. Become(g)
    <3>1. PICK s : s = [stack EXCEPT ![len + 1] = g]
      OBVIOUS
    <3>2. stack \in Seq(Operation)
      BY StackFacts
    <3>3. /\ s \in Seq(Operation) /\ Len(s) = len + 1 /\ DOMAIN s = 1 .. len + 1
          /\ s[len + 1] = g /\ \A k \in 1 .. len : s[k] = stack[k]
      BY <3>1, <3>2, <1>4, <1>8
    <3>4. DOMAIN b = 1 .. len + 1 /\ \A k \in 1 .. len + 1 : b[k] = s[k]
      BY <3>3, <1>8, <1>10
    <3>5. b = s
      BY <3>3, <3>4, <1>10
    <3> QED
      BY <3>1, <3>5, <2>1, <1>7, <1>8, <1>9 DEF Become, PushBack
  <2> QED
    BY <2>1, <2>2, <1>1, <1>2, <1>4, <1>5, ReferencedKeeps
<1>12. CASE Attached(n)
  <2>1. PICK e \in Entities : e = node[n].entity /\ entities[e] = n
    BY <1>12, NodeFacts DEF IInv, NodesOK, Entries
  <2>2. /\ Store(n, Detached(Referenced(node[n]))) /\ entities' = [entities EXCEPT ![e] = None]
        /\ stack' = Unowed(b, n) \o RemovalSteps(e)
    BY <2>1, <1>2, <1>3, <1>7, <1>9, <1>12 DEF RemoveVisited, Attached, PushBack
  <2>3. Detaching(b, n)
    <3>1. \A k \in DOMAIN stack : k # Len(stack) => k \in 1 .. len
      BY <1>8
    <3>2. b[top] = [stack[top] EXCEPT !.at = "leave"]
      BY <1>2, <1>3, <1>8, <1>10
    <3> QED
      BY <3>1, <3>2, <1>1, <1>2, <1>8, <1>10 DEF Detaching
  <2>4. Len(stack) + 2 <= MaxDepth
    BY <1>1, <1>2 DEF RoomLeft
  <2>5. FramesOK' /\ Begun(e, n) /\ Len(stack') <= MaxDepth
    BY <2>2, <2>3, <2>4, RemovalBegins
  <2>6. Registered(e)
    BY <2>1 DEF Registered
  <2>7. \A k \in DOMAIN stack : stack[k].e # e
    <3>1. \A k \in DOMAIN stack : k # top => k < top
      BY <1>2, <1>8
    <3>2. \A k \in DOMAIN stack : k < top /\ stack[k].e # None => ~ Registered(stack[k].e)
      BY <1>1, <1>2 DEF IInv, EntityPlaces
    <3> QED
      BY <3>1, <3>2, <2>6, <1>2, <1>5
  <2>8. \A k \in DOMAIN stack : k # top => stack[k].at # "visit"
    <3>1. \A k \in DOMAIN stack : k # Len(stack) => Nested(stack[k], stack[k + 1])
      BY DEF IInv, FramesOK
    <3> QED
      BY <3>1, <1>2 DEF Nested
  <2>9. \A a \in Nodes : a # n => Holders(a)' = Holders(a)
    <3>1. \A a \in Nodes : a # n => \A k : k \in Holders(a)' <=> k \in Holders(a)
      BY <2>5, <2>8, <1>2, HoldersBegun, HoldersAre DEF IInv
    <3> QED
      BY <3>1 DEF Holders
  <2>10. Holders(n)' = Holders(n) \cup {top} /\ top \notin Holders(n)
    <3>1. \A k : k \in Holders(n)' <=> k \in Holders(n) \/ k = top
      BY <2>5, <2>8, <1>2, HoldersBegun, HoldersAre DEF IInv
    <3>2. top \notin Holders(n)
      BY <1>1, <1>2, HoldersAre DEF IInv
    <3> QED
      BY <3>1, <3>2 DEF Holders
  <2>11. PICK r \in EntityNode :
           Store(n, r) /\ r.entity = None /\ r.ref = Cardinality(Holders(n)')
    <3>1. node[n] \in EntityNode /\ node[n].ref \in Nat
      BY NodeFacts
    <3>2. PICK q : q = Referenced(node[n])
      OBVIOUS
    <3>3. q \in EntityNode /\ q.ref = node[n].ref + 1 /\ q.ref # 0
      BY <3>1, <3>2 DEF Referenced, EntityNode
    <3>4. PICK p : p = Detached(q)
      OBVIOUS
    <3>5. p \in EntityNode /\ p.entity = None /\ p.ref = q.ref - 1
      BY <3>3, <3>4, DetachedFacts
    <3>6. IsFiniteSet(Holders(n)) /\ Cardinality(Holders(n)) \in Nat
      BY HoldersAre DEF IInv
    <3>7. Cardinality(Holders(n) \cup {top}) = Cardinality(Holders(n)) + 1
      BY <2>10, <3>6, FS_AddElement
    <3>8. node[n].ref = Cardinality(Holders(n)) + 1
      BY <1>12 DEF IInv, NodesOK, Counts, RefCountExact
    <3>9. p.ref = node[n].ref
      BY <3>1, <3>3, <3>5
    <3>10. p.ref = Cardinality(Holders(n)')
      BY <2>10, <3>7, <3>8, <3>9
    <3> QED
      BY <3>2, <3>4, <3>5, <3>10, <2>2
  <2>12. /\ NodesOK' /\ node' \in [Nodes -> EntityNode] /\ entity_list' \in Seq(Nodes)
         /\ entities' \in [Entities -> Nodes \cup {None}]
    BY <2>1, <2>2, <2>5, <2>9, <2>11, DetachedNodes
  <2>13. EntityPlaces' /\ ComponentPlaces' /\ Swept'
    BY <2>2, <2>5, <2>6, <2>7, <1>1, RemovalPlaces
  <2>14. TypeOK'
    BY <2>5, <2>12, <1>1 DEF memory, IInv, TypeOK, EntityNode
  <2> QED
    BY <2>5, <2>12, <2>13, <2>14 DEF IInv
<1> QED
  BY <1>11, <1>12

-----------------------------------------------------------------------------
(* The invariant and what follows from it. *)

(* IInv holds at first: there is nothing yet.                                *)
LEMMA InitIInv == Init => IInv
<1> SUFFICES ASSUME Init PROVE IInv
  OBVIOUS
<1>1. /\ live = {} /\ component_list = [e \in Entities |-> [k \in Classes |-> None]]
      /\ class = [c \in Components |-> 0] /\ owned = {}
      /\ entities = [e \in Entities |-> None] /\ entity_list = <<>>
      /\ node = [n \in Nodes |-> [entity |-> None, ref |-> 0]] /\ stack = <<>>
  BY DEF Init, NoComponents
<1>2. /\ DOMAIN stack = {} /\ stack \in Seq(Operation) /\ Len(stack) = 0
      /\ DOMAIN entity_list = {} /\ entity_list \in Seq(Nodes)
  BY <1>1
<1>3. TypeOK
  BY <1>1, <1>2 DEF TypeOK
<1>4. FramesOK /\ Walks /\ Swept
  BY <1>2 DEF FramesOK, Walks, Swept
<1>5. Counts
  <2>1. \A n \in Nodes : Holders(n) = {} /\ ~ Attached(n) /\ node[n].ref = 0
    BY <1>1, <1>2 DEF Holders, Attached
  <2>2. Cardinality({}) = 0
    BY FS_EmptySet
  <2>3. ASSUME NEW n \in Nodes
        PROVE  node[n].ref = Cardinality(Holders(n)) + (IF Attached(n) THEN 1 ELSE 0)
    <3>1. Holders(n) = {}
      BY <2>1
    <3>2. Cardinality(Holders(n)) = 0
      BY <3>1, <2>2
    <3> QED
      BY <3>2, <2>1
  <2> QED
    BY <2>3 DEF Counts, RefCountExact
<1>6. IsInjective(entity_list) /\ Linked /\ Entries
  <2>1. IsInjective(entity_list)
    BY <1>2 DEF IsInjective
  <2>2. Linked
    BY <1>1, <1>2 DEF Linked, Contains
  <2>3. Entries
    BY <1>1 DEF Entries
  <2> QED
    BY <2>1, <2>2, <2>3
<1>7. EntityPlaces
  BY <1>1, <1>2 DEF EntityPlaces, Registered, Removing
<1>8. ComponentPlaces
  BY <1>1, <1>2 DEF ComponentPlaces, Placed, Takers
<1> QED
  BY <1>3, <1>4, <1>5, <1>6, <1>7, <1>8 DEF IInv, NodesOK

(* A step that changes nothing keeps it too.                                 *)
LEMMA StutterKeeps ==
  ASSUME IInv, UNCHANGED vars
  PROVE  IInv'
<1>1. /\ live' = live /\ component_list' = component_list /\ class' = class /\ owned' = owned
      /\ entities' = entities /\ entity_list' = entity_list /\ node' = node /\ stack' = stack
  BY DEF vars, memory, registry
<1>2. TypeOK' /\ FramesOK'
  BY <1>1 DEF IInv, TypeOK, FramesOK
<1>3. NodesOK'
  <2>1. \A n \in Nodes : Holders(n)' = Holders(n) /\ (Attached(n)' <=> Attached(n))
    BY <1>1 DEF Holders, Attached
  <2>2. Counts'
    BY <2>1, <1>1 DEF IInv, NodesOK, Counts, RefCountExact
  <2>3. Walks'
    BY <1>1 DEF IInv, NodesOK, Walks, WalkOK, Attached
  <2> QED
    BY <2>2, <2>3, <1>1 DEF IInv, NodesOK, Linked, Entries
<1>4. EntityPlaces'
  BY <1>1 DEF IInv, EntityPlaces, Registered, Removing
<1>5. ComponentPlaces'
  BY <1>1 DEF IInv, ComponentPlaces, Placed, Takers
<1>6. Swept'
  BY <1>1 DEF IInv, Swept, Reached
<1> QED
  BY <1>2, <1>3, <1>4, <1>5, <1>6 DEF IInv

(* What client code may begin keeps IInv.                                    *)
LEMMA ClientKeeps ==
  ASSUME IInv, Client
  PROVE  IInv'
<1>1. CASE AddEntity
  BY <1>1, AddEntityKeeps
<1>2. CASE RemoveAllEntity
  BY <1>2, RemoveAllEntityKeeps
<1>3. CASE ForeachEntity
  BY <1>3, ForeachEntityKeeps
<1>4. ASSUME NEW e \in Entities, RemoveEntity(e) PROVE IInv'
  BY <1>4, RemoveEntityKeeps
<1>5. ASSUME NEW e \in Entities, RemoveAllComponent(e) PROVE IInv'
  BY <1>5, RemoveAllComponentKeeps
<1>6. ASSUME NEW e \in Entities, ForeachComponent(e) PROVE IInv'
  BY <1>6, ForeachComponentKeeps
<1>7. ASSUME NEW e \in Entities, NEW k \in Classes, AddComponent(e, k) PROVE IInv'
  BY <1>7, AddComponentKeeps
<1>8. ASSUME NEW e \in Entities, NEW k \in Classes, RemoveComponent(e, k) PROVE IInv'
  BY <1>8, TakeComponentKeeps DEF RemoveComponent
<1>9. ASSUME NEW e \in Entities, NEW k \in Classes, DetachComponent(e, k) PROVE IInv'
  BY <1>9, TakeComponentKeeps DEF DetachComponent
<1>10. ASSUME NEW e \in Entities, NEW c \in Components, CopyComponent(e, c) PROVE IInv'
  BY <1>10, CopyComponentKeeps
<1>11. ASSUME NEW e \in Entities, NEW c \in Components, AttachComponent(e, c) PROVE IInv'
  BY <1>11, AttachComponentKeeps
<1>12. ASSUME NEW c \in Components, DeleteOwned(c) PROVE IInv'
  BY <1>12, DeleteOwnedKeeps
<1> QED
  BY <1>1, <1>2, <1>3, <1>4, <1>5, <1>6, <1>7, <1>8, <1>9, <1>10, <1>11, <1>12 DEF Client

(* What the operations in progress go on with keeps IInv.                    *)
LEMMA ContinueKeeps ==
  ASSUME IInv, Continue
  PROVE  IInv'
<1>1. CASE AddComponentReturns \/ RemoveAllComponentReturns \/ ForeachComponentReturns \/ WalkReturns
  BY <1>1, ReturnsKeep
<1>2. CASE RemoveComponentReturns \/ DetachComponentReturns
  BY <1>2, TakeReturnsKeeps
<1>3. CASE SweepComponent
  BY <1>3, SweepComponentKeeps
<1>4. CASE DeleteSwept
  BY <1>4, DeleteSweptKeeps
<1>5. CASE NextComponent
  BY <1>5, NextComponentKeeps
<1>6. CASE AddEntityReturns \/ CallbackSaysStop
  BY <1>6, HolderReturnsKeeps
<1>7. CASE Announce
  BY <1>7, AnnounceKeeps
<1>8. CASE DestructEntity
  BY <1>8, DestructEntityKeeps
<1>9. CASE DeleteEntity
  BY <1>9, DeleteEntityKeeps
<1>10. CASE RemoveVisited
  BY <1>10, RemoveVisitedKeeps
<1>11. CASE CallVisited
  BY <1>11, CallVisitedKeeps
<1>12. CASE CallbackSaysOn
  BY <1>12, CallbackSaysOnKeeps
<1>13. CASE Leave
  BY <1>13, LeaveKeeps
<1> QED
  BY <1>1, <1>2, <1>3, <1>4, <1>5, <1>6, <1>7, <1>8, <1>9, <1>10, <1>11, <1>12, <1>13 DEF Continue

(* Every step keeps IInv. *)
LEMMA NextIInv == IInv /\ [Next]_vars => IInv'
<1> SUFFICES ASSUME IInv, [Next]_vars PROVE IInv'
  OBVIOUS
<1>1. CASE Client
  BY <1>1, ClientKeeps
<1>2. CASE Continue
  BY <1>2, ContinueKeeps
<1>3. CASE UNCHANGED vars
  BY <1>3, StutterKeeps
<1> QED
  BY <1>1, <1>2, <1>3 DEF Next

(* IInv holds in every state. *)
THEOREM IInvariance == Spec => []IInv
<1> QED
  BY InitIInv, NextIInv, PTL DEF Spec

(* Every variable keeps its type, and the operations in progress stay within *)
(* the bound (ecs.h:114-119, 216-220).                                       *)
THEOREM TypeCorrect == Spec => []TypeOK
<1>1. IInv => TypeOK
  BY DEF IInv
<1> QED
  BY <1>1, IInvariance, PTL

(* The reference count of a node is one for its entity and one for each      *)
(* operation standing there, whatever is removed in between (ecs.cpp:73-76,  *)
(* 100-114, 120-131).                                                        *)
THEOREM CountsExact == Spec => []RefCountExact
<1>1. IInv => RefCountExact
  BY IInvImpliesRegistry
<1> QED
  BY <1>1, IInvariance, PTL

(* The node an AddEntity or a walk stands at is still linked when the client *)
(* code it called is done (ecs.cpp:112, 129).                                *)
THEOREM WalksStayLinked == Spec => []NoDanglingNode
<1>1. IInv => NoDanglingNode
  BY IInvImpliesRegistry
<1> QED
  BY <1>1, IInvariance, PTL

(* entities_, entity_list_ and the nodes agree in every callback, no node is *)
(* linked twice, and an id leads to its own entity (ecs.cpp:65-78, 80-114).  *)
THEOREM RegistryStaysRight == Spec => []RegistryAgrees
<1>1. IInv => RegistryAgrees
  BY IInvImpliesRegistry
<1> QED
  BY <1>1, IInvariance, PTL

(* An Entity allocated is registered or in the hands of one removal, and no  *)
(* operation goes on with one that has been deleted (ecs.cpp:79-98).         *)
THEOREM EntitiesOwnedOnce == Spec => []NoEntityLost
<1>1. IInv => NoEntityLost
  BY IInvImpliesRegistry
<1> QED
  BY <1>1, IInvariance, PTL

(* A Component allocated has one owner, and its place is the one of its      *)
(* class (ecs.cpp:150-172, ecs.h:161-214).                                   *)
THEOREM ComponentsOwnedOnce == Spec => []NoComponentLost
<1>1. IInv => NoComponentLost
  BY IInvImpliesComponents
<1> QED
  BY <1>1, IInvariance, PTL

(* Who hears entity_remove_event_ has heard of the removal of all components *)
(* that were there before it began (ecs.cpp:92-94).                          *)
THEOREM RemovalsSwept == Spec => []RemovalIsFinal
<1>1. IInv => RemovalIsFinal
  BY IInvImpliesComponents
<1> QED
  BY <1>1, IInvariance, PTL

(* ForeachEntity calls back for each entity that is there from its beginning *)
(* to its end, whatever the callbacks add and remove (ecs.cpp:116-133).      *)
THEOREM EveryEntityCalled == Spec => []NobodySkipped
<1>1. IInv => NobodySkipped
  BY IInvImpliesRegistry
<1> QED
  BY <1>1, IInvariance, PTL
=============================================================================
