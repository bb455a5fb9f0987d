------------------------- MODULE EventManagerProofs -------------------------
(***************************************************************************)
(* Proofs about EventManager for any number of types, Events, nodes and    *)
(* nested Invokes.                                                         *)
(*                                                                         *)
(* IInv is inductive.  The reference counts need the lists (a node that    *)
(* goes with its Event must not be held), the lists need the walks (a node *)
(* without a listener stays linked while a walk holds it), and what a walk *)
(* has called needs the order of the list: InListOrder.                    *)
(***************************************************************************)
EXTENDS EventManager, SequenceTheorems, FiniteSetTheorems, TLAPS

-----------------------------------------------------------------------------
(* Sequences and linked lists. *)

(* A stack without its top (Front, as a frame returns).                      *)
LEMMA FrontProperties ==
  ASSUME NEW S, NEW s \in Seq(S), s # <<>>
  PROVE  /\ Len(s) \in Nat \ {0}
         /\ Last(s) \in S /\ Last(s) = s[Len(s)]
         /\ Front(s) \in Seq(S)
         /\ Len(Front(s)) = Len(s) - 1
         /\ DOMAIN Front(s) = 1 .. Len(s) - 1
         /\ \A i \in 1 .. Len(s) - 1 : Front(s)[i] = s[i]
<1>1. Len(s) \in Nat \ {0} /\ \A i \in 1 .. Len(s) : s[i] \in S
  OBVIOUS
<1>2. PICK n \in Nat : n = Len(s) - 1
  BY <1>1
<1>3. PICK f : f = SubSeq(s, 1, n)
  OBVIOUS
<1>4. /\ f \in Seq(S)
      /\ Len(f) = IF 1 <= n THEN n - 1 + 1 ELSE 0
      /\ \A i \in 1 .. n - 1 + 1 : f[i] = s[1 + i - 1]
  BY <1>1, <1>2, <1>3, SubSeqProperties
<1>5. Len(f) = n /\ DOMAIN f = 1 .. n /\ \A i \in 1 .. n : f[i] = s[i]
  BY <1>4
<1>6. Front(s) = f /\ Last(s) = s[Len(s)]
  BY <1>2, <1>3 DEF Front, Last
<1> QED
  BY <1>1, <1>2, <1>4, <1>5, <1>6

(* A function on 1 .. d is a sequence.                                       *)
LEMMA FunctionIsSeq ==
  ASSUME NEW S, NEW d \in Nat, NEW f \in [1 .. d -> S]
  PROVE  f \in Seq(S) /\ Len(f) = d /\ DOMAIN f = 1 .. d
<1>1. f \in Seq(S)
  BY SeqDef
<1> QED
  BY <1>1, LenProperties

(* The elements of a sequence, as ToSet and as Contains give them.           *)
LEMMA ToSetContains ==
  ASSUME NEW S, NEW s \in Seq(S)
  PROVE  /\ \A x : x \in ToSet(s) <=> Contains(s, x)
         /\ \A x : Contains(s, x) => x \in S
         /\ s # <<>> <=> \E x \in S : Contains(s, x)
  BY DEF ToSet, Contains

(* The rank of a place among places: how many of them come up to it. *)
Rank(places, i) == Cardinality({k \in places : k <= i})

(* Ranks grow with the places, and each rank up to their number is taken.    *)
LEMMA RankProperties ==
  ASSUME NEW len \in Nat, NEW places \in SUBSET (1 .. len)
  PROVE  /\ Cardinality(places) \in Nat
         /\ \A i \in places : Rank(places, i) \in 1 .. Cardinality(places)
         /\ \A i, j \in places : i < j => Rank(places, i) < Rank(places, j)
         /\ \A r \in 1 .. Cardinality(places) : \E i \in places : Rank(places, i) = r
<1> DEFINE upto(i) == {k \in places : k <= i}
<1>1. IsFiniteSet(places) /\ Cardinality(places) \in Nat
  <2>1. IsFiniteSet(1 .. len)
    BY FS_Interval
  <2> QED
    BY <2>1, FS_Subset, FS_CardinalityType
<1>2. \A i : IsFiniteSet(upto(i)) /\ Cardinality(upto(i)) \in Nat
             /\ Cardinality(upto(i)) <= Cardinality(places)
  BY <1>1, FS_Subset, FS_CardinalityType
<1>3. \A i \in places : Cardinality(upto(i)) # 0
  BY <1>2, FS_EmptySet
<1>4. ASSUME NEW i \in places, NEW j \in places, i < j
      PROVE  Cardinality(upto(i)) < Cardinality(upto(j))
  <2>1. upto(i) \in SUBSET upto(j) /\ j \in upto(j) /\ j \notin upto(i)
    <3>1. \A k \in places : k \in Int
      OBVIOUS
    <3>2. \A k \in places : k <= i => k <= j
      BY <1>4, <3>1
    <3>3. j <= j /\ ~ j <= i
      BY <1>4, <3>1
    <3> QED
      BY <3>2, <3>3
  <2>2. /\ Cardinality(upto(i)) <= Cardinality(upto(j))
        /\ Cardinality(upto(j)) = Cardinality(upto(i)) => upto(j) = upto(i)
    <3> HIDE DEF upto
    <3> QED
      BY <1>2, <2>1, FS_Subset
  <2> QED
    BY <1>2, <2>1, <2>2
<1>5. \A r \in 1 .. Cardinality(places) : \E i \in places : Rank(places, i) = r
  <2> DEFINE f == [i \in places |-> Cardinality(upto(i))]
             T == 1 .. Cardinality(places)
  <2>1. IsFiniteSet(T) /\ Cardinality(T) = Cardinality(places)
    BY <1>1, FS_Interval
  <2>2. f \in [places -> T]
    BY <1>1, <1>2, <1>3
  <2>3. \A i, j \in places : i # j => f[i] # f[j]
    <3>1. \A i, j \in places : i < j \/ j < i \/ i = j
      OBVIOUS
    <3>2. \A i, j \in places : i < j => f[i] # f[j]
      BY <1>2, <1>4
    <3> QED
      BY <3>1, <3>2
  <2>4. f \in Injection(places, T)
    BY <2>2, <2>3 DEF Injection, IsInjective
  <2>5. f \in Surjection(places, T)
    BY <1>1, <2>1, <2>4, FS_Injection
  <2> QED
    BY <2>5 DEF Surjection, Rank
<1> QED
  BY <1>1, <1>2, <1>3, <1>4, <1>5 DEF Rank

(* Unlinked keeps the places outside S, in their order.                      *)
LEMMA UnlinkedPlaces ==
  ASSUME NEW T, NEW l \in Seq(T), NEW S, NEW u, u = Unlinked(l, S)
  PROVE  /\ u \in Seq(T)
         /\ \E at \in [DOMAIN u -> DOMAIN l] :
              /\ \A i, j \in DOMAIN u : i < j <=> at[i] < at[j]
              /\ \A j \in DOMAIN u : l[at[j]] \notin S /\ u[j] = l[at[j]]
              /\ \A i \in DOMAIN l : l[i] \notin S => \E j \in DOMAIN u : at[j] = i
<1>1. PICK len \in Nat : len = Len(l)
  OBVIOUS
<1>2. PICK places \in SUBSET (1 .. len) : places = {i \in DOMAIN l : l[i] \notin S}
  <2>1. DOMAIN l = 1 .. len
    BY <1>1
  <2> QED
    BY <2>1
<1>3. PICK c \in Nat : c = Cardinality(places)
  BY RankProperties
<1> DEFINE Nth(r) == CHOOSE i \in places : Rank(places, i) = r
<1>4. \A r \in 1 .. c : Nth(r) \in places /\ Rank(places, Nth(r)) = r
  BY <1>3, RankProperties
<1>5. \A i, j \in places : i < j => Rank(places, i) < Rank(places, j)
  BY RankProperties
<1>6. \A i \in places : Rank(places, i) \in 1 .. c
  BY <1>3, RankProperties
<1>7. PICK at : at = [r \in 1 .. c |-> Nth(r)]
  OBVIOUS
<1>8. at \in [1 .. c -> places] /\ \A r \in 1 .. c : Rank(places, at[r]) = r
  BY <1>4, <1>7
<1>9. u = [j \in 1 .. c |-> l[at[j]]]
  BY <1>2, <1>3, <1>7 DEF Unlinked, Rank
<1> HIDE DEF Nth
<1>10. \A j \in 1 .. c : at[j] \in DOMAIN l /\ l[at[j]] \notin S
  BY <1>2, <1>8
<1>11. u \in Seq(T) /\ DOMAIN u = 1 .. c
  BY <1>9, <1>10
<1>12. \A i, j \in 1 .. c : i < j <=> at[i] < at[j]
  <2> SUFFICES ASSUME NEW i \in 1 .. c, NEW j \in 1 .. c PROVE i < j <=> at[i] < at[j]
    OBVIOUS
  <2>1. /\ at[i] \in 1 .. len /\ at[j] \in 1 .. len /\ at[i] \in places /\ at[j] \in places
        /\ Rank(places, at[i]) = i /\ Rank(places, at[j]) = j
    BY <1>8
  <2>2. at[i] < at[j] \/ at[j] < at[i] \/ at[i] = at[j]
    BY <2>1
  <2> QED
    BY <2>1, <2>2, <1>5
<1>13. \A i \in places : \E j \in 1 .. c : at[j] = i
  <2> SUFFICES ASSUME NEW i \in places PROVE \E j \in 1 .. c : at[j] = i
    OBVIOUS
  <2>1. PICK r \in 1 .. c : r = Rank(places, i)
    BY <1>6
  <2>2. at[r] \in places /\ Rank(places, at[r]) = Rank(places, i)
    BY <2>1, <1>8
  <2>3. at[r] \in 1 .. len /\ i \in 1 .. len
    BY <2>2
  <2>4. at[r] < i \/ i < at[r] \/ at[r] = i
    BY <2>3
  <2>5. ~ (at[r] < i) /\ ~ (i < at[r])
    <3>1. r \in Nat /\ ~ (r < r)
      OBVIOUS
    <3> QED
      BY <3>1, <2>1, <2>2, <1>5
  <2> QED
    BY <2>4, <2>5
<1>14. at \in [DOMAIN u -> DOMAIN l]
  BY <1>8, <1>10, <1>11
<1>15. /\ \A i, j \in DOMAIN u : i < j <=> at[i] < at[j]
       /\ \A j \in DOMAIN u : l[at[j]] \notin S /\ u[j] = l[at[j]]
       /\ \A i \in DOMAIN l : l[i] \notin S => \E j \in DOMAIN u : at[j] = i
  BY <1>2, <1>9, <1>10, <1>11, <1>12, <1>13
<1> QED
  BY <1>11, <1>14, <1>15

(* a comes before b in l. *)
Before(l, a, b) == \E i, j \in DOMAIN l : i < j /\ l[i] = a /\ l[j] = b

(* What stays linked is what is not in S, in the same order.                 *)
LEMMA UnlinkedProperties ==
  ASSUME NEW T, NEW l \in Seq(T), NEW S
  PROVE  /\ Unlinked(l, S) \in Seq(T)
         /\ \A n : Contains(Unlinked(l, S), n) <=> Contains(l, n) /\ n \notin S
         /\ IsInjective(l) => IsInjective(Unlinked(l, S))
         /\ \A a, b : Before(Unlinked(l, S), a, b) <=> Before(l, a, b) /\ a \notin S /\ b \notin S
<1>1. PICK u : u = Unlinked(l, S)
  OBVIOUS
<1>2. u \in Seq(T)
  BY <1>1, UnlinkedPlaces
<1>3. PICK at \in [DOMAIN u -> DOMAIN l] :
        /\ \A i, j \in DOMAIN u : i < j <=> at[i] < at[j]
        /\ \A j \in DOMAIN u : l[at[j]] \notin S /\ u[j] = l[at[j]]
        /\ \A i \in DOMAIN l : l[i] \notin S => \E j \in DOMAIN u : at[j] = i
  BY <1>1, UnlinkedPlaces, SMTT(30)
<1>4. DOMAIN u = 1 .. Len(u) /\ DOMAIN l = 1 .. Len(l) /\ Len(u) \in Nat /\ Len(l) \in Nat
  BY <1>2
<1>5. \A n : Contains(u, n) <=> Contains(l, n) /\ n \notin S
  <2> SUFFICES ASSUME NEW n
               PROVE  Contains(u, n) <=> Contains(l, n) /\ n \notin S
    OBVIOUS
  <2>1. ASSUME Contains(u, n) PROVE Contains(l, n) /\ n \notin S
    <3>1. PICK j \in DOMAIN u : u[j] = n
      BY <2>1, <1>4 DEF Contains
    <3>2. at[j] \in DOMAIN l /\ l[at[j]] = n /\ n \notin S
      BY <3>1, <1>3
    <3> QED
      BY <3>2, <1>4 DEF Contains
  <2>2. ASSUME Contains(l, n), n \notin S PROVE Contains(u, n)
    <3>1. PICK i \in DOMAIN l : l[i] = n
      BY <2>2, <1>4 DEF Contains
    <3>2. PICK j \in DOMAIN u : at[j] = i
      BY <3>1, <2>2, <1>3
    <3>3. u[j] = n
      BY <3>1, <3>2, <1>3
    <3> QED
      BY <3>3, <1>4 DEF Contains
  <2> QED
    BY <2>1, <2>2
<1>6. ASSUME IsInjective(l) PROVE IsInjective(u)
  <2>1. \A i, j \in DOMAIN u : u[i] = u[j] => at[i] = at[j]
    BY <1>3, <1>6 DEF IsInjective
  <2>2. \A i, j \in DOMAIN u : i < j \/ j < i \/ i = j
    BY <1>4
  <2> QED
    BY <2>1, <2>2, <1>3, <1>4 DEF IsInjective
<1>7. \A a, b : Before(u, a, b) <=> Before(l, a, b) /\ a \notin S /\ b \notin S
  BY <1>3 DEF Before
<1> QED
  BY <1>1, <1>2, <1>5, <1>6, <1>7

(* In a list without repetition, before is a strict total order.             *)
LEMMA BeforeIsOrder ==
  ASSUME NEW T, NEW l \in Seq(T), IsInjective(l)
  PROVE  /\ \A a, b : Before(l, a, b) =>
              a # b /\ ~ Before(l, b, a) /\ Contains(l, a) /\ Contains(l, b)
         /\ \A a, b : Contains(l, a) /\ Contains(l, b) =>
              a = b \/ Before(l, a, b) \/ Before(l, b, a)
         /\ \A a, b, c : Before(l, a, b) /\ Before(l, b, c) => Before(l, a, c)
<1>1. /\ DOMAIN l = 1 .. Len(l) /\ Len(l) \in Nat
      /\ \A i, j \in 1 .. Len(l) : l[i] = l[j] => i = j
  BY DEF IsInjective
<1> QED
  BY <1>1 DEF Before, Contains

(* PushBack(), under a name the provers do not take apart. *)
PushBack(l, n) == Append(l, n)

(* A node linked at the end comes after all others.                          *)
LEMMA LinkedLast ==
  ASSUME NEW T, NEW l \in Seq(T), NEW n \in T, NEW u, u = PushBack(l, n)
  PROVE  /\ u \in Seq(T)
         /\ \A a : Contains(u, a) <=> Contains(l, a) \/ a = n
         /\ IsInjective(l) /\ ~ Contains(l, n) => IsInjective(u)
         /\ \A a, b : Before(u, a, b) <=> Before(l, a, b) \/ (Contains(l, a) /\ b = n)
<1>1. PICK len \in Nat : len = Len(l)
  OBVIOUS
<1>2. /\ DOMAIN l = 1 .. len /\ u \in Seq(T) /\ DOMAIN u = 1 .. len + 1 /\ Len(u) = len + 1
      /\ u[len + 1] = n /\ \A i \in 1 .. len : u[i] = l[i]
  BY <1>1 DEF PushBack
<1>3. \A i \in 1 .. len + 1 : i \in 1 .. len \/ i = len + 1
  OBVIOUS
<1>4. \A a : Contains(u, a) <=> Contains(l, a) \/ a = n
  BY <1>1, <1>2, <1>3 DEF Contains
<1>5. IsInjective(l) /\ ~ Contains(l, n) => IsInjective(u)
  BY <1>1, <1>2, <1>3 DEF Contains, IsInjective
<1>6. \A a, b : Before(l, a, b) \/ (Contains(l, a) /\ b = n) => Before(u, a, b)
  BY <1>1, <1>2 DEF Contains, Before
<1>7. \A a, b : Before(u, a, b) => Before(l, a, b) \/ (Contains(l, a) /\ b = n)
  BY <1>1, <1>2, <1>3 DEF Contains, Before
<1> QED
  BY <1>2, <1>4, <1>5, <1>6, <1>7

(* The first node comes before all others.                                   *)
LEMMA FirstOfProperties ==
  ASSUME NEW T, NEW l \in Seq(T), IsInjective(l), NEW end, NEW m, m = FirstOf(l, end)
  PROVE  \/ m = end /\ l = <<>> /\ \A a : ~ Contains(l, a)
         \/ /\ Contains(l, m)
            /\ \A a : ~ Before(l, a, m)
            /\ \A a : Contains(l, a) => a = m \/ Before(l, m, a)
<1>1. DOMAIN l = 1 .. Len(l) /\ Len(l) \in Nat
  OBVIOUS
<1>2. CASE l = <<>>
  BY <1>2 DEF FirstOf, Contains
<1>3. CASE l # <<>>
  <2>1. Len(l) \in Nat \ {0} /\ m = l[1]
    BY <1>3 DEF FirstOf
  <2>2. Contains(l, m)
    BY <2>1 DEF Contains
  <2>3. \A a : ~ Before(l, a, m)
    BY <2>1, <1>1 DEF Before, IsInjective
  <2> QED
    BY <2>2, <2>3, BeforeIsOrder
<1> QED
  BY <1>2, <1>3

(* No node comes between a node and the next one.                            *)
LEMMA NextOfProperties ==
  ASSUME NEW T, NEW l \in Seq(T), IsInjective(l), NEW n, Contains(l, n),
         NEW end, NEW m, m = NextOf(l, n, end)
  PROVE  \/ m = end /\ \A a : Contains(l, a) => a = n \/ Before(l, a, n)
         \/ /\ Contains(l, m)
            /\ \A a : Before(l, a, m) <=> a = n \/ Before(l, a, n)
            /\ \A a : Before(l, n, a) <=> a = m \/ Before(l, m, a)
<1>1. PICK len \in Nat : len = Len(l) /\ DOMAIN l = 1 .. len
  OBVIOUS
<1>2. \A i, j \in 1 .. len : l[i] = l[j] => i = j
  BY <1>1 DEF IsInjective
<1>3. PICK place : place = CHOOSE i \in DOMAIN l : l[i] = n
  OBVIOUS
<1>4. m = IF place = Len(l) THEN end ELSE l[place + 1]
  BY <1>3 DEF NextOf
<1>5. PICK k \in 1 .. len : l[k] = n /\ m = IF k = len THEN end ELSE l[k + 1]
  <2>1. \E i \in DOMAIN l : l[i] = n
    BY <1>1 DEF Contains
  <2>2. place \in DOMAIN l /\ l[place] = n
    BY <2>1, <1>3, Zenon
  <2> QED
    BY <2>2, <1>1, <1>4
<1>6. CASE k = len
  <2>1. \A a : Contains(l, a) => a = n \/ Before(l, a, n)
    BY <1>1, <1>5, <1>6 DEF Contains, Before
  <2> QED
    BY <2>1, <1>5, <1>6
<1>7. CASE k # len
  <2>1. k + 1 \in 1 .. len /\ l[k + 1] = m /\ k \in Int
    BY <1>1, <1>5, <1>7
  <2>2. Contains(l, m)
    BY <1>1, <2>1 DEF Contains
  <2>3. \A a : Before(l, a, m) <=> a = n \/ Before(l, a, n)
    <3>1. \A i \in 1 .. len : i < k + 1 <=> i = k \/ i < k
      BY <2>1
    <3> QED
      BY <1>1, <1>2, <1>5, <2>1, <3>1 DEF Before
  <2>4. \A a : Before(l, n, a) <=> a = m \/ Before(l, m, a)
    <3>1. \A i \in 1 .. len : k < i <=> i = k + 1 \/ k + 1 < i
      BY <2>1
    <3> QED
      BY <1>1, <1>2, <1>5, <2>1, <3>1 DEF Before
  <2> QED
    BY <2>2, <2>3, <2>4
<1> QED
  BY <1>6, <1>7

-----------------------------------------------------------------------------
USE NoneAssumption, DepthAssumption

Invoking ==
  [event : Events, node : Nodes \cup {None}, at : {"visit", "call", "leave"},
   owed : SUBSET Nodes, seen : SUBSET Nodes]

FramesOK ==
  /\ stack \in Seq(Invoking)
  /\ \A k \in DOMAIN stack :
       /\ k # Len(stack) => stack[k].at = "call"
       /\ stack[k].at # "visit" => stack[k].node # None

(* What is owed and seen has its listener, in the list that is walked. *)
OwedAttached ==
  \A k \in DOMAIN stack : \A n \in stack[k].owed \cup stack[k].seen :
    Attached(n) /\ Contains(list[stack[k].event], n)

(* A walk has called what is owed and comes before its place in the list,    *)
(* and nothing that comes after it.                                          *)
InListOrder ==
  \A k \in DOMAIN stack :
    LET f == stack[k]
        l == list[f.event]
    IN f.node # None =>
         /\ \A n \in f.owed \ f.seen : Before(l, f.node, n) \/ (n = f.node /\ f.at = "visit")
         /\ \A n \in f.seen : Before(l, n, f.node) \/ (n = f.node /\ f.at # "visit")

IInv ==
  /\ TypeOK /\ FramesOK
  /\ RefCountExact /\ IndexMatchesLists /\ NoDanglingNode
  /\ OwedAttached /\ InListOrder /\ NobodySkipped

-----------------------------------------------------------------------------
(* Records and counts. *)

(* DecrRef() takes one reference away; the last one frees the node.          *)
LEMMA DereferencedProperties ==
  ASSUME NEW r \in ListenerNode, r.ref # 0
  PROVE  /\ Dereferenced(r) \in ListenerNode
         /\ Dereferenced(r).ref = r.ref - 1
         /\ r.ref # 1 => Dereferenced(r).info = r.info /\ Dereferenced(r).id = r.id
         /\ Dereferenced(r).info \in {r.info, None}
  BY DEF ListenerNode, Dereferenced, Freed

(* A node has finitely many holders, before and after a step.                *)
LEMMA HoldersFinite ==
  ASSUME NEW n
  PROVE  /\ FramesOK => IsFiniteSet(Holders(n)) /\ Cardinality(Holders(n)) \in Nat
         /\ FramesOK' => IsFiniteSet(Holders(n)') /\ Cardinality(Holders(n)') \in Nat
<1>1. ASSUME NEW d \in Nat, NEW h \in SUBSET (1 .. d)
      PROVE  IsFiniteSet(h) /\ Cardinality(h) \in Nat
  <2>1. IsFiniteSet(1 .. d)
    BY FS_Interval
  <2> QED
    BY <2>1, FS_Subset, FS_CardinalityType
<1>2. ASSUME FramesOK
      PROVE  IsFiniteSet(Holders(n)) /\ Cardinality(Holders(n)) \in Nat
  <2>1. PICK d \in Nat : DOMAIN stack = 1 .. d
    BY <1>2 DEF FramesOK
  <2>2. Holders(n) \in SUBSET (1 .. d)
    BY <2>1 DEF Holders
  <2> QED
    BY <1>1, <2>2
<1>3. ASSUME FramesOK'
      PROVE  IsFiniteSet(Holders(n)') /\ Cardinality(Holders(n)') \in Nat
  <2>1. PICK d \in Nat : DOMAIN stack' = 1 .. d
    BY <1>3 DEF FramesOK
  <2>2. PICK h : h = Holders(n)'
    OBVIOUS
  <2>3. h \in SUBSET (1 .. d)
    BY <2>1, <2>2 DEF Holders
  <2> QED
    BY <1>1, <2>2, <2>3
<1> QED
  BY <1>2, <1>3

(* What IInv says of one node: it is counted, and linked while it counts.    *)
LEMMA NodeFacts ==
  ASSUME IInv, NEW n \in Nodes
  PROVE  /\ node[n] \in ListenerNode
         /\ node[n].ref \in Nat
         /\ Attached(n) => node[n].ref # 0
         /\ Holders(n) # {} => node[n].ref # 0
         /\ Attached(n) /\ Holders(n) # {} => node[n].ref # 1
         /\ node[n].ref > 0 <=> \E e \in Events : Contains(list[e], n)
<1>1. IsFiniteSet(Holders(n)) /\ Cardinality(Holders(n)) \in Nat
  BY HoldersFinite DEF IInv
<1>2. Holders(n) # {} => Cardinality(Holders(n)) # 0
  BY <1>1, FS_EmptySet
<1>3. node[n].ref = Cardinality(Holders(n)) + (IF Attached(n) THEN 1 ELSE 0)
  BY DEF IInv, RefCountExact
<1>4. node[n] \in ListenerNode /\ node[n].ref \in Nat
  BY DEF IInv, TypeOK, ListenerNode
<1>5. node[n].ref > 0 <=> \E e \in Events : Contains(list[e], n)
  BY DEF IInv, IndexMatchesLists
<1> QED
  BY <1>1, <1>2, <1>3, <1>4, <1>5

(* The list of an Event. *)
LEMMA ListFacts ==
  ASSUME IInv, NEW e \in Events
  PROVE  list[e] \in Seq(Nodes) /\ IsInjective(list[e])
  BY DEF IInv, TypeOK, IndexMatchesLists

(* No two Events share a node. *)
LEMMA OneList ==
  ASSUME IInv, NEW e \in Events, NEW f \in Events, NEW n,
         Contains(list[e], n), Contains(list[f], n)
  PROVE  e = f
<1>1. n \in ToSet(list[e]) /\ n \in ToSet(list[f])
  BY ListFacts DEF Contains, ToSet
<1> QED
  BY <1>1 DEF IInv, IndexMatchesLists

-----------------------------------------------------------------------------
(* Detach *)

(* What Detach(S) leaves true, whatever happens to the index and to          *)
(* event_list.                                                               *)
AfterDetach(S) ==
  /\ list' \in [Events -> Seq(Nodes)] /\ node' \in [Nodes -> ListenerNode]
  /\ Len(stack') = Len(stack) /\ DOMAIN stack' = DOMAIN stack
  /\ \A k \in DOMAIN stack : stack'[k].event = stack[k].event
  /\ FramesOK' /\ RefCountExact' /\ NoDanglingNode'
  /\ \A n \in Nodes : node'[n].ref > 0 <=> \E e \in Events : Contains(list'[e], n)
  /\ \A e \in Events : IsInjective(list'[e])
  /\ \A e \in Events, n \in Nodes : Contains(list'[e], n) <=>
       Contains(list[e], n) /\ node'[n].ref > 0
  /\ \A n \in Nodes : Attached(n)' <=> Attached(n) /\ n \notin S
  /\ \A n \in Nodes : Attached(n)' => node'[n].id = node[n].id /\ node'[n].ref > 0
  /\ OwedAttached' /\ InListOrder' /\ NobodySkipped'

(* Detach keeps the counts, the lists and the walks in step.                 *)
LEMMA DetachKeeps ==
  ASSUME IInv, ClientRuns, NEW S \in SUBSET Nodes, Detach(S)
  PROVE  AfterDetach(S)
<1>1. \A n \in Nodes :
        /\ node'[n] \in ListenerNode /\ node'[n].ref \in Nat
        /\ node'[n].ref = node[n].ref - (IF n \in S /\ Attached(n) THEN 1 ELSE 0)
        /\ Attached(n)' <=> Attached(n) /\ n \notin S
        /\ Attached(n)' => node'[n].id = node[n].id
  <2> SUFFICES ASSUME NEW n \in Nodes
               PROVE  /\ node'[n] \in ListenerNode /\ node'[n].ref \in Nat
                      /\ node'[n].ref = node[n].ref - (IF n \in S /\ Attached(n) THEN 1 ELSE 0)
                      /\ Attached(n)' <=> Attached(n) /\ n \notin S
                      /\ Attached(n)' => node'[n].id = node[n].id
    OBVIOUS
  <2>1. node[n] \in ListenerNode /\ node[n].ref \in Nat /\ (Attached(n) => node[n].ref # 0)
    BY NodeFacts
  <2>2. CASE n \in S /\ Attached(n)
    <3>1. PICK r : r = [node[n] EXCEPT !.info = None]
      OBVIOUS
    <3>2. r \in ListenerNode /\ r.ref = node[n].ref /\ r.info = None
      BY <2>1, <3>1 DEF ListenerNode
    <3>3. node'[n] = Dereferenced(r)
      BY <2>2, <3>1 DEF Detach
    <3>4. Dereferenced(r) \in ListenerNode /\ Dereferenced(r).ref = r.ref - 1
          /\ Dereferenced(r).info \in {r.info, None}
      BY <2>1, <2>2, <3>2, DereferencedProperties
    <3> QED
      BY <2>1, <2>2, <3>2, <3>3, <3>4 DEF Attached, ListenerNode
  <2>3. CASE ~ (n \in S /\ Attached(n))
    <3>1. node'[n] = node[n]
      BY <2>3 DEF Detach
    <3> QED
      BY <2>1, <2>3, <3>1 DEF Attached
  <2> QED
    BY <2>2, <2>3
<1>2. /\ DOMAIN stack' = DOMAIN stack /\ Len(stack') = Len(stack) /\ FramesOK'
      /\ \A k \in DOMAIN stack :
           /\ stack'[k].event = stack[k].event /\ stack'[k].node = stack[k].node
           /\ stack'[k].at = stack[k].at
           /\ stack'[k].owed = stack[k].owed \ S /\ stack'[k].seen = stack[k].seen \ S
           /\ stack[k] \in Invoking /\ stack[k].at = "call" /\ stack[k].node # None
  <2>1. stack \in Seq(Invoking) /\ DOMAIN stack = 1 .. Len(stack) /\ Len(stack) \in Nat
    BY DEF IInv, FramesOK
  <2>2. \A k \in DOMAIN stack : stack[k].at = "call" /\ stack[k].node # None
    BY <2>1 DEF IInv, FramesOK, ClientRuns, At, Top, Last
  <2>3. \A k \in DOMAIN stack : stack[k] \in Invoking
    BY <2>1
  <2>4. stack' = [k \in DOMAIN stack |-> [stack[k] EXCEPT !.owed = @ \ S, !.seen = @ \ S]]
    BY DEF Detach
  <2>5. \A k \in DOMAIN stack :
          /\ stack'[k] \in Invoking
          /\ stack'[k].event = stack[k].event /\ stack'[k].node = stack[k].node
          /\ stack'[k].at = stack[k].at
          /\ stack'[k].owed = stack[k].owed \ S /\ stack'[k].seen = stack[k].seen \ S
    BY <2>3, <2>4 DEF Invoking
  <2>6. stack' \in Seq(Invoking) /\ Len(stack') = Len(stack) /\ DOMAIN stack' = DOMAIN stack
    <3>1. stack' \in [1 .. Len(stack) -> Invoking]
      BY <2>1, <2>4, <2>5
    <3> QED
      BY <2>1, <3>1, FunctionIsSeq
  <2>7. FramesOK'
    BY <2>2, <2>5, <2>6 DEF FramesOK
  <2> QED
    BY <2>2, <2>3, <2>5, <2>6, <2>7
<1>3. \A n : Holders(n)' = Holders(n)
  BY <1>2 DEF Holders
<1>4. RefCountExact'
  <2> SUFFICES ASSUME NEW n \in Nodes
               PROVE  node'[n].ref = Cardinality(Holders(n)') + (IF Attached(n)' THEN 1 ELSE 0)
    BY DEF RefCountExact
  <2>1. node[n].ref = Cardinality(Holders(n)) + (IF Attached(n) THEN 1 ELSE 0)
    BY DEF IInv, RefCountExact
  <2>2. Cardinality(Holders(n)) \in Nat
    BY HoldersFinite DEF IInv
  <2> QED
    BY <2>1, <2>2, <1>1, <1>3
<1>5. \A e \in Events :
        /\ list'[e] \in Seq(Nodes) /\ IsInjective(list'[e])
        /\ \A n \in Nodes : Contains(list'[e], n) <=> Contains(list[e], n) /\ node'[n].ref > 0
        /\ \A a, b \in Nodes : Before(list'[e], a, b) <=>
             Before(list[e], a, b) /\ node'[a].ref > 0 /\ node'[b].ref > 0
  <2> SUFFICES ASSUME NEW e \in Events
        PROVE  /\ list'[e] \in Seq(Nodes) /\ IsInjective(list'[e])
               /\ \A n \in Nodes : Contains(list'[e], n) <=> Contains(list[e], n) /\ node'[n].ref > 0
               /\ \A a, b \in Nodes : Before(list'[e], a, b) <=>
                    Before(list[e], a, b) /\ node'[a].ref > 0 /\ node'[b].ref > 0
    OBVIOUS
  <2>1. PICK U : U = {n \in Nodes : node'[n].ref = 0}
    OBVIOUS
  <2>2. list'[e] = Unlinked(list[e], U)
    BY <2>1 DEF Detach
  <2>3. \A n \in Nodes : n \notin U <=> node'[n].ref > 0
    BY <1>1, <2>1
  <2> QED
    BY <2>2, <2>3, ListFacts, UnlinkedProperties
<1>6. list' \in [Events -> Seq(Nodes)] /\ node' \in [Nodes -> ListenerNode]
  BY <1>1, <1>5 DEF Detach
<1>7. \A n \in Nodes : node'[n].ref > 0 <=> \E e \in Events : Contains(list'[e], n)
  BY <1>1, <1>5, NodeFacts
(* A node where a walk stands is held: it stays. *)
<1>8. \A k \in DOMAIN stack :
        /\ stack[k].event \in Events /\ stack[k].node \in Nodes
        /\ node'[stack[k].node].ref > 0
        /\ Contains(list'[stack[k].event], stack[k].node)
  <2> SUFFICES ASSUME NEW k \in DOMAIN stack
               PROVE  /\ stack[k].event \in Events /\ stack[k].node \in Nodes
                      /\ node'[stack[k].node].ref > 0
                      /\ Contains(list'[stack[k].event], stack[k].node)
    OBVIOUS
  <2>1. stack[k].event \in Events /\ stack[k].node \in Nodes
    BY <1>2 DEF Invoking
  <2>2. PICK n \in Nodes : n = stack[k].node
    BY <2>1
  <2>3. k \in Holders(n)
    BY <2>2, <1>2 DEF Holders
  <2>4. IsFiniteSet(Holders(n)) /\ Cardinality(Holders(n)) \in Nat /\ Cardinality(Holders(n)) # 0
    BY <2>3, HoldersFinite, FS_EmptySet DEF IInv
  <2>5. node'[n].ref > 0
    BY <2>4, <1>1, <1>3, <1>4 DEF RefCountExact
  <2>6. Contains(list[stack[k].event], n)
    BY <2>2, <1>2 DEF IInv, NoDanglingNode
  <2> QED
    BY <2>1, <2>2, <2>5, <2>6, <1>5
<1>9. NoDanglingNode'
  BY <1>2, <1>8 DEF NoDanglingNode
<1>10. OwedAttached'
  <2> SUFFICES ASSUME NEW k \in DOMAIN stack, NEW n \in stack'[k].owed \cup stack'[k].seen
               PROVE  Attached(n)' /\ Contains(list'[stack[k].event], n)
    BY <1>2 DEF OwedAttached
  <2>1. n \in stack[k].owed \cup stack[k].seen /\ n \notin S /\ n \in Nodes
    BY <1>2 DEF Invoking
  <2>2. Attached(n) /\ Contains(list[stack[k].event], n)
    BY <2>1 DEF IInv, OwedAttached
  <2>3. node'[n].ref = node[n].ref /\ node[n].ref # 0 /\ Attached(n)'
    BY <2>1, <2>2, <1>1, NodeFacts
  <2> QED
    BY <2>1, <2>2, <2>3, <1>1, <1>5, <1>8
<1>11. InListOrder'
  <2> SUFFICES ASSUME NEW k \in DOMAIN stack, NEW l, l = list[stack[k].event],
                      NEW m, m = list'[stack[k].event]
        PROVE  /\ \A n \in stack'[k].owed \ stack'[k].seen :
                    Before(m, stack[k].node, n) \/ (n = stack[k].node /\ stack[k].at = "visit")
               /\ \A n \in stack'[k].seen :
                    Before(m, n, stack[k].node) \/ (n = stack[k].node /\ stack[k].at # "visit")
    BY <1>2 DEF InListOrder
  <2>1. \A n \in stack'[k].owed \cup stack'[k].seen : n \in Nodes /\ node'[n].ref > 0
    BY <1>2, <1>5, <1>8, <1>10 DEF OwedAttached, Invoking
  <2>2. /\ \A n \in stack[k].owed \ stack[k].seen : Before(l, stack[k].node, n)
        /\ \A n \in stack[k].seen : Before(l, n, stack[k].node) \/ n = stack[k].node
    BY <1>2 DEF IInv, InListOrder
  <2>3. \A a, b \in Nodes : Before(l, a, b) /\ node'[a].ref > 0 /\ node'[b].ref > 0 => Before(m, a, b)
    BY <1>5, <1>8
  <2> QED
    BY <2>1, <2>2, <2>3, <1>2, <1>8
<1>12. NobodySkipped'
  BY <1>2 DEF IInv, NobodySkipped
<1> QED
  BY <1>1, <1>2, <1>4, <1>5, <1>6, <1>7, <1>9, <1>10, <1>11, <1>12, NodeFacts DEF AfterDetach

-----------------------------------------------------------------------------
(* IndexMatchesLists, element by element. *)
Parts ==
  /\ \A n \in Nodes : node[n].ref > 0 <=> \E e \in Events : Contains(list[e], n)
  /\ \A e \in Events : IsInjective(list[e])
  /\ \A e \in Events : \A x : x \in index[e] <=>
       \E n \in Nodes : Contains(list[e], n) /\ Attached(n) /\ x = <<node[n].id, n>>
  /\ \A e \in Events : \A n \in Nodes : Contains(list[e], n) => EventAlive(e)
  /\ \A e, f \in Events : \A n \in Nodes : Contains(list[e], n) /\ Contains(list[f], n) => e = f

(* The two forms say the same, before and after a step.                      *)
LEMMA PartsMatch ==
  /\ TypeOK => (Parts <=> IndexMatchesLists)
  /\ TypeOK' => (Parts' <=> IndexMatchesLists')
<1>1. ASSUME TypeOK PROVE Parts <=> IndexMatchesLists
  <2>1. \A e \in Events :
          /\ \A x : x \in ToSet(list[e]) <=> Contains(list[e], x)
          /\ \A x : Contains(list[e], x) => x \in Nodes
          /\ list[e] # <<>> <=> \E x \in Nodes : Contains(list[e], x)
    BY <1>1, ToSetContains DEF TypeOK
  <2>2. \A e \in Events :
          index[e] = {<<node[n].id, n>> : n \in {m \in ToSet(list[e]) : Attached(m)}} <=>
            \A x : x \in index[e] <=>
              \E n \in Nodes : Contains(list[e], n) /\ Attached(n) /\ x = <<node[n].id, n>>
    BY <2>1
  <2>3. \A e \in Events : (list[e] # <<>> => EventAlive(e)) <=>
          \A n \in Nodes : Contains(list[e], n) => EventAlive(e)
    BY <2>1
  <2>4. \A e, f \in Events : (e # f => ToSet(list[e]) \cap ToSet(list[f]) = {}) <=>
          \A n \in Nodes : Contains(list[e], n) /\ Contains(list[f], n) => e = f
    BY <2>1
  <2> QED
    BY <2>2, <2>3, <2>4 DEF Parts, IndexMatchesLists
<1>2. ASSUME TypeOK' PROVE Parts' <=> IndexMatchesLists'
  <2>1. \A e \in Events :
          /\ \A x : x \in ToSet(list'[e]) <=> Contains(list'[e], x)
          /\ \A x : Contains(list'[e], x) => x \in Nodes
          /\ list'[e] # <<>> <=> \E x \in Nodes : Contains(list'[e], x)
    BY <1>2, ToSetContains DEF TypeOK
  <2>2. \A e \in Events :
          index'[e] = {<<node'[n].id, n>> : n \in {m \in ToSet(list'[e]) : Attached(m)'}} <=>
            \A x : x \in index'[e] <=>
              \E n \in Nodes : Contains(list'[e], n) /\ Attached(n)' /\ x = <<node'[n].id, n>>
    BY <2>1
  <2>3. \A e \in Events : (list'[e] # <<>> => EventAlive(e)') <=>
          \A n \in Nodes : Contains(list'[e], n) => EventAlive(e)'
    BY <2>1
  <2>4. \A e, f \in Events : (e # f => ToSet(list'[e]) \cap ToSet(list'[f]) = {}) <=>
          \A n \in Nodes : Contains(list'[e], n) /\ Contains(list'[f], n) => e = f
    BY <2>1
  <2> QED
    BY <2>2, <2>3, <2>4 DEF Parts, IndexMatchesLists
<1> QED
  BY <1>1, <1>2

-----------------------------------------------------------------------------
(* The client's actions. *)

(* All listeners that bear the id go, from the list and from the index.      *)
LEMMA RemoveListenerKeeps ==
  ASSUME IInv, NEW t \in Types, NEW id \in Ids, RemoveListener(t, id)
  PROVE  IInv'
<1>1. PICK e : e = event_list[t]
  OBVIOUS
<1>2. PICK S \in SUBSET Nodes : S = {n \in Nodes : <<id, n>> \in index[e]}
  OBVIOUS
<1>3. /\ ClientRuns /\ e \in Events /\ Detach(S) /\ event_list' = event_list
      /\ index' = [index EXCEPT ![e] = @ \ ({id} \X S)]
  BY <1>1, <1>2 DEF RemoveListener, IInv, TypeOK
<1>4. AfterDetach(S)
  BY <1>3, DetachKeeps
<1>5. TypeOK /\ Parts /\ FramesOK
  BY PartsMatch DEF IInv
<1>6. TypeOK'
  BY <1>3, <1>4, <1>5 DEF TypeOK, AfterDetach
<1>7. \A f \in Events, n \in Nodes : Contains(list'[f], n) /\ Attached(n)' <=>
        Contains(list[f], n) /\ Attached(n) /\ n \notin S
  BY <1>4 DEF AfterDetach
<1>8. \A f \in Events : \A x : x \in index'[f] <=>
        \E n \in Nodes : Contains(list'[f], n) /\ Attached(n)' /\ x = <<node'[n].id, n>>
  <2>1. \A n \in Nodes : Attached(n)' => node'[n].id = node[n].id
    BY <1>4 DEF AfterDetach
  <2>2. \A f \in Events : \A x : x \in index[f] <=>
          \E n \in Nodes : Contains(list[f], n) /\ Attached(n) /\ x = <<node[n].id, n>>
    BY <1>5 DEF Parts
  <2>3. \A x : x \in index'[e] <=> x \in index[e] /\ ~ \E n \in S : x = <<id, n>>
    BY <1>3, <1>5 DEF TypeOK
  <2>4. \A f \in Events : f # e => index'[f] = index[f]
    BY <1>3, <1>5 DEF TypeOK
(* A node of S is in no other list. *)
  <2>5. \A f \in Events, n \in S : f # e => ~ Contains(list[f], n)
    <3>1. \A n \in S : Contains(list[e], n)
      BY <1>2, <1>3, <2>2
    <3> QED
      BY <3>1, <1>3, OneList
  <2>6. ASSUME NEW f \in Events, NEW x, f # e
        PROVE  x \in index'[f] <=>
                 \E n \in Nodes : Contains(list'[f], n) /\ Attached(n)' /\ x = <<node'[n].id, n>>
    BY <2>1, <2>2, <2>4, <2>5, <2>6, <1>7
  <2>7. ASSUME NEW x
        PROVE  x \in index'[e] <=>
                 \E n \in Nodes : Contains(list'[e], n) /\ Attached(n)' /\ x = <<node'[n].id, n>>
    <3>1. \A n \in Nodes : n \in S <=> Contains(list[e], n) /\ Attached(n) /\ node[n].id = id
      BY <1>2, <1>3, <2>2
    <3> QED
      BY <3>1, <2>1, <2>2, <2>3, <1>3, <1>7
  <2> QED
    BY <2>6, <2>7
<1>9. \A f \in Events : EventAlive(f)' <=> EventAlive(f)
  BY <1>3, <1>4 DEF EventAlive, AfterDetach
<1>10. Parts'
  BY <1>4, <1>5, <1>8, <1>9 DEF Parts, AfterDetach
<1> QED
  BY <1>4, <1>6, <1>10, PartsMatch DEF IInv, AfterDetach

(* The listeners of the types' Events go, and the index with them.           *)
LEMMA RemoveEventsKeeps ==
  ASSUME IInv, ClientRuns, NEW T \in SUBSET Types, RemoveEvents(T)
  PROVE  IInv'
<1>1. PICK E \in SUBSET Events : E = {event_list[t] : t \in T} \ {None}
  <2>1. \A t \in T : event_list[t] \in Events \cup {None}
    BY DEF IInv, TypeOK
  <2>2. {event_list[t] : t \in T} \ {None} \in SUBSET Events
    BY <2>1
  <2> QED
    BY <2>2
<1>2. PICK S \in SUBSET Nodes : S = UNION {ToSet(list[e]) : e \in E}
  <2>1. \A e \in E : ToSet(list[e]) \in SUBSET Nodes
    BY ListFacts, ToSetContains
  <2>2. UNION {ToSet(list[e]) : e \in E} \in SUBSET Nodes
    BY <2>1
  <2> QED
    BY <2>2
<1>3. /\ Detach(S)
      /\ index' = [e \in Events |-> IF e \in E THEN {} ELSE index[e]]
      /\ event_list' = [t \in Types |-> IF t \in T THEN None ELSE event_list[t]]
  BY <1>1, <1>2 DEF RemoveEvents
<1>4. AfterDetach(S)
  BY <1>3, DetachKeeps
<1>5. TypeOK /\ Parts /\ FramesOK
  BY PartsMatch DEF IInv
<1>6. TypeOK'
  BY <1>3, <1>4, <1>5 DEF TypeOK, AfterDetach
<1>7. \A n \in Nodes : n \in S <=> \E e \in E : Contains(list[e], n)
  BY <1>2, ListFacts, ToSetContains
<1>8. \A f \in Events, n \in Nodes : Contains(list'[f], n) /\ Attached(n)' <=>
        Contains(list[f], n) /\ Attached(n) /\ f \notin E
  <2>1. \A f \in Events, n \in Nodes : Contains(list[f], n) => (n \in S <=> f \in E)
    BY <1>7, OneList
  <2> QED
    BY <2>1, <1>4 DEF AfterDetach
<1>9. \A f \in Events : \A x : x \in index'[f] <=>
        \E n \in Nodes : Contains(list'[f], n) /\ Attached(n)' /\ x = <<node'[n].id, n>>
  <2>1. \A n \in Nodes : Attached(n)' => node'[n].id = node[n].id
    BY <1>4 DEF AfterDetach
  <2>2. \A f \in Events : \A x : x \in index[f] <=>
          \E n \in Nodes : Contains(list[f], n) /\ Attached(n) /\ x = <<node[n].id, n>>
    BY <1>5 DEF Parts
  <2> QED
    BY <2>1, <2>2, <1>3, <1>8
(* A node that stays in the list of an Event without listeners is held by a  *)
(* walk of that Event.                                                       *)
<1>10. ASSUME NEW f \in Events, NEW n \in Nodes, Contains(list'[f], n)
       PROVE  EventAlive(f)'
  <2>1. Contains(list[f], n) /\ node'[n].ref > 0
    BY <1>4, <1>10 DEF AfterDetach
  <2>2. EventAlive(f)
    BY <2>1, <1>5 DEF Parts
  <2>3. CASE f \notin E
    <3>1. \A t \in Types : event_list[t] = f => event_list'[t] = f
      BY <2>3, <1>1, <1>3
    <3> QED
      BY <2>2, <3>1, <1>4 DEF EventAlive, AfterDetach
  <2>4. CASE f \in E
    <3>1. ~ Attached(n)'
      BY <2>4, <1>8, <1>10
    <3>2. PICK h : h = Holders(n)'
      OBVIOUS
    <3>3. node'[n].ref = Cardinality(h) /\ node'[n].ref \in Nat
      <4>1. node'[n].ref = Cardinality(h) + 0
        BY <3>1, <3>2, <1>4 DEF AfterDetach, RefCountExact
      <4>2. IsFiniteSet(h) /\ Cardinality(h) \in Nat
        BY <3>2, <1>4, HoldersFinite DEF AfterDetach
      <4> QED
        BY <4>1, <4>2
    <3>4. h # {}
      BY <2>1, <3>3, FS_EmptySet
    <3>5. PICK k \in DOMAIN stack' : stack'[k].at # "visit" /\ stack'[k].node = n
      BY <3>2, <3>4 DEF Holders
    <3>6. stack'[k].event \in Events
      <4>1. stack' \in Seq(Invoking)
        BY <1>4 DEF AfterDetach, FramesOK
      <4>2. stack'[k] \in Invoking
        BY <4>1
      <4> QED
        BY <4>2 DEF Invoking
    <3>7. Contains(list'[stack'[k].event], n)
      BY <3>5, <1>4 DEF AfterDetach, NoDanglingNode
    <3>8. Contains(list[stack'[k].event], n)
      BY <3>6, <3>7, <1>4 DEF AfterDetach
    <3>9. stack'[k].event = f
      BY <2>1, <3>6, <3>8, OneList
    <3> QED
      BY <3>9 DEF EventAlive
  <2> QED
    BY <2>3, <2>4
<1>11. Parts'
  BY <1>4, <1>5, <1>9, <1>10 DEF Parts, AfterDetach
<1> QED
  BY <1>4, <1>6, <1>11, PartsMatch DEF IInv, AfterDetach

(* A new listener is linked behind all others, so every walk still has it    *)
(* to come and owes it nothing.                                              *)
LEMMA AddListenerKeeps ==
  ASSUME IInv, NEW t \in Types, NEW identifier \in Identifiers \cup {None},
         AddListener(t, identifier)
  PROVE  IInv'
<1> DEFINE Added(e, n, i, id) ==
        /\ IF event_list[t] = None THEN ~EventAlive(e) ELSE event_list[t] = e
        /\ node[n].ref = 0
        /\ event_list' = [event_list EXCEPT ![t] = e]
        /\ node' = [node EXCEPT ![n] = [info |-> i, id |-> id, ref |-> 1]]
        /\ list' = [list EXCEPT ![e] = Append(@, n)]
        /\ index' = [index EXCEPT ![e] = @ \cup {<<id, n>>}]
        /\ stack' = stack
<1>0. PICK e \in Events, n \in Nodes, i \in Infos : Added(e, n, i, IdOf(identifier, i))
  BY DEF AddListener
<1>1. PICK id : id = IdOf(identifier, i) /\ Added(e, n, i, id)
  BY <1>0
<1>2. TypeOK /\ Parts /\ FramesOK
  BY PartsMatch DEF IInv
<1>3. id \in Ids /\ i # None /\ i \in Infos
  BY <1>1 DEF IdOf, Ids
<1>4. /\ node' \in [Nodes -> ListenerNode]
      /\ node'[n].info = i /\ node'[n].id = id /\ node'[n].ref = 1
      /\ \A m \in Nodes : m # n => node'[m] = node[m]
  <2>1. [info |-> i, id |-> id, ref |-> 1] \in ListenerNode
    BY <1>3 DEF ListenerNode
  <2> QED
    BY <2>1, <1>1, <1>2 DEF TypeOK
<1>5. /\ ~ Attached(n) /\ Holders(n) = {}
      /\ \A f \in Events : ~ Contains(list[f], n)
  BY <1>1, NodeFacts
<1>6. /\ Attached(n)'
      /\ \A m \in Nodes : m # n => (Attached(m)' <=> Attached(m))
  BY <1>3, <1>4 DEF Attached
<1>7. /\ list' \in [Events -> Seq(Nodes)]
      /\ \A f \in Events : f # e => list'[f] = list[f]
      /\ \A m : Contains(list'[e], m) <=> Contains(list[e], m) \/ m = n
      /\ \A f \in Events : IsInjective(list'[f])
      /\ \A f \in Events : \A a, b : Before(list[f], a, b) => Before(list'[f], a, b)
  <2>1. PICK u : u = Append(list[e], n)
    OBVIOUS
  <2>2. list' = [list EXCEPT ![e] = u]
    BY <2>1, <1>1
  <2>3. list[e] \in Seq(Nodes) /\ IsInjective(list[e]) /\ ~ Contains(list[e], n)
    BY <1>5, ListFacts
  <2>4. /\ u \in Seq(Nodes) /\ IsInjective(u)
        /\ \A m : Contains(u, m) <=> Contains(list[e], m) \/ m = n
        /\ \A a, b : Before(list[e], a, b) => Before(u, a, b)
    <3>1. PICK l \in Seq(Nodes) : l = list[e]
      BY <2>3
    <3>2. u = PushBack(l, n) /\ IsInjective(l) /\ ~ Contains(l, n)
      BY <2>1, <2>3, <3>1 DEF PushBack
    <3>3. /\ u \in Seq(Nodes)
          /\ \A a : Contains(u, a) <=> Contains(l, a) \/ a = n
          /\ IsInjective(l) /\ ~ Contains(l, n) => IsInjective(u)
          /\ \A a, b : Before(u, a, b) <=> Before(l, a, b) \/ (Contains(l, a) /\ b = n)
      BY <3>2, LinkedLast
    <3> QED
      BY <3>1, <3>2, <3>3
  <2>5. /\ list'[e] = u /\ list' \in [Events -> Seq(Nodes)]
        /\ \A f \in Events : f # e => list'[f] = list[f]
    BY <2>2, <2>4, <1>2 DEF TypeOK
  <2> QED
    BY <2>4, <2>5, ListFacts
<1>8. TypeOK' /\ FramesOK'
  <2>1. PICK x \in Ids \X Nodes : x = <<id, n>>
    BY <1>3
  <2>2. index' = [index EXCEPT ![e] = @ \cup {x}] /\ index \in [Events -> SUBSET (Ids \X Nodes)]
    BY <2>1, <1>1, <1>2 DEF TypeOK
  <2>3. index' \in [Events -> SUBSET (Ids \X Nodes)]
    BY <2>2
  <2>4. event_list' \in [Types -> Events \cup {None}]
    BY <1>1, <1>2 DEF TypeOK
  <2>5. FramesOK' /\ Len(stack') <= MaxDepth
    BY <1>1, <1>2 DEF TypeOK, FramesOK
  <2> QED
    BY <2>3, <2>4, <2>5, <1>4, <1>7 DEF TypeOK
<1>9. RefCountExact'
  <2>1. \A m : Holders(m)' = Holders(m)
    BY <1>1 DEF Holders
  <2>2. ASSUME NEW m \in Nodes, m # n
        PROVE  node'[m].ref = Cardinality(Holders(m)') + (IF Attached(m)' THEN 1 ELSE 0)
    BY <2>1, <2>2, <1>4, <1>6 DEF IInv, RefCountExact
  <2>3. node'[n].ref = Cardinality(Holders(n)') + (IF Attached(n)' THEN 1 ELSE 0)
    <3>1. Cardinality(Holders(n)') = 0
      BY <2>1, <1>5, FS_EmptySet
    <3> QED
      BY <3>1, <1>4, <1>6
  <2> QED
    BY <2>2, <2>3 DEF RefCountExact
<1>10. \A m \in Nodes : node'[m].ref > 0 <=> \E f \in Events : Contains(list'[f], m)
  <2>1. \A f \in Events, m \in Nodes : m # n => (Contains(list'[f], m) <=> Contains(list[f], m))
    BY <1>7
  <2> QED
    BY <2>1, <1>2, <1>4, <1>7 DEF Parts
<1>11. \A f \in Events : \A x : x \in index'[f] <=>
         \E m \in Nodes : Contains(list'[f], m) /\ Attached(m)' /\ x = <<node'[m].id, m>>
  <2>1. \A f \in Events : \A x : x \in index[f] <=>
          \E m \in Nodes : Contains(list[f], m) /\ Attached(m) /\ x = <<node[m].id, m>>
    BY <1>2 DEF Parts
  <2>2. ASSUME NEW f \in Events, NEW x, f # e
        PROVE  x \in index'[f] <=>
                 \E m \in Nodes : Contains(list'[f], m) /\ Attached(m)' /\ x = <<node'[m].id, m>>
    <3>1. index'[f] = index[f] /\ list'[f] = list[f]
      BY <2>2, <1>1, <1>2, <1>7 DEF TypeOK
    <3> QED
      BY <3>1, <2>1, <1>4, <1>5, <1>6
  <2>3. ASSUME NEW x
        PROVE  x \in index'[e] <=>
                 \E m \in Nodes : Contains(list'[e], m) /\ Attached(m)' /\ x = <<node'[m].id, m>>
    <3>1. x \in index'[e] <=> x \in index[e] \/ x = <<id, n>>
      BY <1>1, <1>2 DEF TypeOK
    <3> QED
      BY <3>1, <2>1, <1>4, <1>5, <1>6, <1>7
  <2> QED
    BY <2>2, <2>3
<1>12. \A f \in Events : \A m \in Nodes : Contains(list'[f], m) => EventAlive(f)'
  <2>1. event_list'[t] = e /\ \A s \in Types : s # t => event_list'[s] = event_list[s]
    BY <1>1, <1>2 DEF TypeOK
  <2>2. EventAlive(e)'
    BY <2>1 DEF EventAlive
  <2>3. ASSUME NEW f \in Events, f # e, EventAlive(f) PROVE EventAlive(f)'
    <3>1. event_list[t] # f
      BY <2>3, <1>1
    <3> QED
      BY <3>1, <2>1, <2>3, <1>1 DEF EventAlive
  <2> QED
    BY <2>2, <2>3, <1>2, <1>7 DEF Parts
<1>13. \A f, g \in Events : \A m \in Nodes :
         Contains(list'[f], m) /\ Contains(list'[g], m) => f = g
  BY <1>2, <1>5, <1>7 DEF Parts
<1>14. IndexMatchesLists'
  BY <1>7, <1>8, <1>10, <1>11, <1>12, <1>13, PartsMatch DEF Parts
<1>15. \A k \in DOMAIN stack : stack'[k] = stack[k] /\ stack[k].event \in Events
                               /\ stack[k].owed \cup stack[k].seen \in SUBSET Nodes
  <2>1. \A k \in DOMAIN stack : stack[k] \in Invoking
    BY <1>2 DEF FramesOK
  <2> QED
    BY <2>1, <1>1 DEF Invoking
<1>16. NoDanglingNode' /\ OwedAttached'
  <2>1. \A f \in Events : \A m : Contains(list[f], m) => Contains(list'[f], m)
    BY <1>7
  <2>2. \A k \in DOMAIN stack : n \notin stack[k].owed \cup stack[k].seen
    BY <1>5 DEF IInv, OwedAttached
  <2> QED
    BY <2>1, <2>2, <1>1, <1>6, <1>15, ZenonT(60) DEF IInv, NoDanglingNode, OwedAttached
<1>17. InListOrder'
  <2> SUFFICES ASSUME NEW k \in DOMAIN stack, NEW f, f = stack[k], f.node # None
               PROVE  /\ \A x \in f.owed \ f.seen :
                           Before(list'[f.event], f.node, x) \/ (x = f.node /\ f.at = "visit")
                      /\ \A x \in f.seen :
                           Before(list'[f.event], x, f.node) \/ (x = f.node /\ f.at # "visit")
    BY <1>1 DEF InListOrder
  <2>1. /\ \A x \in f.owed \ f.seen :
             Before(list[f.event], f.node, x) \/ (x = f.node /\ f.at = "visit")
        /\ \A x \in f.seen :
             Before(list[f.event], x, f.node) \/ (x = f.node /\ f.at # "visit")
    BY DEF IInv, InListOrder
  <2> QED
    BY <2>1, <1>7, <1>15
<1>18. NobodySkipped'
  BY <1>1 DEF IInv, NobodySkipped
<1> QED
  BY <1>8, <1>9, <1>14, <1>16, <1>17, <1>18 DEF IInv

-----------------------------------------------------------------------------
(* Invoke. *)

(* The innermost Invoke. *)
LEMMA TopFacts ==
  ASSUME IInv, stack # <<>>
  PROVE  /\ Len(stack) \in Nat \ {0} /\ DOMAIN stack = 1 .. Len(stack)
         /\ Len(stack) \in DOMAIN stack /\ Top = stack[Len(stack)]
         /\ Top \in Invoking /\ Top.event \in Events
         /\ \A k \in DOMAIN stack : stack[k] \in Invoking /\ stack[k].event \in Events
         /\ Top.at # "visit" => Top.node \in Nodes
         /\ Top.node # None => Top.node \in Nodes /\ Contains(list[Top.event], Top.node)
<1>1. stack \in Seq(Invoking) /\ Len(stack) \in Nat \ {0} /\ DOMAIN stack = 1 .. Len(stack)
  BY DEF IInv, FramesOK
<1>2. Top = stack[Len(stack)] /\ Len(stack) \in DOMAIN stack
  BY <1>1 DEF Top, Last
<1>3. \A k \in DOMAIN stack : stack[k] \in Invoking /\ stack[k].event \in Events
  <2>1. \A k \in DOMAIN stack : stack[k] \in Invoking
    BY <1>1
  <2> QED
    BY <2>1 DEF Invoking
<1>4. Top \in Invoking /\ Top.event \in Events /\ (Top.node # None => Top.node \in Nodes)
  BY <1>2, <1>3 DEF Invoking
<1>5. Top.at # "visit" => Top.node # None
  BY <1>2 DEF IInv, FramesOK
<1>6. Top.node # None => Contains(list[Top.event], Top.node)
  BY <1>2 DEF IInv, NoDanglingNode
<1> QED
  BY <1>1, <1>2, <1>3, <1>4, <1>5, <1>6

(* Only the innermost Invoke moves. *)
LEMMA BecomeFacts ==
  ASSUME IInv, stack # <<>>, NEW f \in Invoking, f.at # "visit" => f.node # None, Become(f)
  PROVE  /\ FramesOK' /\ Len(stack') = Len(stack) /\ DOMAIN stack' = DOMAIN stack
         /\ stack'[Len(stack)] = f
         /\ \A k \in DOMAIN stack : k # Len(stack) => stack'[k] = stack[k]
<1>1. stack \in Seq(Invoking) /\ Len(stack) \in DOMAIN stack
  BY TopFacts DEF IInv, FramesOK
<1>2. stack' = [stack EXCEPT ![Len(stack)] = f]
  BY DEF Become
<1>3. stack' \in Seq(Invoking) /\ Len(stack') = Len(stack) /\ DOMAIN stack' = DOMAIN stack
  BY <1>1, <1>2
<1>4. /\ stack'[Len(stack)] = f
      /\ \A k \in DOMAIN stack : k # Len(stack) => stack'[k] = stack[k]
  BY <1>1, <1>2
<1> QED
  BY <1>3, <1>4 DEF IInv, FramesOK

(* A new Invoke owes every attached listener of its list a call and stands   *)
(* at the first.                                                             *)
LEMMA InvokeKeeps ==
  ASSUME IInv, NEW t \in Types, Invoke(t)
  PROVE  IInv'
<1>1. PICK e \in Events : e = event_list[t]
  BY DEF Invoke, IInv, TypeOK
<1>2. PICK l \in Seq(Nodes) : l = list[e] /\ IsInjective(l)
  BY ListFacts
<1>3. PICK m : m = FirstOf(l, None)
  OBVIOUS
<1>4. \/ m = None /\ \A a : ~ Contains(l, a)
      \/ /\ Contains(l, m) /\ m \in Nodes
         /\ \A a : Contains(l, a) => a = m \/ Before(l, m, a)
  BY <1>2, <1>3, FirstOfProperties DEF Contains
<1>5. PICK owed \in SUBSET Nodes : owed = {n \in ToSet(l) : Attached(n)}
  <2>1. ToSet(l) \in SUBSET Nodes
    BY <1>2, ToSetContains
  <2> QED
    BY <2>1
<1>6. \A n \in owed : Attached(n) /\ Contains(l, n)
  BY <1>2, <1>5, ToSetContains
<1>7. PICK f \in Invoking : f = Frame(e, m, "visit", owed, {})
  <2>1. m \in Nodes \cup {None}
    BY <1>4
  <2> QED
    BY <2>1 DEF Invoking, Frame
<1>8. f.event = e /\ f.node = m /\ f.at = "visit" /\ f.owed = owed /\ f.seen = {}
  BY <1>7 DEF Frame
<1>9. PICK len \in Nat : len = Len(stack)
  BY DEF IInv, FramesOK
<1>10. /\ stack' = Append(stack, f) /\ len < MaxDepth
       /\ event_list' = event_list /\ list' = list /\ index' = index /\ node' = node
  BY <1>1, <1>2, <1>3, <1>5, <1>7, <1>9 DEF Invoke
<1>11. /\ stack' \in Seq(Invoking) /\ Len(stack') = len + 1
       /\ DOMAIN stack = 1 .. len /\ DOMAIN stack' = 1 .. len + 1
       /\ stack'[len + 1] = f
       /\ \A k \in 1 .. len : stack'[k] = stack[k]
  BY <1>9, <1>10 DEF IInv, FramesOK
<1>12. \A k \in 1 .. len + 1 : k \in 1 .. len \/ k = len + 1
  OBVIOUS
<1>13. FramesOK'
  <2>1. len # 0 => stack[len].at = "call"
    BY <1>9, <1>11 DEF Invoke, ClientRuns, At, Top, Last
  <2> QED
    BY <2>1, <1>8, <1>9, <1>11, <1>12 DEF IInv, FramesOK
<1>14. TypeOK'
  BY <1>10, <1>11 DEF IInv, TypeOK
<1>15. RefCountExact'
  <2>1. \A n : Holders(n)' = Holders(n)
    BY <1>8, <1>11, <1>12 DEF Holders
  <2> QED
    BY <2>1, <1>10 DEF IInv, RefCountExact, Attached
<1>16. IndexMatchesLists'
  <2>1. \A g \in Events : EventAlive(g) => EventAlive(g)'
    BY <1>10, <1>11, <1>12 DEF EventAlive
  <2> QED
    BY <2>1, <1>10 DEF IInv, IndexMatchesLists, Attached
<1>17. NoDanglingNode'
  BY <1>2, <1>4, <1>8, <1>10, <1>11, <1>12 DEF IInv, NoDanglingNode
<1>18. OwedAttached'
  <2>1. \A n \in f.owed \cup f.seen : Attached(n) /\ Contains(list[f.event], n)
    BY <1>2, <1>6, <1>8
  <2> QED
    BY <2>1, <1>10, <1>11, <1>12 DEF IInv, OwedAttached, Attached
<1>19. InListOrder'
  <2>1. \A n \in f.owed \ f.seen : f.node # None => Before(list[f.event], f.node, n) \/ n = f.node
    BY <1>2, <1>4, <1>6, <1>8
  <2> QED
    BY <2>1, <1>8, <1>10, <1>11, <1>12 DEF IInv, InListOrder
<1>20. NobodySkipped'
  <2>1. f.node = None => f.owed \subseteq f.seen
    BY <1>4, <1>6, <1>8
  <2> QED
    BY <2>1, <1>11, <1>12 DEF IInv, NobodySkipped
<1> QED
  BY <1>13, <1>14, <1>15, <1>16, <1>17, <1>18, <1>19, <1>20 DEF IInv

(* The reference taken keeps the node linked until the Invoke leaves it.     *)
LEMMA VisitKeeps ==
  ASSUME IInv, Visit
  PROVE  IInv'
<1>1. stack # <<>> /\ Top.at = "visit" /\ Top.node # None
  BY DEF Visit, At
<1>2. PICK top \in DOMAIN stack, f \in Invoking, e \in Events, n \in Nodes :
        /\ top = Len(stack) /\ f = Top /\ f = stack[top] /\ e = f.event /\ n = f.node
        /\ Contains(list[e], n)
  BY <1>1, TopFacts
<1>3. PICK g \in Invoking :
        /\ Become(g) /\ g.event = e /\ g.node = n /\ g.owed = f.owed
        /\ \/ Attached(n) /\ g.at = "call" /\ g.seen = f.seen \cup {n}
           \/ ~ Attached(n) /\ g.at = "leave" /\ g.seen = f.seen
  <2>1. CASE Attached(n)
    <3>1. PICK g : g = [f EXCEPT !.at = "call", !.seen = @ \cup {n}]
      OBVIOUS
    <3>2. g \in Invoking /\ g.event = e /\ g.node = n /\ g.owed = f.owed
          /\ g.at = "call" /\ g.seen = f.seen \cup {n}
      BY <3>1, <1>2 DEF Invoking
    <3>3. Become(g)
      BY <2>1, <3>1, <1>2 DEF Visit
    <3> QED
      BY <2>1, <3>2, <3>3
  <2>2. CASE ~ Attached(n)
    <3>1. PICK g : g = [f EXCEPT !.at = "leave"]
      OBVIOUS
    <3>2. g \in Invoking /\ g.event = e /\ g.node = n /\ g.owed = f.owed
          /\ g.at = "leave" /\ g.seen = f.seen
      BY <3>1, <1>2 DEF Invoking
    <3>3. Become(g)
      BY <2>2, <3>1, <1>2 DEF Visit
    <3> QED
      BY <2>2, <3>2, <3>3
  <2> QED
    BY <2>1, <2>2
<1>4. /\ FramesOK' /\ Len(stack') = Len(stack) /\ DOMAIN stack' = DOMAIN stack
      /\ stack'[top] = g /\ \A k \in DOMAIN stack : k # top => stack'[k] = stack[k]
  <2>1. g.at # "visit" => g.node # None
    BY <1>1, <1>2, <1>3
  <2> QED
    BY <2>1, <1>1, <1>2, <1>3, BecomeFacts
<1>5. /\ event_list' = event_list /\ list' = list /\ index' = index
      /\ node' = [node EXCEPT ![n].ref = @ + 1]
  BY <1>2 DEF Visit
<1>6. /\ node' \in [Nodes -> ListenerNode]
      /\ \A m \in Nodes : node'[m].info = node[m].info /\ node'[m].id = node[m].id
      /\ node'[n].ref = node[n].ref + 1
      /\ \A m \in Nodes : m # n => node'[m] = node[m]
  <2>1. node \in [Nodes -> ListenerNode]
    BY DEF IInv, TypeOK
  <2> QED
    BY <2>1, <1>5 DEF ListenerNode
<1>7. \A m \in Nodes : Attached(m)' <=> Attached(m)
  BY <1>6 DEF Attached
<1>8. TypeOK'
  BY <1>4, <1>5, <1>6 DEF IInv, TypeOK
<1>9. RefCountExact'
  <2>1. \A m \in Nodes : m # n => Holders(m)' = Holders(m)
    BY <1>2, <1>3, <1>4 DEF Holders
  <2>2. Holders(n)' = Holders(n) \cup {top} /\ top \notin Holders(n)
    BY <1>1, <1>2, <1>3, <1>4 DEF Holders
  <2>3. Cardinality(Holders(n)') = Cardinality(Holders(n)) + 1 /\ Cardinality(Holders(n)) \in Nat
    BY <2>2, HoldersFinite, FS_AddElement DEF IInv
  <2>4. node[n].ref = Cardinality(Holders(n)) + (IF Attached(n) THEN 1 ELSE 0)
    BY DEF IInv, RefCountExact
  <2>5. node'[n].ref = Cardinality(Holders(n)') + (IF Attached(n)' THEN 1 ELSE 0)
    BY <2>3, <2>4, <1>6, <1>7
  <2> QED
    BY <2>1, <2>5, <1>6, <1>7 DEF IInv, RefCountExact
<1>10. IndexMatchesLists'
  <2>1. TypeOK /\ Parts
    BY PartsMatch DEF IInv
  <2>2. \A d \in Events : EventAlive(d)' <=> EventAlive(d)
    BY <1>2, <1>3, <1>4, <1>5 DEF EventAlive
  <2>3. \A m \in Nodes : node'[m].ref > 0 <=> node[m].ref > 0
    <3>1. node[n].ref \in Nat /\ node[n].ref > 0
      BY <1>2, NodeFacts
    <3>2. node'[n].ref > 0
      BY <3>1, <1>6
    <3> QED
      BY <3>1, <3>2, <1>6
  <2>4. Parts'
    BY <2>1, <2>2, <2>3, <1>5, <1>6, <1>7 DEF Parts
  <2> QED
    BY <2>4, <1>8, PartsMatch
<1>11. NoDanglingNode' /\ OwedAttached'
  <2>1. \A m \in g.owed \cup g.seen : Attached(m) /\ Contains(list[e], m)
    BY <1>2, <1>3 DEF IInv, OwedAttached
  <2>2. \A k \in DOMAIN stack : stack[k].owed \cup stack[k].seen \in SUBSET Nodes
    BY <1>1, TopFacts DEF Invoking
  <2>3. g.owed \cup g.seen \in SUBSET Nodes
    BY DEF Invoking
  <2> QED
    BY <2>1, <2>2, <2>3, <1>2, <1>3, <1>4, <1>5, <1>7 DEF IInv, NoDanglingNode, OwedAttached
<1>12. InListOrder'
  <2>1. /\ \A m \in g.owed \ g.seen : Before(list[e], n, m)
        /\ \A m \in g.seen : Before(list[e], m, n) \/ m = n
    <3>1. /\ \A m \in f.owed \ f.seen : Before(list[e], n, m) \/ m = n
          /\ \A m \in f.seen : Before(list[e], m, n)
      BY <1>1, <1>2 DEF IInv, InListOrder
    <3>2. n \in f.owed => Attached(n)
      BY <1>2 DEF IInv, OwedAttached
    <3> QED
      BY <3>1, <3>2, <1>3
  <2> QED
    BY <2>1, <1>2, <1>3, <1>4, <1>5 DEF IInv, InListOrder
<1>13. NobodySkipped'
  BY <1>2, <1>3, <1>4 DEF IInv, NobodySkipped
<1> QED
  BY <1>4, <1>8, <1>9, <1>10, <1>11, <1>12, <1>13 DEF IInv

(* The listener has returned: the Invoke still holds the node.               *)
LEMMA ListenerReturnsKeeps ==
  ASSUME IInv, ListenerReturns
  PROVE  IInv'
<1>1. stack # <<>> /\ Top.at = "call"
  BY DEF ListenerReturns, At
<1>2. PICK top \in DOMAIN stack, f \in Invoking :
        top = Len(stack) /\ f = Top /\ f = stack[top] /\ f.node \in Nodes
  BY <1>1, TopFacts
<1>3. PICK g \in Invoking :
        /\ Become(g) /\ g.at = "leave" /\ g.event = f.event /\ g.node = f.node
        /\ g.owed = f.owed /\ g.seen = f.seen
  BY <1>2 DEF ListenerReturns, Invoking
<1>4. /\ FramesOK' /\ Len(stack') = Len(stack) /\ DOMAIN stack' = DOMAIN stack
      /\ stack'[top] = g /\ \A k \in DOMAIN stack : k # top => stack'[k] = stack[k]
  BY <1>1, <1>2, <1>3, BecomeFacts
<1>5. event_list' = event_list /\ list' = list /\ index' = index /\ node' = node
  BY DEF ListenerReturns
<1>6. \A k \in DOMAIN stack :
        /\ stack'[k].event = stack[k].event /\ stack'[k].node = stack[k].node
        /\ stack'[k].owed = stack[k].owed /\ stack'[k].seen = stack[k].seen
        /\ stack'[k].at \in {"call", "leave"} <=> stack[k].at \in {"call", "leave"}
        /\ stack'[k].at = "visit" <=> stack[k].at = "visit"
  BY <1>1, <1>2, <1>3, <1>4
<1>7. \A m : Holders(m)' = Holders(m)
  BY <1>4, <1>6 DEF Holders
<1>8. \A d : EventAlive(d)' <=> EventAlive(d)
  BY <1>4, <1>5, <1>6 DEF EventAlive
<1>9. TypeOK' /\ RefCountExact' /\ IndexMatchesLists'
  BY <1>4, <1>5, <1>7, <1>8 DEF IInv, TypeOK, RefCountExact, IndexMatchesLists, Attached
<1>10. NoDanglingNode' /\ OwedAttached' /\ NobodySkipped'
  BY <1>4, <1>5, <1>6 DEF IInv, NoDanglingNode, OwedAttached, NobodySkipped, Attached
<1>11. InListOrder'
  BY <1>4, <1>5, <1>6 DEF IInv, InListOrder
<1> QED
  BY <1>4, <1>9, <1>10, <1>11 DEF IInv

(* The node left is followed by what the walk has still to visit; it goes    *)
(* only if nobody else stands there and its listener was removed.            *)
LEMMA LeaveKeeps ==
  ASSUME IInv, Leave
  PROVE  IInv'
<1>1. stack # <<>> /\ Top.at = "leave"
  BY DEF Leave, At
<1>2. PICK top \in DOMAIN stack, f \in Invoking, e \in Events, n \in Nodes :
        /\ top = Len(stack) /\ f = Top /\ f = stack[top] /\ e = f.event /\ n = f.node
        /\ f.at = "leave" /\ Contains(list[e], n)
  BY <1>1, TopFacts
<1>3. PICK l \in Seq(Nodes) : l = list[e] /\ IsInjective(l) /\ Contains(l, n)
  BY <1>2, ListFacts
<1>4. PICK m : m = NextOf(l, n, None)
  OBVIOUS
<1>5. \/ m = None /\ \A a : Contains(l, a) => a = n \/ Before(l, a, n)
      \/ /\ Contains(l, m) /\ m \in Nodes /\ m # n
         /\ \A a : Before(l, a, m) <=> a = n \/ Before(l, a, n)
         /\ \A a : Before(l, n, a) <=> a = m \/ Before(l, m, a)
  <2>1. \/ m = None /\ \A a : Contains(l, a) => a = n \/ Before(l, a, n)
        \/ /\ Contains(l, m)
           /\ \A a : Before(l, a, m) <=> a = n \/ Before(l, a, n)
           /\ \A a : Before(l, n, a) <=> a = m \/ Before(l, m, a)
    BY <1>3, <1>4, NextOfProperties
  <2>2. \A a : Contains(l, a) => a \in Nodes
    BY ToSetContains
  <2>3. \A a, b : Before(l, a, b) => a # b
    BY <1>3, BeforeIsOrder
  <2> QED
    BY <2>1, <2>2, <2>3
<1>6. PICK g \in Invoking :
        /\ Become(g) /\ g.at = "visit" /\ g.event = e /\ g.node = m
        /\ g.owed = f.owed /\ g.seen = f.seen
  <2>1. PICK g : g = [f EXCEPT !.node = m, !.at = "visit"]
    OBVIOUS
  <2>2. m \in Nodes \cup {None}
    BY <1>5
  <2>3. g \in Invoking /\ g.at = "visit" /\ g.event = e /\ g.node = m
        /\ g.owed = f.owed /\ g.seen = f.seen
    BY <2>1, <2>2, <1>2 DEF Invoking
  <2>4. Become(g)
    BY <2>1, <1>2, <1>3, <1>4 DEF Leave
  <2> QED
    BY <2>3, <2>4
<1>7. /\ FramesOK' /\ Len(stack') = Len(stack) /\ DOMAIN stack' = DOMAIN stack
      /\ stack'[top] = g /\ \A k \in DOMAIN stack : k # top => stack'[k] = stack[k]
  BY <1>1, <1>2, <1>6, BecomeFacts
<1>8. /\ event_list' = event_list /\ index' = index
      /\ node' = [node EXCEPT ![n] = Dereferenced(@)]
      /\ list' = [list EXCEPT ![e] = IF node'[n].ref = 0 THEN Unlinked(@, {n}) ELSE @]
  BY <1>2 DEF Leave
<1>9. top \in Holders(n)
  BY <1>2 DEF Holders
<1>10. /\ node[n] \in ListenerNode /\ node[n].ref \in Nat \ {0}
       /\ Attached(n) => node[n].ref # 1
  BY <1>9, NodeFacts
<1>11. /\ node' \in [Nodes -> ListenerNode]
       /\ \A a \in Nodes : a # n => node'[a] = node[a]
       /\ node'[n].ref = node[n].ref - 1
       /\ \A a \in Nodes : Attached(a)' <=> Attached(a)
       /\ \A a \in Nodes : Attached(a) => node'[a].id = node[a].id /\ node'[a].ref > 0
  <2>1. PICK r : r = node[n]
    OBVIOUS
  <2>2. /\ Dereferenced(r) \in ListenerNode
        /\ Dereferenced(r).ref = r.ref - 1
        /\ r.ref # 1 => Dereferenced(r).info = r.info /\ Dereferenced(r).id = r.id
        /\ Dereferenced(r).info \in {r.info, None}
    BY <2>1, <1>10, DereferencedProperties
  <2>3. node'[n] = Dereferenced(r) /\ \A a \in Nodes : a # n => node'[a] = node[a]
    BY <2>1, <1>8 DEF IInv, TypeOK
  <2>4. node' \in [Nodes -> ListenerNode]
    BY <2>2, <2>3, <1>8 DEF IInv, TypeOK
  <2>5. node'[n].ref = node[n].ref - 1
    BY <2>1, <2>2, <2>3
  <2>6. Attached(n)' <=> Attached(n)
    BY <2>1, <2>2, <2>3, <1>10 DEF Attached
  <2>7. Attached(n) => node'[n].id = node[n].id /\ node'[n].ref > 0
    BY <2>1, <2>2, <2>3, <2>5, <1>10
  <2>8. \A a \in Nodes : Attached(a) => node[a].ref > 0
    BY NodeFacts
  <2> QED
    BY <2>3, <2>4, <2>5, <2>6, <2>7, <2>8 DEF Attached
<1>12. RefCountExact' /\ \A k \in DOMAIN stack : k # top /\ stack[k].node = n => node'[n].ref > 0
  <2>1. \A a \in Nodes : a # n => Holders(a)' = Holders(a)
    BY <1>2, <1>6, <1>7 DEF Holders
  <2>2. Holders(n)' = Holders(n) \ {top}
    BY <1>2, <1>6, <1>7 DEF Holders
  <2>3. Cardinality(Holders(n)') = Cardinality(Holders(n)) - 1 /\ Cardinality(Holders(n)) \in Nat
    BY <2>2, <1>9, HoldersFinite, FS_RemoveElement DEF IInv
  <2>4. node[n].ref = Cardinality(Holders(n)) + (IF Attached(n) THEN 1 ELSE 0)
    BY DEF IInv, RefCountExact
  <2>5. node'[n].ref = Cardinality(Holders(n)') + (IF Attached(n)' THEN 1 ELSE 0)
    BY <2>3, <2>4, <1>11
  <2>6. RefCountExact'
    BY <2>1, <2>5, <1>11 DEF IInv, RefCountExact
  <2>7. ASSUME NEW k \in DOMAIN stack, k # top, stack[k].node = n
        PROVE  node'[n].ref > 0
    <3>1. k \in Holders(n)'
      BY <2>2, <2>7, <1>2 DEF IInv, FramesOK, Holders
    <3>2. PICK h : h = Holders(n)'
      OBVIOUS
    <3>3. IsFiniteSet(h) /\ Cardinality(h) \in Nat /\ h # {}
      BY <3>1, <3>2, <1>7, HoldersFinite
    <3>4. Cardinality(h) # 0
      BY <3>3, FS_EmptySet
    <3> QED
      BY <2>5, <3>2, <3>3, <3>4
  <2> QED
    BY <2>6, <2>7
<1>13. /\ list' \in [Events -> Seq(Nodes)]
       /\ \A d \in Events : IsInjective(list'[d])
       /\ \A d \in Events : d # e => list'[d] = list[d]
       /\ \A d \in Events, a \in Nodes : Contains(list'[d], a) <=>
            Contains(list[d], a) /\ node'[a].ref > 0
       /\ \A a, b \in Nodes : Before(l, a, b) /\ node'[a].ref > 0 /\ node'[b].ref > 0 =>
            Before(list'[e], a, b)
  <2>1. PICK u : u = IF node'[n].ref = 0 THEN Unlinked(l, {n}) ELSE l
    OBVIOUS
  <2>2. list' = [list EXCEPT ![e] = u]
    BY <2>1, <1>3, <1>8
  <2>3. \A d \in Events, a \in Nodes : Contains(list[d], a) => node[a].ref > 0
    BY NodeFacts
  <2>4. /\ u \in Seq(Nodes) /\ IsInjective(u)
        /\ \A a \in Nodes : Contains(u, a) <=> Contains(l, a) /\ node'[a].ref > 0
        /\ \A a, b \in Nodes : Before(l, a, b) /\ node'[a].ref > 0 /\ node'[b].ref > 0 =>
             Before(u, a, b)
    <3>1. CASE node'[n].ref = 0
      <4>1. u = Unlinked(l, {n})
        BY <2>1, <3>1
      <4>2. \A a \in Nodes : Contains(l, a) => (a \notin {n} <=> node'[a].ref > 0)
        BY <2>3, <3>1, <1>3, <1>11
      <4>3. \A a \in Nodes : node'[a].ref > 0 => a \notin {n}
        BY <3>1
      <4> QED
        BY <4>1, <4>2, <4>3, <1>3, UnlinkedProperties
    <3>2. CASE node'[n].ref # 0
      <4>1. u = l
        BY <2>1, <3>2
      <4>2. \A a \in Nodes : Contains(l, a) => node'[a].ref > 0
        BY <2>3, <3>2, <1>3, <1>10, <1>11
      <4> QED
        BY <4>1, <4>2, <1>3
    <3> QED
      BY <3>1, <3>2
  <2>5. /\ list'[e] = u /\ list' \in [Events -> Seq(Nodes)]
        /\ \A d \in Events : d # e => list'[d] = list[d]
    BY <2>2, <2>4 DEF IInv, TypeOK
  <2>6. ASSUME NEW d \in Events, NEW a \in Nodes, d # e, Contains(list[d], a)
        PROVE  node'[a].ref > 0
    <3>1. a # n
      BY <2>6, <1>2, OneList
    <3> QED
      BY <2>3, <2>6, <3>1, <1>11
  <2> QED
    BY <2>4, <2>5, <2>6, <1>3, ListFacts
<1>14. TypeOK'
  BY <1>7, <1>8, <1>11, <1>13 DEF IInv, TypeOK
<1>15. IndexMatchesLists'
  <2>1. TypeOK /\ Parts
    BY PartsMatch DEF IInv
  <2>2. \A d \in Events : EventAlive(d)' <=> EventAlive(d)
    BY <1>2, <1>6, <1>7, <1>8, SMTT(30) DEF EventAlive
  <2>3. \A a \in Nodes : node'[a].ref > 0 => node[a].ref > 0
    BY <1>10, <1>11
  <2>4. \A a \in Nodes : node'[a].ref > 0 <=> \E d \in Events : Contains(list'[d], a)
    BY <2>1, <2>3, <1>13 DEF Parts
  <2>5. \A d \in Events, a \in Nodes : Contains(list'[d], a) /\ Attached(a)' <=>
          Contains(list[d], a) /\ Attached(a)
    BY <1>11, <1>13
  <2>6. \A d \in Events : \A x : x \in index'[d] <=>
          \E a \in Nodes : Contains(list'[d], a) /\ Attached(a)' /\ x = <<node'[a].id, a>>
    <3>1. \A d \in Events : \A x : x \in index[d] <=>
            \E a \in Nodes : Contains(list[d], a) /\ Attached(a) /\ x = <<node[a].id, a>>
      BY <2>1 DEF Parts
    <3>2. \A a \in Nodes : Attached(a) => node'[a].id = node[a].id
      BY <1>11
    <3>3. ASSUME NEW d \in Events, NEW x
          PROVE  x \in index'[d] <=>
                   \E a \in Nodes : Contains(list'[d], a) /\ Attached(a)' /\ x = <<node'[a].id, a>>
      <4>1. \A a \in Nodes : Contains(list'[d], a) /\ Attached(a)' /\ x = <<node'[a].id, a>> <=>
              Contains(list[d], a) /\ Attached(a) /\ x = <<node[a].id, a>>
        BY <3>2, <2>5
      <4> QED
        BY <3>1, <4>1, <1>8
    <3> QED
      BY <3>3
  <2>7. Parts'
    BY <2>1, <2>2, <2>4, <2>6, <1>13 DEF Parts
  <2> QED
    BY <2>7, <1>14, PartsMatch
(* What is owed or seen is attached, and stays linked in its order. *)
<1>16. \A k \in DOMAIN stack :
         /\ stack[k].event \in Events
         /\ \A a \in stack[k].owed \cup stack[k].seen :
              a \in Nodes /\ Attached(a) /\ Contains(list[stack[k].event], a) /\ node'[a].ref > 0
  <2>1. \A k \in DOMAIN stack : stack[k].event \in Events
                                /\ stack[k].owed \cup stack[k].seen \in SUBSET Nodes
    BY <1>1, TopFacts DEF Invoking
  <2> QED
    BY <2>1, <1>11 DEF IInv, OwedAttached
<1>17. OwedAttached'
  <2>1. \A k \in DOMAIN stack : stack'[k].event = stack[k].event
          /\ stack'[k].owed = stack[k].owed /\ stack'[k].seen = stack[k].seen
    BY <1>2, <1>6, <1>7
  <2> QED
    BY <2>1, <1>7, <1>11, <1>13, <1>16 DEF OwedAttached
(* Where another Invoke stands is held. *)
<1>18. \A k \in DOMAIN stack : stack'[k].node # None =>
         /\ stack'[k].node \in Nodes /\ node'[stack'[k].node].ref > 0
         /\ Contains(list'[stack'[k].event], stack'[k].node)
  <2>1. ASSUME NEW k \in DOMAIN stack, k # top, stack[k].node # None
        PROVE  /\ stack[k].node \in Nodes /\ node'[stack[k].node].ref > 0
               /\ Contains(list'[stack[k].event], stack[k].node)
    <3>1. stack[k] \in Invoking /\ stack[k].node \in Nodes /\ stack[k].event \in Events
      BY <2>1, <1>1, TopFacts DEF Invoking
    <3>2. Contains(list[stack[k].event], stack[k].node)
      BY <2>1 DEF IInv, NoDanglingNode
    <3>3. node[stack[k].node].ref > 0
      BY <3>1, <3>2, NodeFacts
    <3>4. node'[stack[k].node].ref > 0
      BY <2>1, <3>1, <3>3, <1>11, <1>12
    <3> QED
      BY <3>1, <3>2, <3>4, <1>13
  <2>2. m # None => m \in Nodes /\ node'[m].ref > 0 /\ Contains(list'[e], m)
    <3>1. m # None => m \in Nodes /\ m # n /\ Contains(list[e], m) /\ node[m].ref > 0
      BY <1>3, <1>5, NodeFacts
    <3> QED
      BY <3>1, <1>11, <1>13
  <2> QED
    BY <2>1, <2>2, <1>6, <1>7
<1>19. NoDanglingNode'
  BY <1>7, <1>18 DEF NoDanglingNode
<1>20. /\ \A a \in f.owed \ f.seen : Before(l, n, a)
       /\ \A a \in f.seen : Before(l, a, n) \/ a = n
  BY <1>2, <1>3 DEF IInv, InListOrder
<1>21. InListOrder'
  <2>1. ASSUME NEW k \in DOMAIN stack, k # top, stack[k].node # None
        PROVE  /\ \A a \in stack[k].owed \ stack[k].seen :
                    Before(list'[stack[k].event], stack[k].node, a)
               /\ \A a \in stack[k].seen :
                    Before(list'[stack[k].event], a, stack[k].node) \/ a = stack[k].node
    <3>1. stack[k].at = "call"
      BY <2>1, <1>2 DEF IInv, FramesOK
    <3>2. /\ \A a \in stack[k].owed \ stack[k].seen :
               Before(list[stack[k].event], stack[k].node, a)
          /\ \A a \in stack[k].seen :
               Before(list[stack[k].event], a, stack[k].node) \/ a = stack[k].node
      BY <2>1, <3>1 DEF IInv, InListOrder
    <3>3. stack[k].node \in Nodes /\ node'[stack[k].node].ref > 0
      BY <2>1, <1>7, <1>18
    <3>4. \A a, b \in Nodes : node'[a].ref > 0 /\ node'[b].ref > 0
            /\ Before(list[stack[k].event], a, b) => Before(list'[stack[k].event], a, b)
      BY <1>3, <1>13, <1>16
    <3> QED
      BY <3>2, <3>3, <3>4, <1>16
  <2>2. ASSUME m # None
        PROVE  /\ \A a \in f.owed \ f.seen : Before(list'[e], m, a) \/ a = m
               /\ \A a \in f.seen : Before(list'[e], a, m)
    <3>1. /\ \A a \in f.owed \ f.seen : Before(l, m, a) \/ a = m
          /\ \A a \in f.seen : Before(l, a, m)
      BY <2>2, <1>5, <1>20
    <3>2. m \in Nodes /\ node'[m].ref > 0
      BY <2>2, <1>6, <1>7, <1>18
    <3> QED
      BY <3>1, <3>2, <1>2, <1>13, <1>16
  <2>3. \A k \in DOMAIN stack : k # top => stack[k].at = "call"
    BY <1>2 DEF IInv, FramesOK
  <2> QED
    BY <2>1, <2>2, <2>3, <1>2, <1>6, <1>7 DEF InListOrder
<1>22. NobodySkipped'
  <2>1. ASSUME m = None PROVE f.owed \subseteq f.seen
    <3>1. \A a \in f.owed : Contains(l, a)
      BY <1>2, <1>3, <1>16
    <3>2. \A a : Contains(l, a) => a = n \/ Before(l, a, n)
      BY <2>1, <1>5
    <3>3. \A a : Before(l, n, a) => a # n /\ ~ Before(l, a, n)
      BY <1>3, BeforeIsOrder
    <3> QED
      BY <3>1, <3>2, <3>3, <1>20
  <2> QED
    BY <2>1, <1>2, <1>6, <1>7 DEF IInv, NobodySkipped
<1> QED
  BY <1>7, <1>12, <1>14, <1>15, <1>17, <1>19, <1>21, <1>22 DEF IInv

(* An Invoke that returns held no node any more; if it was the last to hold  *)
(* its Event, nobody stands at the nodes that go with it.                    *)
LEMMA InvokeReturnsKeeps ==
  ASSUME IInv, InvokeReturns
  PROVE  IInv'
<1>1. stack # <<>> /\ Top.at = "visit" /\ Top.node = None
  BY DEF InvokeReturns, At
<1>2. PICK len \in Nat, e \in Events :
        /\ len + 1 = Len(stack) /\ DOMAIN stack = 1 .. len + 1
        /\ stack[len + 1] = Top /\ e = Top.event
  <2>1. PICK len : len = Len(stack) - 1
    OBVIOUS
  <2>2. len \in Nat /\ len + 1 = Len(stack)
    BY <2>1, <1>1, TopFacts
  <2> QED
    BY <2>2, <1>1, TopFacts
<1>3. stack' = Front(stack) /\ event_list' = event_list
  BY DEF InvokeReturns
<1>4. /\ stack' \in Seq(Invoking) /\ Len(stack') = len /\ DOMAIN stack' = 1 .. len
      /\ \A k \in 1 .. len : stack'[k] = stack[k] /\ k \in DOMAIN stack /\ k # len + 1
  BY <1>1, <1>2, <1>3, FrontProperties DEF IInv, FramesOK
<1>5. \A k \in DOMAIN stack : k \in 1 .. len \/ k = len + 1
  BY <1>2
<1>6. \A k \in 1 .. len : stack[k].at = "call" /\ stack[k].event \in Events
                          /\ stack[k].node \in Nodes
                          /\ stack[k].owed \cup stack[k].seen \in SUBSET Nodes
  <2>1. \A k \in 1 .. len : stack[k] \in Invoking /\ stack[k].at = "call" /\ stack[k].node # None
    BY <1>2, <1>4 DEF IInv, FramesOK
  <2> QED
    BY <2>1 DEF Invoking
<1>7. FramesOK'
  BY <1>4, <1>6 DEF FramesOK, Invoking
<1>8. \A n : Holders(n)' = Holders(n)
  BY <1>1, <1>2, <1>4, <1>5 DEF Holders
<1>9. TypeOK /\ Parts
  BY PartsMatch DEF IInv
<1>10. \A f \in Events : f # e => (EventAlive(f)' <=> EventAlive(f))
  BY <1>2, <1>3, <1>4, <1>5 DEF EventAlive
<1>11. EventAlive(e)' <=> \/ \E t \in Types : event_list[t] = e
                          \/ \E k \in 1 .. len : stack[k].event = e
  BY <1>3, <1>4 DEF EventAlive
<1>12. /\ EventAlive(e)' => list' = list /\ index' = index /\ node' = node
       /\ ~ EventAlive(e)' =>
            /\ node' = [n \in Nodes |-> IF Contains(list[e], n) THEN Freed ELSE node[n]]
            /\ list' = [list EXCEPT ![e] = <<>>] /\ index' = [index EXCEPT ![e] = {}]
  <2>1. 1 .. Len(stack) - 1 = 1 .. len
    BY <1>2
  <2> QED
    BY <2>1, <1>2, <1>11 DEF InvokeReturns
<1>13. CASE EventAlive(e)'
  <2>1. list' = list /\ index' = index /\ node' = node
    BY <1>12, <1>13
  <2>2. TypeOK' /\ RefCountExact'
    BY <2>1, <1>2, <1>3, <1>4, <1>8 DEF IInv, TypeOK, RefCountExact, Attached
  <2>3. IndexMatchesLists'
    <3>1. \A f \in Events : EventAlive(f) => EventAlive(f)'
      BY <1>10, <1>13
    <3> QED
      BY <2>1, <3>1 DEF IInv, IndexMatchesLists, Attached
  <2>4. NoDanglingNode' /\ OwedAttached' /\ InListOrder' /\ NobodySkipped'
    BY <2>1, <1>4 DEF IInv, NoDanglingNode, OwedAttached, InListOrder, NobodySkipped, Attached
  <2> QED
    BY <2>2, <2>3, <2>4, <1>7 DEF IInv
<1>14. CASE ~ EventAlive(e)'
  <2>1. /\ node' = [n \in Nodes |-> IF Contains(list[e], n) THEN Freed ELSE node[n]]
        /\ list' = [list EXCEPT ![e] = <<>>] /\ index' = [index EXCEPT ![e] = {}]
    BY <1>12, <1>14
  <2>2. \A k \in 1 .. len : stack[k].event # e
    BY <1>11, <1>14
  <2>3. /\ list' \in [Events -> Seq(Nodes)] /\ index' \in [Events -> SUBSET (Ids \X Nodes)]
        /\ list'[e] = <<>> /\ index'[e] = {}
        /\ \A f \in Events : f # e => list'[f] = list[f] /\ index'[f] = index[f]
    BY <2>1, <1>9 DEF TypeOK
  <2>4. /\ node' \in [Nodes -> ListenerNode]
        /\ \A n \in Nodes : Contains(list[e], n) =>
             Holders(n) = {} /\ ~ Attached(n)' /\ node'[n].ref = 0
        /\ \A n \in Nodes : ~ Contains(list[e], n) => node'[n] = node[n]
    <3>1. Freed \in ListenerNode /\ Freed.ref = 0 /\ Freed.info = None
      BY DEF Freed, ListenerNode
    <3>2. ASSUME NEW n \in Nodes, Contains(list[e], n), NEW k \in Holders(n) PROVE FALSE
      <4>1. k \in 1 .. len /\ stack[k].node = n
        BY <3>2, <1>1, <1>2, <1>5 DEF Holders
      <4>2. Contains(list[stack[k].event], n)
        BY <4>1, <1>4, <1>6 DEF IInv, NoDanglingNode
      <4> QED
        BY <3>2, <4>1, <4>2, <2>2, <1>6, OneList
    <3> QED
      BY <3>1, <3>2, <2>1, <1>9 DEF TypeOK, Attached
  <2>5. TypeOK'
    BY <2>3, <2>4, <1>2, <1>3, <1>4, <1>9 DEF TypeOK
  <2>6. RefCountExact'
    <3>1. Cardinality({}) = 0
      BY FS_EmptySet
    <3>2. ASSUME NEW n \in Nodes
          PROVE  node'[n].ref = Cardinality(Holders(n)') + (IF Attached(n)' THEN 1 ELSE 0)
      <4>1. CASE Contains(list[e], n)
        <5>1. Holders(n)' = {} /\ ~ Attached(n)' /\ node'[n].ref = 0
          BY <4>1, <2>4, <1>8
        <5> QED
          BY <5>1, <3>1
      <4>2. CASE ~ Contains(list[e], n)
        BY <4>2, <2>4, <1>8 DEF IInv, RefCountExact, Attached
      <4> QED
        BY <4>1, <4>2
    <3> QED
      BY <3>2 DEF RefCountExact
  <2>7. \A n : ~ Contains(list'[e], n)
    BY <2>3 DEF Contains
  <2>8. \A f \in Events, n \in Nodes : f # e /\ Contains(list[f], n) =>
          node'[n] = node[n] /\ (Attached(n)' <=> Attached(n))
    <3>1. \A f \in Events, n \in Nodes : f # e /\ Contains(list[f], n) => ~ Contains(list[e], n)
      BY OneList
    <3> QED
      BY <3>1, <2>4 DEF Attached
  <2>9. IndexMatchesLists'
    <3>1. \A n \in Nodes : node'[n].ref > 0 <=> \E f \in Events : Contains(list'[f], n)
      <4>1. \A n \in Nodes : node[n].ref > 0 <=> \E f \in Events : Contains(list[f], n)
        BY <1>9 DEF Parts
      <4>2. ASSUME NEW n \in Nodes, Contains(list[e], n)
            PROVE  node'[n].ref > 0 <=> \E f \in Events : Contains(list'[f], n)
        <5>1. \A f \in Events : ~ Contains(list'[f], n)
          BY <4>2, <2>3, <2>7, OneList
        <5> QED
          BY <4>2, <5>1, <2>4
      <4>3. ASSUME NEW n \in Nodes, ~ Contains(list[e], n)
            PROVE  node'[n].ref > 0 <=> \E f \in Events : Contains(list'[f], n)
        BY <4>1, <4>3, <2>3, <2>4, <2>7
      <4> QED
        BY <4>2, <4>3
    <3>2. \A f \in Events : \A x : x \in index'[f] <=>
            \E n \in Nodes : Contains(list'[f], n) /\ Attached(n)' /\ x = <<node'[n].id, n>>
      <4>1. \A f \in Events : \A x : x \in index[f] <=>
              \E n \in Nodes : Contains(list[f], n) /\ Attached(n) /\ x = <<node[n].id, n>>
        BY <1>9 DEF Parts
      <4> QED
        BY <4>1, <2>3, <2>7, <2>8
    <3>3. \A f \in Events : IsInjective(list'[f])
      <4>1. IsInjective(list'[e])
        BY <2>3 DEF IsInjective
      <4>2. \A f \in Events : f # e => IsInjective(list'[f])
        BY <2>3, ListFacts
      <4> QED
        BY <4>1, <4>2
    <3>4. Parts'
      BY <3>1, <3>2, <3>3, <2>3, <2>7, <1>9, <1>10 DEF Parts
    <3> QED
      BY <3>4, <2>5, PartsMatch
  <2>10. \A k \in 1 .. len : stack'[k] = stack[k] /\ list'[stack[k].event] = list[stack[k].event]
    BY <2>2, <2>3, <1>4, <1>6
  <2>11. NoDanglingNode' /\ InListOrder' /\ NobodySkipped'
    BY <2>10, <1>4 DEF IInv, NoDanglingNode, InListOrder, NobodySkipped
  <2>12. OwedAttached'
    <3>1. ASSUME NEW k \in 1 .. len, NEW n \in stack[k].owed \cup stack[k].seen
          PROVE  Attached(n)' /\ Contains(list[stack[k].event], n)
      <4>1. n \in Nodes /\ Attached(n) /\ Contains(list[stack[k].event], n)
        BY <3>1, <1>4, <1>6 DEF IInv, OwedAttached
      <4> QED
        BY <4>1, <2>2, <2>8, <1>6
    <3> QED
      BY <3>1, <2>10, <1>4 DEF OwedAttached
  <2> QED
    BY <2>5, <2>6, <2>9, <2>11, <2>12, <1>7 DEF IInv
<1> QED
  BY <1>13, <1>14

-----------------------------------------------------------------------------
(* A stuttering step changes nothing the invariant speaks of.                *)
LEMMA StutterKeeps ==
  ASSUME IInv, UNCHANGED vars
  PROVE  IInv'
<1>1. event_list' = event_list /\ list' = list /\ index' = index /\ node' = node /\ stack' = stack
  BY DEF vars
<1>2. TypeOK' /\ FramesOK' /\ NoDanglingNode' /\ NobodySkipped'
  BY <1>1 DEF IInv, TypeOK, FramesOK, NoDanglingNode, NobodySkipped
<1>3. RefCountExact'
  <2>1. \A n : Holders(n)' = Holders(n)
    BY <1>1 DEF Holders
  <2> QED
    BY <2>1, <1>1 DEF IInv, RefCountExact, Attached
<1>4. IndexMatchesLists'
  BY <1>1 DEF IInv, IndexMatchesLists, EventAlive, Attached
<1>5. OwedAttached' /\ InListOrder'
  BY <1>1 DEF IInv, OwedAttached, InListOrder, Attached
<1> QED
  BY <1>2, <1>3, <1>4, <1>5 DEF IInv

(* No Invoke, no node and no Event at the start. *)
LEMMA InitIInv ==
  ASSUME Init
  PROVE  IInv
<1>1. TypeOK
  <2>1. Freed \in ListenerNode
    BY DEF Freed, ListenerNode
  <2> QED
    BY <2>1 DEF Init, TypeOK
<1>2. FramesOK /\ NoDanglingNode /\ OwedAttached /\ InListOrder /\ NobodySkipped
  BY DEF Init, FramesOK, NoDanglingNode, OwedAttached, InListOrder, NobodySkipped
<1>3. RefCountExact
  <2>1. \A n : Holders(n) = {}
    BY DEF Init, Holders
  <2>2. Cardinality({}) = 0
    BY FS_EmptySet
  <2>3. \A n \in Nodes : node[n].ref = 0 /\ ~ Attached(n)
    BY DEF Init, Attached, Freed
  <2>4. ASSUME NEW n \in Nodes
        PROVE  node[n].ref = Cardinality(Holders(n)) + (IF Attached(n) THEN 1 ELSE 0)
    <3>1. Holders(n) = {} /\ node[n].ref = 0 /\ ~ Attached(n)
      BY <2>1, <2>3
    <3> QED
      BY <3>1, <2>2
  <2> QED
    BY <2>4 DEF RefCountExact
<1>4. Parts
  BY DEF Init, Parts, Contains, IsInjective, Attached, Freed
<1> QED
  BY <1>1, <1>2, <1>3, <1>4, PartsMatch DEF IInv

(* Every action keeps the invariant. *)
LEMMA NextIInv ==
  ASSUME IInv, [Next]_vars
  PROVE  IInv'
<1>1. CASE Client
  <2>1. ASSUME NEW t \in Types, NEW identifier \in Identifiers \cup {None},
               AddListener(t, identifier)
        PROVE  IInv'
    BY <2>1, AddListenerKeeps
  <2>2. ASSUME NEW t \in Types, NEW id \in Ids, RemoveListener(t, id) PROVE IInv'
    BY <2>2, RemoveListenerKeeps
  <2>3. ASSUME NEW t \in Types, RemoveEvent(t) PROVE IInv'
    BY <2>3, RemoveEventsKeeps DEF RemoveEvent
  <2>4. ASSUME RemoveAllEvent PROVE IInv'
    BY <2>4, RemoveEventsKeeps DEF RemoveAllEvent
  <2>5. ASSUME NEW t \in Types, Invoke(t) PROVE IInv'
    BY <2>5, InvokeKeeps
  <2> QED
    BY <1>1, <2>1, <2>2, <2>3, <2>4, <2>5 DEF Client
<1>2. CASE RunInvoke
  BY <1>2, VisitKeeps, ListenerReturnsKeeps, LeaveKeeps, InvokeReturnsKeeps DEF RunInvoke
<1>3. CASE UNCHANGED vars
  BY <1>3, StutterKeeps
<1> QED
  BY <1>1, <1>2, <1>3 DEF Next

(* The inductive invariant of EventManager. *)
THEOREM IInvariance == Spec => []IInv
<1>1. Init => IInv
  BY InitIInv
<1>2. IInv /\ [Next]_vars => IInv'
  BY NextIInv
<1> QED
  BY <1>1, <1>2, PTL DEF Spec

-----------------------------------------------------------------------------
(* Every variable keeps its type, and no more Invokes nest than MaxDepth.    *)
THEOREM TypeCorrect == Spec => []TypeOK
<1>1. IInv => TypeOK
  BY DEF IInv
<1> QED
  BY <1>1, IInvariance, PTL

(* No node is freed under an Invoke, and none is kept once its listener is   *)
(* removed and no Invoke stands there, however deep Invokes nest.            *)
THEOREM CountsExact == Spec => []RefCountExact
<1>1. IInv => RefCountExact
  BY DEF IInv
<1> QED
  BY <1>1, IInvariance, PTL

(* The lists and the indices of all Events agree, and none outlives its      *)
(* Event.                                                                    *)
THEOREM ListsIndexed == Spec => []IndexMatchesLists
<1>1. IInv => IndexMatchesLists
  BY DEF IInv
<1> QED
  BY <1>1, IInvariance, PTL

(* An Invoke never stands at a freed node or at one of another Event.        *)
THEOREM WalksStayLinked == Spec => []NoDanglingNode
<1>1. IInv => NoDanglingNode
  BY DEF IInv
<1> QED
  BY <1>1, IInvariance, PTL

(* Whatever listeners do, an Invoke calls each that was attached all along.  *)
THEOREM EveryListenerCalled == Spec => []NobodySkipped
<1>1. IInv => NobodySkipped
  BY DEF IInv
<1> QED
  BY <1>1, IInvariance, PTL

(* An Invoke calls a listener once at most, and only while it is attached:   *)
(* what it has called comes before the node it is about to visit.            *)
THEOREM NoSecondCall == Spec => CallsOnlyOnce
<1>1. ASSUME IInv, Visit, Top'.at = "call"
      PROVE  Attached(Top.node) /\ Top.node \notin Top.seen
  <2>1. stack # <<>> /\ Top.at = "visit" /\ Top.node # None
    BY <1>1 DEF Visit, At
  <2>2. PICK top \in DOMAIN stack, f \in Invoking, e \in Events, n \in Nodes :
          top = Len(stack) /\ f = Top /\ f = stack[top] /\ e = f.event /\ n = f.node
    BY <1>1, <2>1, TopFacts
  <2>3. Attached(n)
    <3> SUFFICES ASSUME ~ Attached(n) PROVE FALSE
      OBVIOUS
    <3>1. PICK g : g = [f EXCEPT !.at = "leave"]
      OBVIOUS
    <3>2. g \in Invoking /\ g.at = "leave" /\ g.node = n
      BY <3>1, <2>2 DEF Invoking
    <3>3. Become(g)
      BY <3>1, <1>1, <2>2 DEF Visit
    <3>4. stack'[Len(stack)] = g /\ Len(stack') = Len(stack)
      BY <3>2, <3>3, <1>1, <2>1, <2>2, BecomeFacts
    <3>5. Top' = g
      BY <3>4 DEF Top, Last
    <3> QED
      BY <3>2, <3>5, <1>1
  <2>4. n \notin f.seen
    <3>1. \A a \in f.seen : Before(list[e], a, n)
      BY <1>1, <2>1, <2>2 DEF IInv, InListOrder
    <3>2. ~ Before(list[e], n, n)
      BY <1>1, ListFacts, BeforeIsOrder
    <3> QED
      BY <3>1, <3>2
  <2> QED
    BY <2>2, <2>3, <2>4
<1>2. IInv /\ [Next]_vars =>
        [Visit /\ Top'.at = "call" => Attached(Top.node) /\ Top.node \notin Top.seen]_vars
  BY <1>1
<1> QED
  BY <1>2, IInvariance, PTL DEF Spec, CallsOnlyOnce
=============================================================================
