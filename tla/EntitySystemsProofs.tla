------------------------ MODULE EntitySystemsProofs ------------------------
(***************************************************************************)
(* Proofs about EntitySystems for any number of classes, systems, nodes    *)
(* and nested operations.                                                  *)
(*                                                                         *)
(* IInv is inductive.  What NodesSafe, TableAgrees and WalkCompletes say   *)
(* rests on the shape of the frames (FrameOK), on where each system is     *)
(* (SystemPlaces), on AddSystems of distinct classes being in progress     *)
(* (Adding) and on the order in which a walk meets the nodes (WalkOK).     *)
(***************************************************************************)
EXTENDS EntitySystems, SequenceTheorems, FiniteSetTheorems, TLAPS

-----------------------------------------------------------------------------
(* Sequences and linked lists. *)

(* A set with one member at most, counted. *)
LEMMA CountAtMostOne ==
  ASSUME NEW S, \A x, y \in S : x = y
  PROVE  Cardinality(S) = IF S = {} THEN 0 ELSE 1
<1>1. CASE S = {}
  BY <1>1, FS_EmptySet
<1>2. CASE S # {}
  <2>1. PICK x : S = {x}
    BY <1>2
  <2> QED
    BY <1>2, <2>1, FS_Singleton
<1> QED
  BY <1>1, <1>2

(* A stack without its top (Front, as a frame returns).                      *)
LEMMA FrontProperties ==
  ASSUME NEW S, NEW s \in Seq(S), s # <<>>
  PROVE  /\ Len(s) \in Nat \ {0}
         /\ Last(s) \in S /\ Last(s) = s[Len(s)]
         /\ Front(s) \in Seq(S)
         /\ Len(Front(s)) = Len(s) - 1
         /\ DOMAIN Front(s) = 1 .. Len(s) - 1
         /\ \A i \in 1 .. Len(s) - 1 : Front(s)[i] = s[i]
<1>1. Len(s) \in Nat \ {0} /\ \A i \in 1 .. Len(s) : s[i] \in S
  OBVIOUS
<1>2. PICK n \in Nat : n = Len(s) - 1
  BY <1>1
<1>3. PICK f : f = SubSeq(s, 1, n)
  OBVIOUS
<1>4. /\ f \in Seq(S)
      /\ Len(f) = IF 1 <= n THEN n - 1 + 1 ELSE 0
      /\ \A i \in 1 .. n - 1 + 1 : f[i] = s[1 + i - 1]
  BY <1>1, <1>2, <1>3, SubSeqProperties
<1>5. Len(f) = n /\ DOMAIN f = 1 .. n /\ \A i \in 1 .. n : f[i] = s[i]
  BY <1>4
<1>6. Front(s) = f /\ Last(s) = s[Len(s)]
  BY <1>2, <1>3 DEF Front, Last
<1> QED
  BY <1>1, <1>2, <1>4, <1>5, <1>6

(* A function on 1 .. d is a sequence.                                       *)
LEMMA FunctionIsSeq ==
  ASSUME NEW S, NEW d \in Nat, NEW f \in [1 .. d -> S]
  PROVE  f \in Seq(S) /\ Len(f) = d /\ DOMAIN f = 1 .. d
<1>1. f \in Seq(S)
  BY SeqDef
<1> QED
  BY <1>1, LenProperties

(* The elements of a sequence, as ToSet and as Contains give them.           *)
LEMMA ToSetContains ==
  ASSUME NEW S, NEW s \in Seq(S)
  PROVE  /\ \A x : x \in ToSet(s) <=> Contains(s, x)
         /\ \A x : Contains(s, x) => x \in S
         /\ s # <<>> <=> \E x \in S : Contains(s, x)
  BY DEF ToSet, Contains

(* The rank of a place among places: how many of them come up to it. *)
Rank(places, i) == Cardinality({k \in places : k <= i})

(* Ranks grow with the places, and each rank up to their number is taken.    *)
LEMMA RankProperties ==
  ASSUME NEW len \in Nat, NEW places \in SUBSET (1 .. len)
  PROVE  /\ Cardinality(places) \in Nat
         /\ \A i \in places : Rank(places, i) \in 1 .. Cardinality(places)
         /\ \A i, j \in places : i < j => Rank(places, i) < Rank(places, j)
         /\ \A r \in 1 .. Cardinality(places) : \E i \in places : Rank(places, i) = r
<1> DEFINE upto(i) == {k \in places : k <= i}
<1>1. IsFiniteSet(places) /\ Cardinality(places) \in Nat
  <2>1. IsFiniteSet(1 .. len)
    BY FS_Interval
  <2> QED
    BY <2>1, FS_Subset, FS_CardinalityType
<1>2. \A i : IsFiniteSet(upto(i)) /\ Cardinality(upto(i)) \in Nat
             /\ Cardinality(upto(i)) <= Cardinality(places)
  BY <1>1, FS_Subset, FS_CardinalityType
<1>3. \A i \in places : Cardinality(upto(i)) # 0
  BY <1>2, FS_EmptySet
<1>4. ASSUME NEW i \in places, NEW j \in places, i < j
      PROVE  Cardinality(upto(i)) < Cardinality(upto(j))
  <2>1. upto(i) \in SUBSET upto(j) /\ j \in upto(j) /\ j \notin upto(i)
    <3>1. \A k \in places : k \in Int
      OBVIOUS
    <3>2. \A k \in places : k <= i => k <= j
      BY <1>4, <3>1
    <3>3. j <= j /\ ~ j <= i
      BY <1>4, <3>1
    <3> QED
      BY <3>2, <3>3
  <2>2. /\ Cardinality(upto(i)) <= Cardinality(upto(j))
        /\ Cardinality(upto(j)) = Cardinality(upto(i)) => upto(j) = upto(i)
    <3> HIDE DEF upto
    <3> QED
      BY <1>2, <2>1, FS_Subset
  <2> QED
    BY <1>2, <2>1, <2>2
<1>5. \A r \in 1 .. Cardinality(places) : \E i \in places : Rank(places, i) = r
  <2> DEFINE f == [i \in places |-> Cardinality(upto(i))]
             T == 1 .. Cardinality(places)
  <2>1. IsFiniteSet(T) /\ Cardinality(T) = Cardinality(places)
    BY <1>1, FS_Interval
  <2>2. f \in [places -> T]
    BY <1>1, <1>2, <1>3
  <2>3. \A i, j \in places : i # j => f[i] # f[j]
    <3>1. \A i, j \in places : i < j \/ j < i \/ i = j
      OBVIOUS
    <3>2. \A i, j \in places : i < j => f[i] # f[j]
      BY <1>2, <1>4
    <3> QED
      BY <3>1, <3>2
  <2>4. f \in Injection(places, T)
    BY <2>2, <2>3 DEF Injection, IsInjective
  <2>5. f \in Surjection(places, T)
    BY <1>1, <2>1, <2>4, FS_Injection
  <2> QED
    BY <2>5 DEF Surjection, Rank
<1> QED
  BY <1>1, <1>2, <1>3, <1>4, <1>5 DEF Rank

(* Unlinked keeps the places outside S, in their order.                      *)
LEMMA UnlinkedPlaces ==
  ASSUME NEW T, NEW l \in Seq(T), NEW S, NEW u, u = Unlinked(l, S)
  PROVE  /\ u \in Seq(T)
         /\ \E at \in [DOMAIN u -> DOMAIN l] :
              /\ \A i, j \in DOMAIN u : i < j <=> at[i] < at[j]
              /\ \A j \in DOMAIN u : l[at[j]] \notin S /\ u[j] = l[at[j]]
              /\ \A i \in DOMAIN l : l[i] \notin S => \E j \in DOMAIN u : at[j] = i
<1>1. PICK len \in Nat : len = Len(l)
  OBVIOUS
<1>2. PICK places \in SUBSET (1 .. len) : places = {i \in DOMAIN l : l[i] \notin S}
  <2>1. DOMAIN l = 1 .. len
    BY <1>1
  <2> QED
    BY <2>1
<1>3. PICK c \in Nat : c = Cardinality(places)
  BY RankProperties
<1> DEFINE Nth(r) == CHOOSE i \in places : Rank(places, i) = r
<1>4. \A r \in 1 .. c : Nth(r) \in places /\ Rank(places, Nth(r)) = r
  BY <1>3, RankProperties
<1>5. \A i, j \in places : i < j => Rank(places, i) < Rank(places, j)
  BY RankProperties
<1>6. \A i \in places : Rank(places, i) \in 1 .. c
  BY <1>3, RankProperties
<1>7. PICK at : at = [r \in 1 .. c |-> Nth(r)]
  OBVIOUS
<1>8. at \in [1 .. c -> places] /\ \A r \in 1 .. c : Rank(places, at[r]) = r
  BY <1>4, <1>7
<1>9. u = [j \in 1 .. c |-> l[at[j]]]
  BY <1>2, <1>3, <1>7 DEF Unlinked, Rank
<1> HIDE DEF Nth
<1>10. \A j \in 1 .. c : at[j] \in DOMAIN l /\ l[at[j]] \notin S
  BY <1>2, <1>8
<1>11. u \in Seq(T) /\ DOMAIN u = 1 .. c
  BY <1>9, <1>10
<1>12. \A i, j \in 1 .. c : i < j <=> at[i] < at[j]
  <2> SUFFICES ASSUME NEW i \in 1 .. c, NEW j \in 1 .. c PROVE i < j <=> at[i] < at[j]
    OBVIOUS
  <2>1. /\ at[i] \in 1 .. len /\ at[j] \in 1 .. len /\ at[i] \in places /\ at[j] \in places
        /\ Rank(places, at[i]) = i /\ Rank(places, at[j]) = j
    BY <1>8
  <2>2. at[i] < at[j] \/ at[j] < at[i] \/ at[i] = at[j]
    BY <2>1
  <2> QED
    BY <2>1, <2>2, <1>5
<1>13. \A i \in places : \E j \in 1 .. c : at[j] = i
  <2> SUFFICES ASSUME NEW i \in places PROVE \E j \in 1 .. c : at[j] = i
    OBVIOUS
  <2>1. PICK r \in 1 .. c : r = Rank(places, i)
    BY <1>6
  <2>2. at[r] \in places /\ Rank(places, at[r]) = Rank(places, i)
    BY <2>1, <1>8
  <2>3. at[r] \in 1 .. len /\ i \in 1 .. len
    BY <2>2
  <2>4. at[r] < i \/ i < at[r] \/ at[r] = i
    BY <2>3
  <2>5. ~ (at[r] < i) /\ ~ (i < at[r])
    <3>1. r \in Nat /\ ~ (r < r)
      OBVIOUS
    <3> QED
      BY <3>1, <2>1, <2>2, <1>5
  <2> QED
    BY <2>4, <2>5
<1>14. at \in [DOMAIN u -> DOMAIN l]
  BY <1>8, <1>10, <1>11
<1>15. /\ \A i, j \in DOMAIN u : i < j <=> at[i] < at[j]
       /\ \A j \in DOMAIN u : l[at[j]] \notin S /\ u[j] = l[at[j]]
       /\ \A i \in DOMAIN l : l[i] \notin S => \E j \in DOMAIN u : at[j] = i
  BY <1>2, <1>9, <1>10, <1>11, <1>12, <1>13
<1> QED
  BY <1>11, <1>14, <1>15

(* a comes before b in l. *)
Before(l, a, b) == \E i, j \in DOMAIN l : i < j /\ l[i] = a /\ l[j] = b

(* What stays linked is what is not in S, in the same order.                 *)
LEMMA UnlinkedProperties ==
  ASSUME NEW T, NEW l \in Seq(T), NEW S
  PROVE  /\ Unlinked(l, S) \in Seq(T)
         /\ \A n : Contains(Unlinked(l, S), n) <=> Contains(l, n) /\ n \notin S
         /\ IsInjective(l) => IsInjective(Unlinked(l, S))
         /\ \A a, b : Before(Unlinked(l, S), a, b) <=> Before(l, a, b) /\ a \notin S /\ b \notin S
<1>1. PICK u : u = Unlinked(l, S)
  OBVIOUS
<1>2. u \in Seq(T)
  BY <1>1, UnlinkedPlaces
<1>3. PICK at \in [DOMAIN u -> DOMAIN l] :
        /\ \A i, j \in DOMAIN u : i < j <=> at[i] < at[j]
        /\ \A j \in DOMAIN u : l[at[j]] \notin S /\ u[j] = l[at[j]]
        /\ \A i \in DOMAIN l : l[i] \notin S => \E j \in DOMAIN u : at[j] = i
  BY <1>1, UnlinkedPlaces, SMTT(30)
<1>4. DOMAIN u = 1 .. Len(u) /\ DOMAIN l = 1 .. Len(l) /\ Len(u) \in Nat /\ Len(l) \in Nat
  BY <1>2
<1>5. \A n : Contains(u, n) <=> Contains(l, n) /\ n \notin S
  <2> SUFFICES ASSUME NEW n
               PROVE  Contains(u, n) <=> Contains(l, n) /\ n \notin S
    OBVIOUS
  <2>1. ASSUME Contains(u, n) PROVE Contains(l, n) /\ n \notin S
    <3>1. PICK j \in DOMAIN u : u[j] = n
      BY <2>1, <1>4 DEF Contains
    <3>2. at[j] \in DOMAIN l /\ l[at[j]] = n /\ n \notin S
      BY <3>1, <1>3
    <3> QED
      BY <3>2, <1>4 DEF Contains
  <2>2. ASSUME Contains(l, n), n \notin S PROVE Contains(u, n)
    <3>1. PICK i \in DOMAIN l : l[i] = n
      BY <2>2, <1>4 DEF Contains
    <3>2. PICK j \in DOMAIN u : at[j] = i
      BY <3>1, <2>2, <1>3
    <3>3. u[j] = n
      BY <3>1, <3>2, <1>3
    <3> QED
      BY <3>3, <1>4 DEF Contains
  <2> QED
    BY <2>1, <2>2
<1>6. ASSUME IsInjective(l) PROVE IsInjective(u)
  <2>1. \A i, j \in DOMAIN u : u[i] = u[j] => at[i] = at[j]
    BY <1>3, <1>6 DEF IsInjective
  <2>2. \A i, j \in DOMAIN u : i < j \/ j < i \/ i = j
    BY <1>4
  <2> QED
    BY <2>1, <2>2, <1>3, <1>4 DEF IsInjective
<1>7. \A a, b : Before(u, a, b) <=> Before(l, a, b) /\ a \notin S /\ b \notin S
  BY <1>3 DEF Before
<1> QED
  BY <1>1, <1>2, <1>5, <1>6, <1>7

(* In a list without repetition, before is a strict total order.             *)
LEMMA BeforeIsOrder ==
  ASSUME NEW T, NEW l \in Seq(T), IsInjective(l)
  PROVE  /\ \A a, b : Before(l, a, b) =>
              a # b /\ ~ Before(l, b, a) /\ Contains(l, a) /\ Contains(l, b)
         /\ \A a, b : Contains(l, a) /\ Contains(l, b) =>
              a = b \/ Before(l, a, b) \/ Before(l, b, a)
         /\ \A a, b, c : Before(l, a, b) /\ Before(l, b, c) => Before(l, a, c)
<1>1. /\ DOMAIN l = 1 .. Len(l) /\ Len(l) \in Nat
      /\ \A i, j \in 1 .. Len(l) : l[i] = l[j] => i = j
  BY DEF IsInjective
<1> QED
  BY <1>1 DEF Before, Contains

(* PushBack(), under a name the provers do not take apart. *)
PushBack(l, n) == Append(l, n)

(* A node linked at the end comes after all others.                          *)
LEMMA LinkedLast ==
  ASSUME NEW T, NEW l \in Seq(T), NEW n \in T, NEW u, u = PushBack(l, n)
  PROVE  /\ u \in Seq(T)
         /\ \A a : Contains(u, a) <=> Contains(l, a) \/ a = n
         /\ IsInjective(l) /\ ~ Contains(l, n) => IsInjective(u)
         /\ \A a, b : Before(u, a, b) <=> Before(l, a, b) \/ (Contains(l, a) /\ b = n)
<1>1. PICK len \in Nat : len = Len(l)
  OBVIOUS
<1>2. /\ DOMAIN l = 1 .. len /\ u \in Seq(T) /\ DOMAIN u = 1 .. len + 1 /\ Len(u) = len + 1
      /\ u[len + 1] = n /\ \A i \in 1 .. len : u[i] = l[i]
  BY <1>1 DEF PushBack
<1>3. \A i \in 1 .. len + 1 : i \in 1 .. len \/ i = len + 1
  OBVIOUS
<1>4. \A a : Contains(u, a) <=> Contains(l, a) \/ a = n
  BY <1>1, <1>2, <1>3 DEF Contains
<1>5. IsInjective(l) /\ ~ Contains(l, n) => IsInjective(u)
  BY <1>1, <1>2, <1>3 DEF Contains, IsInjective
<1>6. \A a, b : Before(l, a, b) \/ (Contains(l, a) /\ b = n) => Before(u, a, b)
  BY <1>1, <1>2 DEF Contains, Before
<1>7. \A a, b : Before(u, a, b) => Before(l, a, b) \/ (Contains(l, a) /\ b = n)
  BY <1>1, <1>2, <1>3 DEF Contains, Before
<1> QED
  BY <1>2, <1>4, <1>5, <1>6, <1>7

(* The first node comes before all others.                                   *)
LEMMA FirstOfProperties ==
  ASSUME NEW T, NEW l \in Seq(T), IsInjective(l), NEW end, NEW m, m = FirstOf(l, end)
  PROVE  \/ m = end /\ l = <<>> /\ \A a : ~ Contains(l, a)
         \/ /\ Contains(l, m)
            /\ \A a : ~ Before(l, a, m)
            /\ \A a : Contains(l, a) => a = m \/ Before(l, m, a)
<1>1. DOMAIN l = 1 .. Len(l) /\ Len(l) \in Nat
  OBVIOUS
<1>2. CASE l = <<>>
  BY <1>2 DEF FirstOf, Contains
<1>3. CASE l # <<>>
  <2>1. Len(l) \in Nat \ {0} /\ m = l[1]
    BY <1>3 DEF FirstOf
  <2>2. Contains(l, m)
    BY <2>1 DEF Contains
  <2>3. \A a : ~ Before(l, a, m)
    BY <2>1, <1>1 DEF Before, IsInjective
  <2> QED
    BY <2>2, <2>3, BeforeIsOrder
<1> QED
  BY <1>2, <1>3

(* No node comes between a node and the next one.                            *)
LEMMA NextOfProperties ==
  ASSUME NEW T, NEW l \in Seq(T), IsInjective(l), NEW n, Contains(l, n),
         NEW end, NEW m, m = NextOf(l, n, end)
  PROVE  \/ m = end /\ \A a : Contains(l, a) => a = n \/ Before(l, a, n)
         \/ /\ Contains(l, m)
            /\ \A a : Before(l, a, m) <=> a = n \/ Before(l, a, n)
            /\ \A a : Before(l, n, a) <=> a = m \/ Before(l, m, a)
<1>1. PICK len \in Nat : len = Len(l) /\ DOMAIN l = 1 .. len
  OBVIOUS
<1>2. \A i, j \in 1 .. len : l[i] = l[j] => i = j
  BY <1>1 DEF IsInjective
<1>3. PICK place : place = CHOOSE i \in DOMAIN l : l[i] = n
  OBVIOUS
<1>4. m = IF place = Len(l) THEN end ELSE l[place + 1]
  BY <1>3 DEF NextOf
<1>5. PICK k \in 1 .. len : l[k] = n /\ m = IF k = len THEN end ELSE l[k + 1]
  <2>1. \E i \in DOMAIN l : l[i] = n
    BY <1>1 DEF Contains
  <2>2. place \in DOMAIN l /\ l[place] = n
    BY <2>1, <1>3, Zenon
  <2> QED
    BY <2>2, <1>1, <1>4
<1>6. CASE k = len
  <2>1. \A a : Contains(l, a) => a = n \/ Before(l, a, n)
    BY <1>1, <1>5, <1>6 DEF Contains, Before
  <2> QED
    BY <2>1, <1>5, <1>6
<1>7. CASE k # len
  <2>1. k + 1 \in 1 .. len /\ l[k + 1] = m /\ k \in Int
    BY <1>1, <1>5, <1>7
  <2>2. Contains(l, m)
    BY <1>1, <2>1 DEF Contains
  <2>3. \A a : Before(l, a, m) <=> a = n \/ Before(l, a, n)
    <3>1. \A i \in 1 .. len : i < k + 1 <=> i = k \/ i < k
      BY <2>1
    <3> QED
      BY <1>1, <1>2, <1>5, <2>1, <3>1 DEF Before
  <2>4. \A a : Before(l, n, a) <=> a = m \/ Before(l, m, a)
    <3>1. \A i \in 1 .. len : k < i <=> i = k + 1 \/ k + 1 < i
      BY <2>1
    <3> QED
      BY <1>1, <1>2, <1>5, <2>1, <3>1 DEF Before
  <2> QED
    BY <2>2, <2>3, <2>4
<1> QED
  BY <1>6, <1>7

-----------------------------------------------------------------------------
USE NoneAssumption, DepthAssumption

SystemNode == [system : Systems \cup {None}, ref : Nat]

TypeOK ==
  /\ systems \in [Classes -> Nodes \cup {None}]
  /\ system_list \in Seq(Nodes) /\ IsInjective(system_list)
  /\ node \in [Nodes -> SystemNode]
  /\ class \in [Systems -> Classes \cup {None}]

Operation ==
  [op : {"AddSystem", "RemoveSystem", "RemoveAllSystem", "Update", "UpdateAll"},
   class : Classes \cup {None}, system : Systems \cup {None}, n : Nodes \cup {None},
   at : {"client", "visit", "leave"}, owed : SUBSET Nodes, seen : SUBSET Nodes]

(* Only a walk stands at nodes; only AddSystem has a class; a system is in   *)
(* the hands of the operation that deletes it.                               *)
FrameOK(f) ==
  /\ f.op \in {"AddSystem", "RemoveSystem", "Update"} =>
       f.at = "client" /\ f.n = None /\ f.owed = {}
  /\ f.op \in {"RemoveAllSystem", "UpdateAll"} /\ f.at # "visit" => f.n # None
  /\ f.class # None <=> f.op = "AddSystem"
  /\ f.system # None <=> f.op = "RemoveSystem" \/ (f.op = "RemoveAllSystem" /\ f.at = "client")
  /\ f.op = "RemoveAllSystem" => f.seen = {}

(* A walk stands at a linked node, what it owes is attached, and what it     *)
(* still has to run comes at its place or later.                             *)
WalkOK(f) ==
  /\ f.n # None => Contains(system_list, f.n)
  /\ \A a \in f.owed : Attached(a)
  /\ \A a \in f.owed \ f.seen :
       /\ f.n # None
       /\ Before(system_list, f.n, a) \/ (a = f.n /\ f.at = "visit")

FramesOK ==
  /\ stack \in Seq(Operation)
  /\ \A k \in DOMAIN stack :
       /\ FrameOK(stack[k])
       /\ k # Len(stack) => stack[k].at = "client"

Walks == \A k \in DOMAIN stack : WalkOK(stack[k])

Counts ==
  \A n \in Nodes : node[n].ref = Cardinality(Holders(n)) + (IF Attached(n) THEN 1 ELSE 0)

Linked == \A n \in Nodes : node[n].ref > 0 <=> Contains(system_list, n)

(* No system is registered of a class under construction. *)
Adding ==
  \A k \in DOMAIN stack : stack[k].class # None =>
    /\ systems[stack[k].class] = None
    /\ \A j \in DOMAIN stack : stack[j].class = stack[k].class => j = k

Entries ==
  \A k \in Classes, n \in Nodes :
    systems[k] = n <=> Attached(n) /\ class[node[n].system] = k

(* The operations that delete a system. *)
Deleters(s) == {k \in DOMAIN stack : stack[k].system = s}

(* A system allocated is at one node or in the hands of one operation. *)
SystemPlaces ==
  \A s \in Systems :
    /\ class[s] # None <=> (\E n \in Nodes : node[n].system = s) \/ Deleters(s) # {}
    /\ \A n, m \in Nodes : node[n].system = s /\ node[m].system = s => n = m
    /\ \A j, k \in Deleters(s) : j = k
    /\ (\E n \in Nodes : node[n].system = s) => Deleters(s) = {}

IInv ==
  /\ TypeOK /\ FramesOK /\ Walks
  /\ Counts /\ Linked /\ Adding /\ Entries /\ SystemPlaces

-----------------------------------------------------------------------------
(* IInv says what the properties say. *)

(* A node has finitely many holders, before and after a step.                *)
LEMMA HoldersFinite ==
  ASSUME NEW n
  PROVE  /\ FramesOK => IsFiniteSet(Holders(n)) /\ Cardinality(Holders(n)) \in Nat
         /\ FramesOK' => IsFiniteSet(Holders(n)') /\ Cardinality(Holders(n)') \in Nat
<1>1. ASSUME NEW d \in Nat, NEW h \in SUBSET (1 .. d)
      PROVE  IsFiniteSet(h) /\ Cardinality(h) \in Nat
  <2>1. IsFiniteSet(1 .. d)
    BY FS_Interval
  <2> QED
    BY <2>1, FS_Subset, FS_CardinalityType
<1>2. ASSUME FramesOK
      PROVE  IsFiniteSet(Holders(n)) /\ Cardinality(Holders(n)) \in Nat
  <2>1. PICK d \in Nat : DOMAIN stack = 1 .. d
    BY <1>2 DEF FramesOK
  <2>2. Holders(n) \in SUBSET (1 .. d)
    BY <2>1 DEF Holders
  <2> QED
    BY <1>1, <2>2
<1>3. ASSUME FramesOK'
      PROVE  IsFiniteSet(Holders(n)') /\ Cardinality(Holders(n)') \in Nat
  <2>1. PICK d \in Nat : DOMAIN stack' = 1 .. d
    BY <1>3 DEF FramesOK
  <2>2. PICK h : h = Holders(n)'
    OBVIOUS
  <2>3. h \in SUBSET (1 .. d)
    BY <2>1, <2>2 DEF Holders
  <2> QED
    BY <1>1, <2>2, <2>3
<1> QED
  BY <1>2, <1>3

(* IInv implies the three invariants. *)
LEMMA IInvImplies == IInv => NodesSafe /\ TableAgrees /\ WalkCompletes
<1> SUFFICES ASSUME IInv PROVE NodesSafe /\ TableAgrees /\ WalkCompletes
  OBVIOUS
<1>1. NodesSafe
  BY DEF IInv, NodesSafe, Counts, Linked, Walks, WalkOK
<1>2. TableAgrees
  <2>1. ASSUME NEW s \in Systems
        PROVE  Cardinality({n \in Nodes : node[n].system = s})
                 + Cardinality({k \in DOMAIN stack : stack[k].system = s})
                 = (IF class[s] # None THEN 1 ELSE 0)
    <3>1. PICK h, d : h = {n \in Nodes : node[n].system = s} /\ d = Deleters(s)
      OBVIOUS
    <3>2. /\ \A x, y \in h : x = y
          /\ \A x, y \in d : x = y
          /\ class[s] # None <=> h # {} \/ d # {}
          /\ h # {} => d = {}
      BY <3>1 DEF IInv, SystemPlaces
    <3>3. Cardinality(h) = (IF h = {} THEN 0 ELSE 1)
      BY <3>2, CountAtMostOne
    <3>4. Cardinality(d) = (IF d = {} THEN 0 ELSE 1)
      BY <3>2, CountAtMostOne
    <3>5. Cardinality(h) + Cardinality(d) = (IF class[s] # None THEN 1 ELSE 0)
      BY <3>2, <3>3, <3>4
    <3> QED
      BY <3>1, <3>5 DEF Deleters
  <2> QED
    BY <2>1 DEF IInv, Entries, TableAgrees
<1>3. WalkCompletes
  <2>1. \A k \in DOMAIN stack : WalkOK(stack[k]) /\ FrameOK(stack[k])
    BY DEF IInv, Walks, FramesOK
  <2> QED
    BY <2>1 DEF WalkOK, FrameOK, WalkCompletes
<1> QED
  BY <1>1, <1>2, <1>3

(* What IInv says of one node. *)
LEMMA NodeFacts ==
  ASSUME IInv, NEW n \in Nodes
  PROVE  /\ node[n] \in SystemNode /\ node[n].ref \in Nat
         /\ Attached(n) => node[n].ref # 0 /\ node[n].system \in Systems
         /\ Holders(n) # {} => node[n].ref # 0
         /\ Attached(n) /\ Holders(n) # {} => node[n].ref # 1
         /\ node[n].ref > 0 <=> Contains(system_list, n)
<1>1. IsFiniteSet(Holders(n)) /\ Cardinality(Holders(n)) \in Nat
  BY HoldersFinite DEF IInv
<1>2. Holders(n) # {} => Cardinality(Holders(n)) # 0
  BY <1>1, FS_EmptySet
<1>3. node[n].ref = Cardinality(Holders(n)) + (IF Attached(n) THEN 1 ELSE 0)
  BY DEF IInv, Counts
<1>4. node[n] \in SystemNode /\ node[n].ref \in Nat /\ node[n].system \in Systems \cup {None}
  BY DEF IInv, TypeOK, SystemNode
<1>5. node[n].ref > 0 <=> Contains(system_list, n)
  BY DEF IInv, Linked
<1> QED
  BY <1>1, <1>2, <1>3, <1>4, <1>5 DEF Attached

-----------------------------------------------------------------------------
(* Steps that change the stack only. *)

(* The operation in progress. *)
LEMMA TopFacts ==
  ASSUME IInv, stack # <<>>
  PROVE  /\ Len(stack) \in Nat \ {0} /\ DOMAIN stack = 1 .. Len(stack)
         /\ Len(stack) \in DOMAIN stack /\ Top = stack[Len(stack)]
         /\ Top \in Operation /\ FrameOK(Top) /\ WalkOK(Top)
         /\ \A k \in DOMAIN stack : stack[k] \in Operation /\ FrameOK(stack[k]) /\ WalkOK(stack[k])
         /\ \A k \in DOMAIN stack : k # Len(stack) => stack[k].at = "client"
<1>1. stack \in Seq(Operation) /\ Len(stack) \in Nat \ {0} /\ DOMAIN stack = 1 .. Len(stack)
  BY DEF IInv, FramesOK
<1>2. Top = stack[Len(stack)] /\ Len(stack) \in DOMAIN stack
  BY <1>1 DEF Top, Last
<1>3. \A k \in DOMAIN stack : stack[k] \in Operation
  BY <1>1
<1>4. \A k \in DOMAIN stack :
        FrameOK(stack[k]) /\ WalkOK(stack[k]) /\ (k # Len(stack) => stack[k].at = "client")
  BY DEF IInv, FramesOK, Walks
<1> QED
  BY <1>1, <1>2, <1>3, <1>4

(* A step of the stack that leaves nodes and systems in the same hands.      *)
LEMMA StackMoves ==
  ASSUME IInv, UNCHANGED manager, FramesOK', Adding',
         \A k \in DOMAIN stack' : WalkOK(stack'[k]),
         \A n \in Nodes : Holders(n)' = Holders(n),
         \A s \in Systems : Deleters(s)' = Deleters(s)
  PROVE  IInv'
<1>1. /\ systems' = systems /\ system_list' = system_list /\ node' = node /\ class' = class
  BY DEF manager
<1>2. TypeOK' /\ Linked' /\ Entries'
  BY <1>1 DEF IInv, TypeOK, Linked, Entries, Attached
<1>3. Walks'
  BY <1>1 DEF Walks, WalkOK, Attached
<1>4. Counts'
  BY <1>1 DEF IInv, Counts, Attached
<1>5. SystemPlaces'
  BY <1>1 DEF IInv, SystemPlaces
<1> QED
  BY <1>2, <1>3, <1>4, <1>5 DEF IInv

(* A sequence of operations with one more, seen frame by frame.              *)
LEMMA Pushed ==
  ASSUME NEW s \in Seq(Operation), NEW f \in Operation, NEW u, u = PushBack(s, f)
  PROVE  /\ u \in Seq(Operation) /\ Len(s) \in Nat /\ Len(u) = Len(s) + 1
         /\ DOMAIN s = 1 .. Len(s) /\ DOMAIN u = 1 .. Len(s) + 1
         /\ u[Len(s) + 1] = f /\ \A k \in 1 .. Len(s) : u[k] = s[k]
         /\ \A k \in DOMAIN u : k \in 1 .. Len(s) \/ k = Len(s) + 1
  BY DEF PushBack

(* An operation begins that holds no node and deletes no system.             *)
LEMMA PushKeeps ==
  ASSUME IInv, ClientRuns, UNCHANGED manager, NEW f \in Operation,
         stack' = Append(stack, f), FrameOK(f), WalkOK(f), f.system = None,
         f.n = None \/ f.at = "visit",
         f.class # None =>
           systems[f.class] = None /\ \A j \in DOMAIN stack : stack[j].class # f.class
  PROVE  IInv'
<1>1. PICK len \in Nat : len = Len(stack)
  BY DEF IInv, FramesOK
<1>2. /\ stack' \in Seq(Operation) /\ Len(stack') = len + 1
      /\ DOMAIN stack = 1 .. len /\ DOMAIN stack' = 1 .. len + 1
      /\ stack'[len + 1] = f /\ \A k \in 1 .. len : stack'[k] = stack[k]
      /\ \A k \in DOMAIN stack' : k \in 1 .. len \/ k = len + 1
  BY <1>1, Pushed DEF IInv, FramesOK, PushBack
<1>3. \A k \in 1 .. len : stack[k].at = "client" /\ FrameOK(stack[k]) /\ WalkOK(stack[k])
  <2>1. stack # <<>> => Top = stack[len] /\ Top.at = "client"
    BY <1>1, TopFacts DEF ClientRuns
  <2> QED
    BY <2>1, <1>1, <1>2 DEF IInv, FramesOK, Walks
<1>4. FramesOK'
  BY <1>2, <1>3 DEF FramesOK
<1>5. \A k \in DOMAIN stack' : WalkOK(stack'[k])
  BY <1>2, <1>3
<1>6. Adding'
  <2>1. systems' = systems
    BY DEF manager
  <2> QED
    BY <2>1, <1>2 DEF IInv, Adding
<1>7. \A n \in Nodes : Holders(n)' = Holders(n)
  BY <1>2 DEF Holders
<1>8. \A s \in Systems : Deleters(s)' = Deleters(s)
  BY <1>2 DEF Deleters
<1> QED
  BY <1>4, <1>5, <1>6, <1>7, <1>8, StackMoves

(* An operation returns that holds no node and deletes no system.            *)
LEMMA ReturnKeeps ==
  ASSUME IInv, stack # <<>>, UNCHANGED manager, Return, Top.system = None,
         Top.n = None \/ Top.at = "visit"
  PROVE  IInv'
<1>1. PICK len \in Nat : len + 1 = Len(stack)
  <2>1. PICK len : len = Len(stack) - 1
    OBVIOUS
  <2>2. len \in Nat /\ len + 1 = Len(stack)
    BY <2>1, TopFacts
  <2> QED
    BY <2>2
<1>2. /\ stack' \in Seq(Operation) /\ Len(stack') = len
      /\ DOMAIN stack = 1 .. len + 1 /\ DOMAIN stack' = 1 .. len
      /\ \A k \in 1 .. len : stack'[k] = stack[k] /\ k \in DOMAIN stack /\ k # len + 1
      /\ \A k \in DOMAIN stack : k \in 1 .. len \/ k = len + 1
  <2>1. stack' = Front(stack) /\ stack \in Seq(Operation) /\ DOMAIN stack = 1 .. len + 1
    BY <1>1, TopFacts DEF Return, IInv, FramesOK
  <2> QED
    BY <1>1, <2>1, FrontProperties
<1>3. stack[len + 1] = Top
  BY <1>1, TopFacts
<1>4. \A k \in 1 .. len : stack[k].at = "client" /\ FrameOK(stack[k]) /\ WalkOK(stack[k])
  BY <1>1, <1>2, TopFacts
<1>5. FramesOK' /\ \A k \in DOMAIN stack' : WalkOK(stack'[k])
  BY <1>2, <1>4 DEF FramesOK
<1>6. Adding'
  <2>1. systems' = systems
    BY DEF manager
  <2> QED
    BY <2>1, <1>2 DEF IInv, Adding
<1>7. \A n \in Nodes : Holders(n)' = Holders(n)
  BY <1>2, <1>3 DEF Holders
<1>8. \A s \in Systems : Deleters(s)' = Deleters(s)
  BY <1>2, <1>3 DEF Deleters
<1> QED
  BY <1>5, <1>6, <1>7, <1>8, StackMoves

(* Only the innermost operation goes on. *)
LEMMA BecomeFacts ==
  ASSUME IInv, stack # <<>>, NEW f \in Operation, FrameOK(f), Become(f)
  PROVE  /\ FramesOK' /\ Len(stack') = Len(stack) /\ DOMAIN stack' = DOMAIN stack
         /\ stack'[Len(stack)] = f
         /\ \A k \in DOMAIN stack : k # Len(stack) => stack'[k] = stack[k]
<1>1. stack \in Seq(Operation) /\ Len(stack) \in DOMAIN stack
  BY TopFacts DEF IInv, FramesOK
<1>2. stack' = [stack EXCEPT ![Len(stack)] = f]
  BY DEF Become
<1>3. stack' \in Seq(Operation) /\ Len(stack') = Len(stack) /\ DOMAIN stack' = DOMAIN stack
  BY <1>1, <1>2
<1>4. /\ stack'[Len(stack)] = f
      /\ \A k \in DOMAIN stack : k # Len(stack) => stack'[k] = stack[k]
  BY <1>1, <1>2
<1> QED
  BY <1>3, <1>4 DEF IInv, FramesOK

(* AddSystem begins: the class is not registered and under no construction.  *)
LEMMA AddSystemKeeps ==
  ASSUME IInv, NEW k \in Classes, AddSystem(k)
  PROVE  IInv'
<1>1. PICK f : f = Frame("AddSystem", k, None, None)
  OBVIOUS
<1>2. /\ f \in Operation /\ f.op = "AddSystem" /\ f.class = k /\ f.system = None /\ f.n = None
      /\ f.at = "client" /\ f.owed = {} /\ f.seen = {}
  BY <1>1 DEF Frame, Operation
<1>3. FrameOK(f) /\ WalkOK(f)
  BY <1>2 DEF FrameOK, WalkOK
<1>4. /\ ClientRuns /\ UNCHANGED manager /\ stack' = Append(stack, f)
      /\ systems[k] = None /\ \A j \in DOMAIN stack : stack[j].class # k
  BY <1>1 DEF AddSystem, Push
<1> QED
  BY <1>2, <1>3, <1>4, PushKeeps

(* Update begins: it holds no node. *)
LEMMA UpdateKeeps ==
  ASSUME IInv, NEW k \in Classes, Update(k)
  PROVE  IInv'
<1>1. PICK f : f = Frame("Update", None, None, None)
  OBVIOUS
<1>2. /\ f \in Operation /\ f.op = "Update" /\ f.class = None /\ f.system = None /\ f.n = None
      /\ f.at = "client" /\ f.owed = {} /\ f.seen = {}
  BY <1>1 DEF Frame, Operation
<1>3. FrameOK(f) /\ WalkOK(f)
  BY <1>2 DEF FrameOK, WalkOK
<1>4. ClientRuns /\ UNCHANGED manager /\ stack' = Append(stack, f)
  BY <1>1 DEF Update, Push
<1> QED
  BY <1>2, <1>3, <1>4, PushKeeps

(* A walk begins at the first node and owes every node that has its system.  *)
LEMMA WalkBeginKeeps ==
  ASSUME IInv, NEW op \in {"RemoveAllSystem", "UpdateAll"},
         ClientRuns, Push(Walk(op)), UNCHANGED manager
  PROVE  IInv'
<1>1. PICK m : m = FirstOf(system_list, None)
  OBVIOUS
<1>2. system_list \in Seq(Nodes) /\ IsInjective(system_list)
  BY DEF IInv, TypeOK
<1>3. \/ m = None /\ \A a : ~ Contains(system_list, a)
      \/ /\ Contains(system_list, m) /\ m \in Nodes
         /\ \A a : Contains(system_list, a) => a = m \/ Before(system_list, m, a)
  BY <1>1, <1>2, FirstOfProperties, ToSetContains
<1>4. PICK f : f = Walk(op)
  OBVIOUS
<1>5. /\ f \in Operation /\ f.op = op /\ f.class = None /\ f.system = None /\ f.n = m
      /\ f.at = "visit" /\ f.owed = Registered /\ f.seen = {}
  <2>1. Registered \in SUBSET Nodes /\ m \in Nodes \cup {None}
    BY <1>3 DEF Registered
  <2>2. f = [op |-> op, class |-> None, system |-> None, n |-> m, at |-> "visit",
             owed |-> Registered, seen |-> {}]
    BY <1>1, <1>4 DEF Walk, Frame, FirstNode
  <2> QED
    BY <2>1, <2>2 DEF Operation
<1>6. \A a \in Registered : Attached(a) /\ Contains(system_list, a)
  BY NodeFacts DEF Registered
<1>7. FrameOK(f) /\ WalkOK(f)
  BY <1>3, <1>5, <1>6 DEF FrameOK, WalkOK
<1>8. stack' = Append(stack, f)
  BY <1>4 DEF Push
<1> QED
  BY <1>5, <1>7, <1>8, PushKeeps

(* Update returns: it held no node and deleted no system.                    *)
LEMMA UpdateReturnsKeeps ==
  ASSUME IInv, UpdateReturns
  PROVE  IInv'
<1>1. stack # <<>> /\ Top.op = "Update" /\ Return /\ UNCHANGED manager
  BY DEF UpdateReturns, In
<1>2. Top.n = None /\ Top.system = None
  BY <1>1, TopFacts DEF FrameOK
<1> QED
  BY <1>1, <1>2, ReturnKeeps

(* A walk has come to the end of the list and holds no node.                *)
LEMMA WalkReturnsKeeps ==
  ASSUME IInv, WalkReturns
  PROVE  IInv'
<1>1. stack # <<>> /\ Top.at = "visit" /\ Return /\ UNCHANGED manager
  BY DEF WalkReturns
<1>2. Top.system = None
  BY <1>1, TopFacts DEF FrameOK
<1> QED
  BY <1>1, <1>2, ReturnKeeps

(* The system has been updated: UpdateAll still holds its node.              *)
LEMMA UpdateVisitedReturnsKeeps ==
  ASSUME IInv, UpdateVisitedReturns
  PROVE  IInv'
<1>1. stack # <<>> /\ Top.op = "UpdateAll" /\ Top.at = "client" /\ UNCHANGED manager
  BY DEF UpdateVisitedReturns, In
<1>2. PICK top \in DOMAIN stack, f \in Operation :
        top = Len(stack) /\ f = Top /\ f = stack[top] /\ FrameOK(f) /\ WalkOK(f)
  BY <1>1, TopFacts
<1>3. PICK g \in Operation :
        /\ Become(g) /\ g.op = f.op /\ g.class = f.class /\ g.system = f.system /\ g.n = f.n
        /\ g.at = "leave" /\ g.owed = f.owed /\ g.seen = f.seen
  <2>1. PICK g : g = [f EXCEPT !.at = "leave"]
    OBVIOUS
  <2>2. /\ g \in Operation
        /\ g.op = f.op /\ g.class = f.class /\ g.system = f.system /\ g.n = f.n
        /\ g.at = "leave" /\ g.owed = f.owed /\ g.seen = f.seen
    BY <2>1 DEF Operation
  <2> QED
    BY <2>1, <2>2, <1>2 DEF UpdateVisitedReturns
<1>4. FrameOK(g) /\ WalkOK(g)
  BY <1>1, <1>2, <1>3 DEF FrameOK, WalkOK
<1>5. /\ FramesOK' /\ Len(stack') = Len(stack) /\ DOMAIN stack' = DOMAIN stack
      /\ stack'[top] = g /\ \A k \in DOMAIN stack : k # top => stack'[k] = stack[k]
  BY <1>1, <1>2, <1>3, <1>4, BecomeFacts
<1>6. \A k \in DOMAIN stack :
        /\ stack'[k].class = stack[k].class /\ stack'[k].system = stack[k].system
        /\ stack'[k].n = stack[k].n /\ (stack'[k].at = "visit" <=> stack[k].at = "visit")
  BY <1>1, <1>2, <1>3, <1>5
<1>7. \A k \in DOMAIN stack' : WalkOK(stack'[k])
  BY <1>4, <1>5 DEF IInv, Walks
<1>8. Adding'
  <2>1. systems' = systems
    BY <1>1 DEF manager
  <2> QED
    BY <2>1, <1>5, <1>6 DEF IInv, Adding
<1>9. \A n \in Nodes : Holders(n)' = Holders(n)
  BY <1>5, <1>6 DEF Holders
<1>10. \A s \in Systems : Deleters(s)' = Deleters(s)
  BY <1>5, <1>6 DEF Deleters
<1> QED
  BY <1>1, <1>5, <1>7, <1>8, <1>9, <1>10, StackMoves

-----------------------------------------------------------------------------
(* Steps that change a node. *)

(* The list is what it was, without the nodes that lost their last           *)
(* reference.                                                                *)
ListKept ==
  /\ \A a \in Nodes : Contains(system_list', a) <=> Contains(system_list, a) /\ node'[a].ref > 0
  /\ \A a, b \in Nodes : Before(system_list, a, b) /\ node'[a].ref > 0 /\ node'[b].ref > 0 =>
       Before(system_list', a, b)

(* A linked node changed: it is unlinked with its last reference.            *)
LEMMA StoreFacts ==
  ASSUME IInv, NEW n \in Nodes, Contains(system_list, n), NEW r \in SystemNode, Store(n, r)
  PROVE  /\ node' \in [Nodes -> SystemNode]
         /\ node'[n] = r /\ \A a \in Nodes : a # n => node'[a] = node[a]
         /\ system_list' \in Seq(Nodes) /\ IsInjective(system_list')
         /\ ListKept /\ Linked'
<1>1. node \in [Nodes -> SystemNode] /\ system_list \in Seq(Nodes) /\ IsInjective(system_list)
  BY DEF IInv, TypeOK
<1>2. /\ node' \in [Nodes -> SystemNode]
      /\ node'[n] = r /\ \A a \in Nodes : a # n => node'[a] = node[a]
  BY <1>1 DEF Store
<1>3. \A a \in Nodes : Contains(system_list, a) <=> node[a].ref > 0
  BY DEF IInv, Linked
<1>4. CASE r.ref = 0
  <2>1. system_list' = Unlinked(system_list, {n})
    BY <1>4 DEF Store
  <2>2. /\ system_list' \in Seq(Nodes) /\ IsInjective(system_list')
        /\ \A a : Contains(system_list', a) <=> Contains(system_list, a) /\ a \notin {n}
        /\ \A a, b : Before(system_list', a, b) <=>
             Before(system_list, a, b) /\ a \notin {n} /\ b \notin {n}
    BY <1>1, <2>1, UnlinkedProperties
  <2>3. \A a \in Nodes : Contains(system_list, a) => (a \notin {n} <=> node'[a].ref > 0)
    BY <1>2, <1>3, <1>4
  <2>4. \A a \in Nodes : node'[a].ref > 0 => a \notin {n}
    BY <1>2, <1>4
  <2>5. ListKept
    BY <2>2, <2>3, <2>4 DEF ListKept
  <2>6. Linked'
    BY <2>2, <2>3, <2>4, <1>2, <1>3 DEF Linked
  <2> QED
    BY <2>2, <2>5, <2>6, <1>2
<1>5. CASE r.ref # 0
  <2>1. system_list' = system_list
    BY <1>5 DEF Store
  <2>2. r.ref > 0
    BY <1>5 DEF SystemNode
  <2>3. \A a \in Nodes : Contains(system_list, a) <=> node'[a].ref > 0
    BY <2>2, <1>2, <1>3
  <2> QED
    BY <2>1, <2>3, <1>1, <1>2 DEF ListKept, Linked
<1> QED
  BY <1>4, <1>5

(* A walk that stands where it stood, at a node still referenced, goes on    *)
(* with what it owes and is still attached.                                  *)
LEMMA WalkKept ==
  ASSUME IInv, ListKept, Linked', NEW f \in Operation, WalkOK(f), NEW g \in Operation,
         g.n = f.n, g.at = f.at \/ g.n \notin g.owed \ g.seen, g.owed \subseteq f.owed,
         g.owed \ g.seen \subseteq f.owed \ f.seen,
         g.n # None => node'[g.n].ref > 0,
         \A a \in g.owed : Attached(a)' /\ node'[a].ref > 0
  PROVE  WalkOK(g)'
<1>1. g.n \in Nodes \cup {None} /\ g.owed \in SUBSET Nodes
  BY DEF Operation
<1>2. g.n # None => Contains(system_list', g.n)
  BY <1>1 DEF WalkOK, ListKept
<1>3. ASSUME NEW a \in g.owed \ g.seen
      PROVE  /\ g.n # None
             /\ Before(system_list', g.n, a) \/ (a = g.n /\ g.at = "visit")
  <2>1. f.n # None /\ (Before(system_list, f.n, a) \/ (a = f.n /\ f.at = "visit"))
    BY <1>3 DEF WalkOK
  <2>2. Before(system_list, g.n, a) => Before(system_list', g.n, a)
    BY <2>1, <1>1, <1>3 DEF ListKept
  <2> QED
    BY <2>1, <2>2, <1>3
<1> QED
  BY <1>2, <1>3 DEF WalkOK

(* Nodes, table and classes keep their systems.                              *)
LEMMA SystemsKept ==
  ASSUME IInv, systems' = systems, class' = class,
         \A n \in Nodes : node'[n].system = node[n].system,
         \A s \in Systems : Deleters(s)' = Deleters(s)
  PROVE  Entries' /\ SystemPlaces'
<1>1. Entries'
  BY DEF IInv, Entries, Attached
<1>2. SystemPlaces'
  BY DEF IInv, SystemPlaces
<1> QED
  BY <1>1, <1>2

(* A walk comes to a node and takes a reference to it.                       *)
LEMMA ReferencedKeeps ==
  ASSUME IInv, stack # <<>>, Top.at = "visit", Top.n # None,
         Store(Top.n, Referenced(node[Top.n])), UNCHANGED <<systems, class>>,
         NEW g \in Operation, Become(g), FrameOK(g),
         g.class = Top.class, g.system = Top.system, g.n = Top.n, g.at # "visit",
         g.owed = Top.owed, Top.seen \subseteq g.seen, Attached(Top.n) => Top.n \in g.seen \/ Top.n \notin g.owed
  PROVE  IInv'
<1>1. PICK top \in DOMAIN stack, f \in Operation, n \in Nodes :
        /\ top = Len(stack) /\ f = Top /\ f = stack[top] /\ n = f.n /\ f.at = "visit"
        /\ FrameOK(f) /\ WalkOK(f) /\ Contains(system_list, n)
  BY TopFacts DEF Operation, WalkOK
<1>2. /\ FramesOK' /\ Len(stack') = Len(stack) /\ DOMAIN stack' = DOMAIN stack
      /\ stack'[top] = g /\ \A k \in DOMAIN stack : k # top => stack'[k] = stack[k]
  BY <1>1, BecomeFacts
<1>3. PICK r \in SystemNode :
        Store(n, r) /\ r.system = node[n].system /\ r.ref = node[n].ref + 1
  <2>1. node[n] \in SystemNode
    BY NodeFacts
  <2> QED
    BY <2>1, <1>1 DEF Referenced, SystemNode
<1>4. /\ node' \in [Nodes -> SystemNode]
      /\ node'[n] = r /\ \A a \in Nodes : a # n => node'[a] = node[a]
      /\ system_list' \in Seq(Nodes) /\ IsInjective(system_list')
      /\ ListKept /\ Linked'
  BY <1>1, <1>3, StoreFacts
<1>5. \A a \in Nodes : /\ node'[a].system = node[a].system /\ (Attached(a)' <=> Attached(a))
                       /\ node[a].ref > 0 => node'[a].ref > 0
  <2>1. \A a \in Nodes : node'[a].system = node[a].system
    BY <1>3, <1>4
  <2>2. node[n].ref \in Nat
    BY NodeFacts
  <2> QED
    BY <2>1, <2>2, <1>3, <1>4 DEF Attached
<1>6. TypeOK'
  BY <1>4 DEF IInv, TypeOK
<1>7. Walks'
  <2>1. \A a \in Nodes : Attached(a) \/ Contains(system_list, a) => node'[a].ref > 0
    <3>1. \A a \in Nodes : Attached(a) \/ Contains(system_list, a) => node[a].ref > 0
      BY NodeFacts
    <3> QED
      BY <3>1, <1>5
  <2>2. ASSUME NEW k \in DOMAIN stack, k # top PROVE WalkOK(stack[k])'
    <3>1. stack[k] \in Operation /\ WalkOK(stack[k])
      BY TopFacts
    <3>2. PICK h \in Operation : h = stack[k] /\ WalkOK(h)
      BY <3>1
    <3>3. h.n # None => node'[h.n].ref > 0
      BY <3>2, <2>1 DEF WalkOK, Operation
    <3>4. \A a \in h.owed : Attached(a)' /\ node'[a].ref > 0
      BY <3>2, <2>1, <1>5 DEF WalkOK, Operation
    <3>5. WalkOK(h)'
      BY <3>2, <3>3, <3>4, <1>4, WalkKept
    <3> QED
      BY <3>2, <3>5, <2>2, <1>2 DEF WalkOK
  <2>3. WalkOK(g)'
    <3>1. g.n # None => node'[g.n].ref > 0
      BY <2>1, <1>1
    <3>2. \A a \in g.owed : Attached(a) /\ a \in Nodes
      BY <1>1 DEF WalkOK, Operation
    <3>3. \A a \in g.owed : Attached(a)' /\ node'[a].ref > 0
      BY <3>2, <2>1, <1>5
    <3>4. g.n \notin g.owed \ g.seen
      BY <3>2
    <3> QED
      BY <3>1, <3>3, <3>4, <1>1, <1>4, WalkKept
  <2> QED
    BY <2>2, <2>3, <1>2 DEF Walks
<1>8. Counts'
  <2>1. \A a \in Nodes : a # n => Holders(a)' = Holders(a)
    BY <1>1, <1>2 DEF Holders
  <2>2. Holders(n)' = Holders(n) \cup {top} /\ top \notin Holders(n)
    BY <1>1, <1>2 DEF Holders
  <2>3. Cardinality(Holders(n)') = Cardinality(Holders(n)) + 1 /\ Cardinality(Holders(n)) \in Nat
    BY <2>2, HoldersFinite, FS_AddElement DEF IInv
  <2>4. node[n].ref = Cardinality(Holders(n)) + (IF Attached(n) THEN 1 ELSE 0)
    BY DEF IInv, Counts
  <2>5. node'[n].ref = Cardinality(Holders(n)') + (IF Attached(n)' THEN 1 ELSE 0)
    BY <2>3, <2>4, <1>3, <1>4, <1>5
  <2> QED
    BY <2>1, <2>5, <1>4, <1>5 DEF IInv, Counts
<1>9. Adding'
  BY <1>1, <1>2 DEF IInv, Adding
<1>10. \A s \in Systems : Deleters(s)' = Deleters(s)
  BY <1>1, <1>2 DEF Deleters
<1>11. Entries' /\ SystemPlaces'
  BY <1>5, <1>10, SystemsKept
<1> QED
  BY <1>2, <1>4, <1>6, <1>7, <1>8, <1>9, <1>11 DEF IInv

(* UpdateAll comes to a node: it owes its system no more than this run.      *)
LEMMA UpdateVisitedKeeps ==
  ASSUME IInv, UpdateVisited
  PROVE  IInv'
<1>1. stack # <<>> /\ Top.op = "UpdateAll" /\ Top.at = "visit" /\ Top.n # None
  BY DEF UpdateVisited, In
<1>2. PICK f \in Operation : f = Top /\ FrameOK(f)
  BY <1>1, TopFacts
<1>3. PICK g : g = [f EXCEPT !.at = IF Attached(f.n) THEN "client" ELSE "leave",
                             !.seen = IF Attached(f.n) THEN @ \cup {f.n} ELSE @]
  OBVIOUS
<1>4. /\ g \in Operation /\ g.op = f.op /\ g.class = f.class /\ g.system = f.system /\ g.n = f.n
      /\ g.at \in {"client", "leave"} /\ g.owed = f.owed /\ f.seen \subseteq g.seen
      /\ Attached(f.n) => f.n \in g.seen
  BY <1>1, <1>2, <1>3 DEF Operation
<1>5. Become(g) /\ Store(Top.n, Referenced(node[Top.n])) /\ UNCHANGED <<systems, class>>
  BY <1>2, <1>3 DEF UpdateVisited
<1>6. FrameOK(g)
  BY <1>1, <1>2, <1>4 DEF FrameOK
<1> QED
  BY <1>1, <1>2, <1>4, <1>5, <1>6, ReferencedKeeps

(* The node left is followed by what the walk still owes; it goes only if    *)
(* nobody else stands there and its system was removed.                      *)
LEMMA LeaveKeeps ==
  ASSUME IInv, Leave
  PROVE  IInv'
<1>1. stack # <<>> /\ Top.at = "leave" /\ UNCHANGED <<systems, class>>
  BY DEF Leave
<1>2. PICK top \in DOMAIN stack, f \in Operation, n \in Nodes :
        /\ top = Len(stack) /\ f = Top /\ f = stack[top] /\ n = f.n /\ f.at = "leave"
        /\ FrameOK(f) /\ WalkOK(f) /\ Contains(system_list, n)
        /\ f.op \in {"RemoveAllSystem", "UpdateAll"} /\ f.system = None /\ f.class = None
  BY <1>1, TopFacts DEF Operation, WalkOK, FrameOK
<1>3. PICK l \in Seq(Nodes) : l = system_list /\ IsInjective(l)
  BY DEF IInv, TypeOK
<1>4. PICK m : m = NextOf(l, n, None)
  OBVIOUS
<1>5. \/ m = None /\ \A a : Contains(l, a) => a = n \/ Before(l, a, n)
      \/ /\ Contains(l, m) /\ m \in Nodes /\ m # n
         /\ \A a : Before(l, n, a) <=> a = m \/ Before(l, m, a)
  <2>1. \/ m = None /\ \A a : Contains(l, a) => a = n \/ Before(l, a, n)
        \/ /\ Contains(l, m)
           /\ \A a : Before(l, a, m) <=> a = n \/ Before(l, a, n)
           /\ \A a : Before(l, n, a) <=> a = m \/ Before(l, m, a)
    BY <1>2, <1>3, <1>4, NextOfProperties
  <2>2. \A a : Contains(l, a) => a \in Nodes
    BY ToSetContains
  <2>3. \A a, b : Before(l, a, b) => a # b
    BY <1>3, BeforeIsOrder
  <2> QED
    BY <2>1, <2>2, <2>3
<1>6. PICK g \in Operation :
        /\ Become(g) /\ g.at = "visit" /\ g.op = f.op /\ g.class = None /\ g.system = None
        /\ g.n = m /\ g.owed = f.owed /\ g.seen = f.seen
  <2>1. PICK g : g = [f EXCEPT !.n = m, !.at = "visit"]
    OBVIOUS
  <2>2. m \in Nodes \cup {None}
    BY <1>5
  <2>3. /\ g \in Operation /\ g.at = "visit" /\ g.op = f.op /\ g.class = None /\ g.system = None
        /\ g.n = m /\ g.owed = f.owed /\ g.seen = f.seen
    BY <2>1, <2>2, <1>2 DEF Operation
  <2>4. Become(g)
    BY <2>1, <1>2, <1>3, <1>4 DEF Leave, NextNode
  <2> QED
    BY <2>3, <2>4
<1>7. /\ FramesOK' /\ Len(stack') = Len(stack) /\ DOMAIN stack' = DOMAIN stack
      /\ stack'[top] = g /\ \A k \in DOMAIN stack : k # top => stack'[k] = stack[k]
  <2>1. FrameOK(g)
    BY <1>2, <1>6 DEF FrameOK
  <2> QED
    BY <2>1, <1>1, <1>2, <1>6, BecomeFacts
<1>8. top \in Holders(n)
  BY <1>2 DEF Holders
<1>9. /\ node[n] \in SystemNode /\ node[n].ref \in Nat \ {0}
      /\ Attached(n) => node[n].ref # 1
  BY <1>8, NodeFacts
<1>10. PICK r \in SystemNode :
         Store(n, r) /\ r.system = node[n].system /\ r.ref = node[n].ref - 1
  BY <1>2, <1>9 DEF Leave, Dereferenced, SystemNode
<1>11. /\ node' \in [Nodes -> SystemNode]
       /\ node'[n] = r /\ \A a \in Nodes : a # n => node'[a] = node[a]
       /\ system_list' \in Seq(Nodes) /\ IsInjective(system_list')
       /\ ListKept /\ Linked'
  BY <1>2, <1>10, StoreFacts
<1>12. \A a \in Nodes : /\ node'[a].system = node[a].system /\ (Attached(a)' <=> Attached(a))
                        /\ Attached(a) => node'[a].ref > 0
  <2>1. \A a \in Nodes : node'[a].system = node[a].system
    BY <1>10, <1>11
  <2>2. \A a \in Nodes : Attached(a) => node[a].ref > 0
    BY NodeFacts
  <2>3. Attached(n) => node'[n].ref > 0
    BY <1>9, <1>10, <1>11
  <2> QED
    BY <2>1, <2>2, <2>3, <1>11 DEF Attached
<1>13. TypeOK'
  BY <1>1, <1>11 DEF IInv, TypeOK
<1>14. Counts' /\ \A k \in DOMAIN stack : k # top /\ stack[k].n = n => node'[n].ref > 0
  <2>1. \A a \in Nodes : a # n => Holders(a)' = Holders(a)
    BY <1>2, <1>6, <1>7 DEF Holders
  <2>2. Holders(n)' = Holders(n) \ {top}
    BY <1>2, <1>6, <1>7 DEF Holders
  <2>3. Cardinality(Holders(n)') = Cardinality(Holders(n)) - 1 /\ Cardinality(Holders(n)) \in Nat
    BY <2>2, <1>8, HoldersFinite, FS_RemoveElement DEF IInv
  <2>4. node[n].ref = Cardinality(Holders(n)) + (IF Attached(n) THEN 1 ELSE 0)
    BY DEF IInv, Counts
  <2>5. node'[n].ref = Cardinality(Holders(n)') + (IF Attached(n)' THEN 1 ELSE 0)
    BY <2>3, <2>4, <1>10, <1>11, <1>12
  <2>6. Counts'
    BY <2>1, <2>5, <1>11, <1>12 DEF IInv, Counts
  <2>7. ASSUME NEW k \in DOMAIN stack, k # top, stack[k].n = n
        PROVE  node'[n].ref > 0
    <3>1. stack[k].at = "client"
      BY <2>7, <1>1, <1>2, TopFacts
    <3>2. k \in Holders(n)'
      BY <2>2, <2>7, <3>1 DEF Holders
    <3>3. PICK h : h = Holders(n)'
      OBVIOUS
    <3>4. IsFiniteSet(h) /\ Cardinality(h) \in Nat /\ h # {}
      BY <3>2, <3>3, <1>7, HoldersFinite
    <3>5. Cardinality(h) # 0
      BY <3>4, FS_EmptySet
    <3> QED
      BY <2>5, <3>3, <3>4, <3>5
  <2> QED
    BY <2>6, <2>7
<1>15. Walks'
  <2>1. ASSUME NEW k \in DOMAIN stack, k # top PROVE WalkOK(stack[k])'
    <3>1. PICK h \in Operation : h = stack[k] /\ WalkOK(h)
      BY <1>1, TopFacts
    <3>2. h.n # None => node'[h.n].ref > 0
      <4>1. ASSUME h.n # None, h.n # n PROVE node'[h.n].ref > 0
        BY <4>1, <3>1, <1>11, NodeFacts DEF WalkOK, Operation
      <4> QED
        BY <4>1, <3>1, <2>1, <1>14
    <3>3. \A a \in h.owed : Attached(a)' /\ node'[a].ref > 0
      BY <3>1, <1>12 DEF WalkOK, Operation
    <3>4. WalkOK(h)'
      BY <3>1, <3>2, <3>3, <1>11, WalkKept
    <3> QED
      BY <3>1, <3>4, <2>1, <1>7 DEF WalkOK
  <2>2. WalkOK(g)'
    <3>1. \A a \in g.owed : a \in Nodes /\ Attached(a) /\ Attached(a)' /\ node'[a].ref > 0
                            /\ Contains(l, a)
      <4>1. \A a \in g.owed : a \in Nodes /\ Attached(a)
        BY <1>2, <1>6 DEF WalkOK, Operation
      <4>2. \A a \in Nodes : Attached(a) => Contains(l, a)
        BY <1>3, NodeFacts
      <4> QED
        BY <4>1, <4>2, <1>12
    <3>2. \A a \in g.owed \ g.seen : Before(l, n, a)
      BY <1>2, <1>3, <1>6 DEF WalkOK
    <3>3. m # None => m \in Nodes /\ node'[m].ref > 0 /\ Contains(system_list', m)
      <4>1. m # None => m \in Nodes /\ m # n /\ Contains(l, m)
        BY <1>5
      <4>2. m # None => node'[m].ref > 0
        BY <4>1, <1>3, <1>11, NodeFacts
      <4> QED
        BY <4>1, <4>2, <1>3, <1>11 DEF ListKept
    <3>4. ASSUME NEW a \in g.owed \ g.seen
          PROVE  m # None /\ (Before(system_list', m, a) \/ a = m)
      <4>1. Before(l, n, a) /\ a # n /\ ~ Before(l, a, n) /\ Contains(l, a)
        BY <3>2, <3>4, <1>3, BeforeIsOrder
      <4>2. m # None /\ (a = m \/ Before(l, m, a))
        BY <4>1, <1>5
      <4> QED
        BY <4>2, <3>1, <3>3, <3>4, <1>3, <1>11 DEF ListKept
    <3> QED
      BY <3>1, <3>3, <3>4, <1>6 DEF WalkOK
  <2> QED
    BY <2>1, <2>2, <1>2, <1>7 DEF Walks
<1>16. Adding'
  BY <1>1, <1>2, <1>6, <1>7 DEF IInv, Adding
<1>17. \A s \in Systems : Deleters(s)' = Deleters(s)
  BY <1>2, <1>6, <1>7 DEF Deleters
<1>18. Entries' /\ SystemPlaces'
  BY <1>1, <1>12, <1>17, SystemsKept
<1> QED
  BY <1>7, <1>11, <1>13, <1>14, <1>15, <1>16, <1>18 DEF IInv

-----------------------------------------------------------------------------
(* Steps in which a system comes or goes. *)

(* Unowed changes only what the walks owe and have seen.                     *)
LEMMA UnowedFacts ==
  ASSUME NEW b \in Seq(Operation), NEW n, NEW u, u = Unowed(b, n)
  PROVE  /\ u \in Seq(Operation) /\ Len(u) = Len(b) /\ DOMAIN u = DOMAIN b
         /\ \A k \in DOMAIN b :
              /\ u[k].op = b[k].op /\ u[k].class = b[k].class /\ u[k].system = b[k].system
              /\ u[k].n = b[k].n /\ u[k].at = b[k].at
              /\ u[k].owed = b[k].owed \ {n} /\ u[k].seen = b[k].seen \ {n}
         /\ \A k \in DOMAIN b : FrameOK(b[k]) => FrameOK(u[k])
<1>1. PICK d \in Nat : d = Len(b) /\ DOMAIN b = 1 .. d
  OBVIOUS
<1>2. DOMAIN u = 1 .. d
  BY <1>1 DEF Unowed
<1>3. ASSUME NEW k \in 1 .. d
      PROVE  /\ u[k] \in Operation
             /\ u[k].op = b[k].op /\ u[k].class = b[k].class /\ u[k].system = b[k].system
             /\ u[k].n = b[k].n /\ u[k].at = b[k].at
             /\ u[k].owed = b[k].owed \ {n} /\ u[k].seen = b[k].seen \ {n}
  <2>1. PICK f \in Operation : f = b[k]
    BY <1>1
  <2>2. u[k] = [f EXCEPT !.owed = @ \ {n}, !.seen = @ \ {n}]
    BY <1>1, <2>1 DEF Unowed
  <2>3. PICK o \in SUBSET Nodes, v \in SUBSET Nodes : o = f.owed \ {n} /\ v = f.seen \ {n}
    BY DEF Operation
  <2>4. u[k] = [f EXCEPT !.owed = o, !.seen = v]
    BY <2>2, <2>3
  <2>5. /\ u[k].op = f.op /\ u[k].class = f.class /\ u[k].system = f.system
        /\ u[k].n = f.n /\ u[k].at = f.at
    BY <2>4 DEF Operation
  <2>6. u[k] \in Operation /\ u[k].owed = f.owed \ {n} /\ u[k].seen = f.seen \ {n}
    BY <2>3, <2>4 DEF Operation
  <2> QED
    BY <2>1, <2>5, <2>6
<1>4. u \in [1 .. d -> Operation]
  BY <1>1, <1>3 DEF Unowed
<1>5. u \in Seq(Operation) /\ Len(u) = d
  BY <1>4, FunctionIsSeq
<1>6. ASSUME NEW k \in 1 .. d, FrameOK(b[k])
      PROVE  FrameOK(u[k])
  BY <1>3, <1>6 DEF FrameOK
<1> QED
  BY <1>1, <1>2, <1>3, <1>5, <1>6

(* A node that loses its system loses a reference.                           *)
LEMMA DetachedFacts ==
  ASSUME NEW r \in SystemNode, r.ref # 0
  PROVE  /\ Detached(r) \in SystemNode /\ Detached(r).system = None
         /\ Detached(r).ref = r.ref - 1
<1>1. PICK q : q = [r EXCEPT !.system = None]
  OBVIOUS
<1>2. q \in SystemNode /\ q.system = None /\ q.ref = r.ref /\ r.ref \in Nat
  BY <1>1 DEF SystemNode
<1>3. Detached(r) = [q EXCEPT !.ref = q.ref - 1]
  BY <1>1 DEF Detached, Dereferenced
<1>4. q.ref - 1 \in Nat
  BY <1>2
<1> QED
  BY <1>2, <1>3, <1>4 DEF SystemNode

(* b is the stack with the system of node n in the hands of its innermost    *)
(* operation; d is the place of that operation, f a frame of what it owes.   *)
Handed(b, d, f, n) ==
  /\ b \in Seq(Operation) /\ d \in DOMAIN b /\ d = Len(b)
  /\ FrameOK(b[d]) /\ b[d].at = "client" /\ b[d].class = None /\ b[d].system = node[n].system
  /\ \A k \in DOMAIN b : k # d => k \in DOMAIN stack /\ b[k] = stack[k] /\ b[k].at = "client"
  /\ \A k \in DOMAIN stack : k \in DOMAIN b /\ (stack[k].system # None => k # d)
  /\ f \in Operation /\ WalkOK(f) /\ b[d].n = f.n /\ b[d].owed = f.owed /\ b[d].seen = f.seen
  /\ b[d].at = f.at \/ b[d].n \in {n, None}

(* A node's system goes into the hands of the innermost operation.           *)
LEMMA DetachKeeps ==
  ASSUME IInv, NEW n \in Nodes, Attached(n),
         NEW r \in SystemNode, Store(n, r), r.system = None,
         systems' = [systems EXCEPT ![class[node[n].system]] = None], class' = class,
         NEW b, NEW d, NEW f, Handed(b, d, f, n), stack' = Unowed(b, n),
         r.ref = Cardinality(Holders(n)'),
         \A a \in Nodes : a # n => Holders(a)' = Holders(a)
  PROVE  IInv'
<1> USE DEF Handed
<1>1. PICK s \in Systems : s = node[n].system
  BY NodeFacts
<1>2. /\ class[s] \in Classes
      /\ \A a \in Nodes : node[a].system = s => a = n
      /\ Deleters(s) = {}
  BY <1>1 DEF IInv, SystemPlaces, TypeOK
<1>3. Contains(system_list, n)
  BY NodeFacts
<1>4. /\ node' \in [Nodes -> SystemNode]
      /\ node'[n] = r /\ \A a \in Nodes : a # n => node'[a] = node[a]
      /\ system_list' \in Seq(Nodes) /\ IsInjective(system_list')
      /\ ListKept /\ Linked'
  BY <1>3, StoreFacts
<1>5. /\ systems' \in [Classes -> Nodes \cup {None}]
      /\ systems'[class[s]] = None
      /\ \A k \in Classes : k # class[s] => systems'[k] = systems[k]
  BY <1>1, <1>2 DEF IInv, TypeOK
<1>6. TypeOK'
  BY <1>4, <1>5 DEF IInv, TypeOK
<1>7. PICK u : u = stack'
  OBVIOUS
<1>8. /\ u \in Seq(Operation) /\ Len(u) = Len(b) /\ DOMAIN u = DOMAIN b
      /\ \A k \in DOMAIN b :
           /\ u[k].op = b[k].op /\ u[k].class = b[k].class /\ u[k].system = b[k].system
           /\ u[k].n = b[k].n /\ u[k].at = b[k].at
           /\ u[k].owed = b[k].owed \ {n} /\ u[k].seen = b[k].seen \ {n}
      /\ \A k \in DOMAIN b : FrameOK(b[k]) => FrameOK(u[k])
  BY <1>7, UnowedFacts
<1>9. \A k \in DOMAIN stack : stack[k] \in Operation /\ FrameOK(stack[k]) /\ WalkOK(stack[k])
  <2>1. \A k \in DOMAIN stack : FrameOK(stack[k]) /\ WalkOK(stack[k])
    BY DEF IInv, FramesOK, Walks
  <2>2. \A k \in DOMAIN stack : stack[k] \in Operation
    BY DEF IInv, FramesOK
  <2> QED
    BY <2>1, <2>2
<1>10. FramesOK'
  BY <1>7, <1>8, <1>9 DEF FramesOK
<1>11. \A a \in Nodes : a # n => (Attached(a)' <=> Attached(a))
  BY <1>4 DEF Attached
<1>12. ~ Attached(n)'
  BY <1>4 DEF Attached
<1>13. Walks'
  <2>1. \A k \in DOMAIN b : u[k].n = n => node'[n].ref > 0
    <3> SUFFICES ASSUME NEW k \in DOMAIN b, u[k].n = n PROVE node'[n].ref > 0
      OBVIOUS
    <3>1. PICK h : h = Holders(n)'
      OBVIOUS
    <3>2. k \in h
      BY <3>1, <1>7, <1>8 DEF Holders
    <3>3. IsFiniteSet(h) /\ Cardinality(h) \in Nat
      BY <3>1, <1>10, HoldersFinite
    <3>4. Cardinality(h) # 0
      BY <3>2, <3>3, FS_EmptySet
    <3> QED
      BY <3>1, <3>3, <3>4, <1>4
  <2>2. ASSUME NEW k \in DOMAIN b, NEW g \in Operation, WalkOK(g), b[k].n = g.n,
               b[k].owed = g.owed, b[k].seen = g.seen, b[k].at = g.at \/ b[k].n \in {n, None}
        PROVE  WalkOK(u[k])'
    <3>1. PICK h \in Operation : h = u[k]
      BY <1>8
    <3>2. /\ h.n = g.n /\ h.owed = g.owed \ {n} /\ h.seen = g.seen \ {n}
          /\ h.at = g.at \/ h.n \in {n, None}
      BY <3>1, <2>2, <1>8
    <3>3. h.owed \in SUBSET Nodes /\ h.n \in Nodes \cup {None}
      BY DEF Operation
    <3>4. h.n # None => node'[h.n].ref > 0
      <4>1. h.n # None => Contains(system_list, h.n)
        BY <3>2, <2>2 DEF WalkOK
      <4>2. h.n # None /\ h.n # n => node[h.n].ref > 0
        BY <4>1, <3>3, NodeFacts
      <4> QED
        BY <4>2, <3>1, <3>3, <2>1, <1>4
    <3>5. \A a \in h.owed : Attached(a)' /\ node'[a].ref > 0
      <4>1. \A a \in h.owed : a \in Nodes /\ a # n /\ Attached(a)
        BY <3>2, <3>3, <2>2 DEF WalkOK
      <4>2. \A a \in Nodes : Attached(a) => node[a].ref > 0
        BY NodeFacts
      <4> QED
        BY <4>1, <4>2, <1>4, <1>11
    <3>6. h.owed \subseteq g.owed /\ h.owed \ h.seen \subseteq g.owed \ g.seen
      BY <3>2
    <3>7. h.at = g.at \/ h.n \notin h.owed \ h.seen
      BY <3>2, <3>3
    <3>8. WalkOK(h)'
      BY <3>2, <3>4, <3>5, <3>6, <3>7, <2>2, <1>4, WalkKept
    <3> QED
      BY <3>1, <3>8 DEF WalkOK
  <2>3. ASSUME NEW k \in DOMAIN b
        PROVE  WalkOK(u[k])'
    <3>1. CASE k = d
      BY <3>1, <2>2
    <3>2. CASE k # d
      <4>1. PICK g \in Operation : g = stack[k] /\ WalkOK(g) /\ b[k] = g
        BY <3>2, <1>9
      <4> QED
        BY <4>1, <2>2
    <3> QED
      BY <3>1, <3>2
  <2> QED
    BY <2>3, <1>7, <1>8 DEF Walks, WalkOK
<1>14. Counts'
  <2>1. Holders(n)' \subseteq DOMAIN u /\ Cardinality(Holders(n)') \in Nat
    <3>1. Holders(n)' \subseteq DOMAIN u
      BY <1>7 DEF Holders
    <3>2. Cardinality(Holders(n)') \in Nat
      BY <1>10, HoldersFinite
    <3> QED
      BY <3>1, <3>2
  <2>2. node'[n].ref = Cardinality(Holders(n)') + (IF Attached(n)' THEN 1 ELSE 0)
    BY <2>1, <1>4, <1>12
  <2>3. \A a \in Nodes : a # n =>
          node'[a].ref = Cardinality(Holders(a)') + (IF Attached(a)' THEN 1 ELSE 0)
    BY <1>4, <1>11 DEF IInv, Counts
  <2> QED
    BY <2>2, <2>3 DEF Counts
<1>15. \A k \in DOMAIN u : u[k].class # None =>
         k \in DOMAIN stack /\ u[k].class = stack[k].class /\ u[k].class \in Classes
  <2>1. \A k \in DOMAIN u : u[k].class # None =>
          k \in DOMAIN stack /\ u[k].class = stack[k].class
    BY <1>8
  <2>2. \A k \in DOMAIN u : u[k] \in Operation
    BY <1>8
  <2> QED
    BY <2>1, <2>2 DEF Operation
<1>16. Adding'
  <2> SUFFICES ASSUME NEW k \in DOMAIN u, u[k].class # None
               PROVE  /\ systems'[u[k].class] = None
                      /\ \A j \in DOMAIN u : u[j].class = u[k].class => j = k
    BY <1>7 DEF Adding
  <2>1. systems[stack[k].class] = None
        /\ \A j \in DOMAIN stack : stack[j].class = stack[k].class => j = k
    BY <1>15 DEF IInv, Adding
  <2> QED
    BY <2>1, <1>5, <1>15
<1>17. Entries'
  <2> SUFFICES ASSUME NEW k \in Classes, NEW a \in Nodes
               PROVE  systems'[k] = a <=> Attached(a)' /\ class[node'[a].system] = k
    BY DEF Entries
  <2>1. systems[k] = a <=> Attached(a) /\ class[node[a].system] = k
    BY DEF IInv, Entries
  <2>2. systems[class[s]] = n
    BY <1>1, <1>2 DEF IInv, Entries
  <2>3. CASE a = n
    BY <2>1, <2>3, <1>1, <1>5, <1>12
  <2>4. CASE a # n
    BY <2>1, <2>2, <2>4, <1>4, <1>5, <1>11
  <2> QED
    BY <2>3, <2>4
<1>18. /\ \A t \in Systems : t # s => Deleters(t)' = Deleters(t)
       /\ Deleters(s)' = {d}
  <2>1. \A t \in Systems : \A k : k \in Deleters(t)' <=> k \in Deleters(t) \/ (k = d /\ t = s)
    <3> SUFFICES ASSUME NEW t \in Systems, NEW k
                 PROVE  k \in Deleters(t)' <=> k \in Deleters(t) \/ (k = d /\ t = s)
      OBVIOUS
    <3>1. k \in Deleters(t)' <=> k \in DOMAIN b /\ b[k].system = t
      BY <1>7, <1>8 DEF Deleters
    <3>2. k \in Deleters(t) => k # d /\ k \in DOMAIN b /\ b[k] = stack[k]
      BY DEF Deleters
    <3>3. k \in Deleters(t) <=> k \in DOMAIN stack /\ stack[k].system = t
      BY DEF Deleters
    <3> QED
      BY <3>1, <3>2, <3>3, <1>1
  <2> QED
    BY <2>1, <1>2
<1>19. SystemPlaces'
  <2>1. ASSUME NEW t \in Systems, t # s
        PROVE  \A a \in Nodes : node'[a].system = t <=> node[a].system = t
    BY <2>1, <1>1, <1>4
  <2>2. \A a \in Nodes : node'[a].system # s
    BY <1>2, <1>4
  <2>3. ASSUME NEW t \in Systems, t # s
        PROVE  /\ class[t] # None <=> (\E a \in Nodes : node'[a].system = t) \/ Deleters(t)' # {}
               /\ \A a, m \in Nodes : node'[a].system = t /\ node'[m].system = t => a = m
               /\ \A j, k \in Deleters(t)' : j = k
               /\ (\E a \in Nodes : node'[a].system = t) => Deleters(t)' = {}
    BY <2>1, <2>3, <1>18 DEF IInv, SystemPlaces
  <2>4. class[s] # None
    BY <1>2
  <2> QED
    BY <2>2, <2>3, <2>4, <1>18 DEF SystemPlaces
<1> QED
  BY <1>4, <1>6, <1>10, <1>13, <1>14, <1>16, <1>17, <1>19 DEF IInv

(* A system that was being deleted is gone.                                  *)
LEMMA FreedKeeps ==
  ASSUME IInv, UNCHANGED <<systems, system_list, node>>, NEW s \in Systems,
         class' = [class EXCEPT ![s] = None], Deleters(s) # {}, Deleters(s)' = {},
         \A t \in Systems : t # s => Deleters(t)' = Deleters(t),
         FramesOK', Adding', \A k \in DOMAIN stack' : WalkOK(stack'[k]),
         \A n \in Nodes : Holders(n)' = Holders(n)
  PROVE  IInv'
<1>1. /\ class' \in [Systems -> Classes \cup {None}] /\ class'[s] = None
      /\ \A t \in Systems : t # s => class'[t] = class[t]
  BY DEF IInv, TypeOK
<1>2. \A n \in Nodes : node[n].system # s
  BY DEF IInv, SystemPlaces
<1>3. TypeOK'
  BY <1>1 DEF IInv, TypeOK
<1>4. Walks'
  BY DEF Walks, WalkOK, Attached
<1>5. Counts' /\ Linked'
  BY DEF IInv, Counts, Linked, Attached
<1>6. Entries'
  <2>1. \A n \in Nodes : Attached(n) => node[n].system \in Systems
    BY NodeFacts
  <2> QED
    BY <2>1, <1>1, <1>2 DEF IInv, Entries, Attached
<1>7. SystemPlaces'
  <2> SUFFICES ASSUME NEW t \in Systems
               PROVE  /\ class'[t] # None <=> (\E n \in Nodes : node[n].system = t) \/ Deleters(t)' # {}
                      /\ \A n, m \in Nodes : node[n].system = t /\ node[m].system = t => n = m
                      /\ \A j, k \in Deleters(t)' : j = k
                      /\ (\E n \in Nodes : node[n].system = t) => Deleters(t)' = {}
    BY DEF SystemPlaces
  <2>1. CASE t = s
    BY <2>1, <1>1, <1>2
  <2>2. CASE t # s
    BY <2>2, <1>1 DEF IInv, SystemPlaces
  <2> QED
    BY <2>1, <2>2
<1> QED
  BY <1>3, <1>4, <1>5, <1>6, <1>7 DEF IInv

(* AddSystem returns: the new system's node is the last of the list.         *)
LEMMA AddSystemReturnsKeeps ==
  ASSUME IInv, AddSystemReturns
  PROVE  IInv'
<1>1. stack # <<>> /\ Top.op = "AddSystem" /\ Top.at = "client" /\ Return
  BY DEF AddSystemReturns, In
<1>2. PICK s \in Systems : \E n \in Nodes :
        /\ class[s] = None /\ node[n].ref = 0
        /\ class' = [class EXCEPT ![s] = Top.class]
        /\ node' = [node EXCEPT ![n] = [system |-> s, ref |-> 1]]
        /\ system_list' = PushBack(system_list, n)
        /\ systems' = [systems EXCEPT ![Top.class] = n]
  BY DEF AddSystemReturns, PushBack
<1>3. PICK n \in Nodes :
        /\ class[s] = None /\ node[n].ref = 0
        /\ class' = [class EXCEPT ![s] = Top.class]
        /\ node' = [node EXCEPT ![n] = [system |-> s, ref |-> 1]]
        /\ system_list' = PushBack(system_list, n)
        /\ systems' = [systems EXCEPT ![Top.class] = n]
  BY <1>2
<1>4. PICK top \in DOMAIN stack, f \in Operation :
        top = Len(stack) /\ f = Top /\ f = stack[top] /\ FrameOK(f)
  BY <1>1, TopFacts
<1>5. PICK c \in Classes : c = Top.class /\ f.n = None /\ f.system = None
  BY <1>1, <1>4 DEF FrameOK, Operation
<1>6. /\ systems[c] = None
      /\ \A j \in DOMAIN stack : stack[j].class = c => j = top
  BY <1>4, <1>5 DEF IInv, Adding
<1>7. ~ Attached(n) /\ Holders(n) = {} /\ ~ Contains(system_list, n)
  BY <1>3, NodeFacts
<1>8. (\A a \in Nodes : node[a].system # s) /\ Deleters(s) = {}
  BY <1>3 DEF IInv, SystemPlaces
<1>9. /\ node' \in [Nodes -> SystemNode] /\ node'[n].system = s /\ node'[n].ref = 1
      /\ \A a \in Nodes : a # n => node'[a] = node[a]
  BY <1>3 DEF IInv, TypeOK, SystemNode
<1>10. /\ class' \in [Systems -> Classes \cup {None}] /\ class'[s] = c
       /\ \A t \in Systems : t # s => class'[t] = class[t]
  BY <1>3, <1>5 DEF IInv, TypeOK
<1>11. /\ systems' \in [Classes -> Nodes \cup {None}] /\ systems'[c] = n
       /\ \A k \in Classes : k # c => systems'[k] = systems[k]
  BY <1>3, <1>5 DEF IInv, TypeOK
<1>12. /\ system_list' \in Seq(Nodes) /\ IsInjective(system_list')
       /\ \A a : Contains(system_list', a) <=> Contains(system_list, a) \/ a = n
       /\ \A a, b : Before(system_list, a, b) => Before(system_list', a, b)
  <2>1. system_list \in Seq(Nodes) /\ IsInjective(system_list)
    BY DEF IInv, TypeOK
  <2> QED
    BY <2>1, <1>3, <1>7, LinkedLast
<1>13. TypeOK'
  BY <1>9, <1>10, <1>11, <1>12 DEF TypeOK
<1>14. PICK len \in Nat : len + 1 = top
  <2>1. PICK len : len = Len(stack) - 1
    OBVIOUS
  <2>2. len \in Nat /\ len + 1 = Len(stack)
    BY <2>1, <1>1, TopFacts
  <2> QED
    BY <2>2, <1>4
<1>15. /\ stack' \in Seq(Operation) /\ Len(stack') = len
       /\ DOMAIN stack' = 1 .. len
       /\ \A k \in 1 .. len : stack'[k] = stack[k] /\ k \in DOMAIN stack /\ k # top
       /\ \A k \in DOMAIN stack : k \in 1 .. len \/ k = top
  <2>1. stack' = Front(stack) /\ stack \in Seq(Operation) /\ DOMAIN stack = 1 .. len + 1
        /\ Len(stack) = len + 1
    BY <1>1, <1>4, <1>14, TopFacts DEF Return, IInv, FramesOK
  <2> QED
    BY <1>1, <1>14, <2>1, FrontProperties
<1>16. \A k \in 1 .. len : /\ stack[k].at = "client" /\ stack[k] \in Operation
                           /\ FrameOK(stack[k]) /\ WalkOK(stack[k])
  BY <1>1, <1>4, <1>15, TopFacts
<1>17. FramesOK'
  BY <1>15, <1>16 DEF FramesOK
<1>18. \A a \in Nodes : /\ Holders(a)' = Holders(a)
                        /\ a # n => (Attached(a)' <=> Attached(a))
  <2>1. \A a \in Nodes : Holders(a)' = Holders(a)
    BY <1>4, <1>5, <1>15 DEF Holders
  <2> QED
    BY <2>1, <1>9 DEF Attached
<1>19. Attached(n)'
  BY <1>9 DEF Attached
<1>20. Walks'
  <2>1. ASSUME NEW k \in 1 .. len PROVE WalkOK(stack[k])'
    <3>1. PICK h \in Operation : h = stack[k] /\ WalkOK(h)
      BY <1>16
    <3>2. h.n # None => Contains(system_list', h.n)
      BY <3>1, <1>12 DEF WalkOK
    <3>3. \A a \in h.owed : a \in Nodes /\ Attached(a)
      BY <3>1 DEF WalkOK, Operation
    <3>4. \A a \in h.owed : Attached(a)'
      BY <3>3, <1>18, <1>19
    <3>5. \A a \in h.owed \ h.seen :
            h.n # None /\ (Before(system_list', h.n, a) \/ (a = h.n /\ h.at = "visit"))
      BY <3>1, <1>12 DEF WalkOK
    <3>6. WalkOK(h)'
      BY <3>2, <3>4, <3>5 DEF WalkOK
    <3> QED
      BY <3>1, <3>6, <1>15 DEF WalkOK
  <2> QED
    BY <2>1, <1>15 DEF Walks, WalkOK
<1>21. Counts'
  <2>1. node'[n].ref = Cardinality(Holders(n)') + (IF Attached(n)' THEN 1 ELSE 0)
    <3>1. Holders(n)' = {}
      BY <1>7, <1>18
    <3>2. Cardinality(Holders(n)') = 0
      BY <3>1, FS_EmptySet
    <3> QED
      BY <3>2, <1>9, <1>19
  <2> QED
    BY <2>1, <1>9, <1>18 DEF IInv, Counts
<1>22. Linked'
  BY <1>9, <1>12 DEF IInv, Linked
<1>23. Adding'
  <2> SUFFICES ASSUME NEW k \in 1 .. len, stack[k].class # None
               PROVE  /\ systems'[stack[k].class] = None
                      /\ \A j \in 1 .. len : stack[j].class = stack[k].class => j = k
    BY <1>15 DEF Adding
  <2>1. /\ systems[stack[k].class] = None
        /\ \A j \in DOMAIN stack : stack[j].class = stack[k].class => j = k
    BY <1>15 DEF IInv, Adding
  <2>2. stack[k].class \in Classes /\ stack[k].class # c
    BY <1>6, <1>15, <1>16 DEF Operation
  <2> QED
    BY <2>1, <2>2, <1>11, <1>15
<1>24. Entries'
  <2> SUFFICES ASSUME NEW k \in Classes, NEW a \in Nodes
               PROVE  systems'[k] = a <=> Attached(a)' /\ class'[node'[a].system] = k
    BY DEF Entries
  <2>1. systems[k] = a <=> Attached(a) /\ class[node[a].system] = k
    BY DEF IInv, Entries
  <2>2. CASE a = n
    BY <2>1, <2>2, <1>7, <1>9, <1>10, <1>11, <1>19
  <2>3. CASE a # n
    <3>1. systems'[k] = a <=> systems[k] = a
      BY <2>3, <1>6, <1>11
    <3>2. Attached(a)' <=> Attached(a)
      BY <2>3, <1>18
    <3>3. Attached(a) => class'[node'[a].system] = class[node[a].system]
      <4>1. Attached(a) => node[a].system \in Systems /\ node[a].system # s
        BY <1>8, NodeFacts
      <4> QED
        BY <4>1, <2>3, <1>9, <1>10
    <3> QED
      BY <2>1, <3>1, <3>2, <3>3
  <2> QED
    BY <2>2, <2>3
<1>25. \A t \in Systems : Deleters(t)' = Deleters(t)
  BY <1>4, <1>5, <1>15 DEF Deleters
<1>26. SystemPlaces'
  <2> SUFFICES ASSUME NEW t \in Systems
               PROVE  /\ class'[t] # None <=>
                           (\E a \in Nodes : node'[a].system = t) \/ Deleters(t) # {}
                      /\ \A a, m \in Nodes : node'[a].system = t /\ node'[m].system = t => a = m
                      /\ \A j, k \in Deleters(t) : j = k
                      /\ (\E a \in Nodes : node'[a].system = t) => Deleters(t) = {}
    BY <1>25 DEF SystemPlaces
  <2>1. CASE t = s
    BY <2>1, <1>8, <1>9, <1>10
  <2>2. CASE t # s
    <3>1. \A a \in Nodes : node'[a].system = t <=> node[a].system = t
      BY <2>2, <1>7, <1>9 DEF Attached
    <3> QED
      BY <3>1, <2>2, <1>10 DEF IInv, SystemPlaces
  <2> QED
    BY <2>1, <2>2
<1> QED
  BY <1>13, <1>17, <1>20, <1>21, <1>22, <1>23, <1>24, <1>26 DEF IInv

(* RemoveSystem begins: the system leaves its node and the table.            *)
LEMMA RemoveSystemKeeps ==
  ASSUME IInv, NEW k \in Classes, RemoveSystem(k)
  PROVE  IInv'
<1>1. PICK n : n = systems[k]
  OBVIOUS
<1>2. n \in Nodes /\ Attached(n) /\ class[node[n].system] = k
  BY <1>1 DEF RemoveSystem, IInv, TypeOK, Entries
<1>3. PICK s \in Systems : s = node[n].system
  BY <1>2, NodeFacts
<1>4. PICK f : f = Frame("RemoveSystem", None, s, None)
  OBVIOUS
<1>5. /\ f \in Operation /\ f.op = "RemoveSystem" /\ f.class = None /\ f.system = s /\ f.n = None
      /\ f.at = "client" /\ f.owed = {} /\ f.seen = {}
  BY <1>4 DEF Frame, Operation
<1>6. FrameOK(f) /\ WalkOK(f)
  BY <1>5 DEF FrameOK, WalkOK
<1>7. ClientRuns /\ stack' = Append(Unowed(stack, n), f)
  BY <1>1, <1>3, <1>4 DEF RemoveSystem
<1>8. PICK len \in Nat : len = Len(stack) /\ DOMAIN stack = 1 .. len /\ stack \in Seq(Operation)
  BY DEF IInv, FramesOK
<1>9. PICK b : b = PushBack(stack, f)
  OBVIOUS
<1>10. /\ b \in Seq(Operation) /\ Len(b) = len + 1 /\ DOMAIN b = 1 .. len + 1
       /\ b[len + 1] = f /\ \A j \in 1 .. len : b[j] = stack[j]
       /\ \A j \in DOMAIN b : j \in 1 .. len \/ j = len + 1
  <2>1. f \in Operation /\ stack \in Seq(Operation)
    BY <1>5, <1>8
  <2> QED
    BY <2>1, <1>8, <1>9, Pushed DEF PushBack
<1>11. stack' = Unowed(b, n)
  <2>1. PICK u : u = Unowed(stack, n)
    OBVIOUS
  <2>2. u \in Seq(Operation) /\ Len(u) = len /\ DOMAIN u = 1 .. len
    BY <2>1, <1>8, UnowedFacts
  <2>3. PICK v : v = PushBack(u, f)
    OBVIOUS
  <2>4. /\ v \in Seq(Operation) /\ DOMAIN v = 1 .. len + 1
        /\ v[len + 1] = f /\ \A j \in 1 .. len : v[j] = u[j]
    <3>1. f \in Operation /\ u \in Seq(Operation)
      BY <1>5, <2>2
    <3> QED
      BY <3>1, <2>2, <2>3, Pushed DEF PushBack
  <2>5. f = [f EXCEPT !.owed = @ \ {n}, !.seen = @ \ {n}]
    BY <1>5 DEF Operation
  <2>6. \A j \in 1 .. len + 1 : v[j] = [b[j] EXCEPT !.owed = @ \ {n}, !.seen = @ \ {n}]
    BY <2>1, <2>4, <2>5, <1>8, <1>10 DEF Unowed
  <2>7. v = [j \in 1 .. len + 1 |-> v[j]]
    BY <2>4
  <2>8. v = Unowed(b, n)
    BY <2>6, <2>7, <1>10 DEF Unowed
  <2> QED
    BY <2>1, <2>3, <2>8, <1>7 DEF PushBack
<1>12. PICK r \in SystemNode :
         Store(n, r) /\ r.system = None /\ r.ref = node[n].ref - 1
  <2>1. node[n] \in SystemNode /\ node[n].ref \in Nat \ {0}
    BY <1>2, NodeFacts
  <2>2. PICK r : r = Detached(node[n])
    OBVIOUS
  <2>3. r \in SystemNode /\ r.system = None /\ r.ref = node[n].ref - 1
    BY <2>1, <2>2, DetachedFacts
  <2>4. Store(n, r)
    BY <2>2, <1>1 DEF RemoveSystem
  <2> QED
    BY <2>3, <2>4
<1>13. stack # <<>> => Top = stack[len] /\ Top.at = "client"
  BY <1>7, <1>8, TopFacts DEF ClientRuns
<1>14. \A j \in 1 .. len : stack[j].at = "client"
  BY <1>8, <1>13 DEF IInv, FramesOK
<1>15. \A a \in Nodes : Holders(a)' = Holders(a)
  <2>1. PICK u : u = stack'
    OBVIOUS
  <2>2. DOMAIN u = 1 .. len + 1 /\ \A j \in 1 .. len + 1 : u[j].n = b[j].n /\ u[j].at = b[j].at
    BY <2>1, <1>10, <1>11, UnowedFacts
  <2> QED
    BY <2>1, <2>2, <1>5, <1>8, <1>10 DEF Holders
<1>16. r.ref = Cardinality(Holders(n)')
  <2>1. node[n].ref = Cardinality(Holders(n)) + 1 /\ Cardinality(Holders(n)) \in Nat
    BY <1>2, HoldersFinite DEF IInv, Counts
  <2>2. Holders(n)' = Holders(n)
    BY <1>2, <1>15
  <2>3. r.ref = Cardinality(Holders(n))
    BY <2>1, <1>12
  <2> QED
    BY <2>2, <2>3
<1>17. systems' = [systems EXCEPT ![class[node[n].system]] = None] /\ class' = class
  BY <1>2 DEF RemoveSystem
<1>18. /\ \A j \in DOMAIN b : j # len + 1 =>
            j \in DOMAIN stack /\ b[j] = stack[j] /\ b[j].at = "client"
       /\ \A j \in DOMAIN stack : j \in DOMAIN b /\ j # len + 1
  BY <1>8, <1>10, <1>14
<1>19. PICK d \in DOMAIN b :
         /\ d = Len(b) /\ d = len + 1 /\ b[d] = f /\ FrameOK(b[d]) /\ b[d].at = "client"
         /\ b[d].class = None /\ b[d].system = node[n].system
         /\ b[d].n = f.n /\ b[d].owed = f.owed /\ b[d].seen = f.seen /\ b[d].at = f.at
  <2>1. len + 1 \in DOMAIN b
    BY <1>10
  <2> QED
    BY <2>1, <1>3, <1>5, <1>6, <1>10
<1>20. Handed(b, d, f, n)
  BY <1>5, <1>6, <1>10, <1>18, <1>19 DEF Handed
<1> QED
  BY <1>2, <1>11, <1>12, <1>15, <1>16, <1>17, <1>20, DetachKeeps

(* RemoveAllSystem comes to a node and takes its system, if it has one.      *)
LEMMA RemoveVisitedKeeps ==
  ASSUME IInv, RemoveVisited
  PROVE  IInv'
<1>1. stack # <<>> /\ Top.op = "RemoveAllSystem" /\ Top.at = "visit" /\ Top.n # None
      /\ class' = class
  BY DEF RemoveVisited, In
<1>2. PICK top \in DOMAIN stack, f \in Operation, n \in Nodes :
        /\ top = Len(stack) /\ f = Top /\ f = stack[top] /\ n = f.n
        /\ FrameOK(f) /\ WalkOK(f)
  BY <1>1, TopFacts DEF Operation
<1>3. f.class = None /\ f.system = None
  BY <1>1, <1>2 DEF FrameOK
<1>4. CASE ~ Attached(n)
  <2>1. PICK g : g = [f EXCEPT !.at = "leave"]
    OBVIOUS
  <2>2. /\ g \in Operation /\ g.op = f.op /\ g.class = f.class /\ g.system = f.system /\ g.n = f.n
        /\ g.at = "leave" /\ g.owed = f.owed /\ g.seen = f.seen
    BY <2>1 DEF Operation
  <2>3. Become(g) /\ Store(Top.n, Referenced(node[Top.n])) /\ UNCHANGED <<systems, class>>
    BY <2>1, <1>2, <1>4 DEF RemoveVisited, Attached
  <2>4. FrameOK(g)
    BY <1>1, <1>2, <2>2 DEF FrameOK
  <2> QED
    BY <2>2, <2>3, <2>4, <1>1, <1>2, <1>4, ReferencedKeeps
<1>5. CASE Attached(n)
  <2>1. PICK s \in Systems : s = node[n].system
    BY <1>5, NodeFacts
  <2>2. PICK g : g = [f EXCEPT !.system = s, !.at = "client"]
    OBVIOUS
  <2>3. /\ g \in Operation /\ g.op = f.op /\ g.class = None /\ g.system = s /\ g.n = f.n
        /\ g.at = "client" /\ g.owed = f.owed /\ g.seen = f.seen
    BY <2>2, <1>3 DEF Operation
  <2>4. FrameOK(g)
    BY <1>1, <1>2, <2>3 DEF FrameOK
  <2>5. PICK len \in Nat : len + 1 = top
    <3>1. PICK len : len = Len(stack) - 1
      OBVIOUS
    <3>2. len \in Nat /\ len + 1 = Len(stack)
      BY <3>1, <1>1, TopFacts
    <3> QED
      BY <3>2, <1>2
  <2>6. PICK h : h = Front(stack)
    OBVIOUS
  <2>7. /\ h \in Seq(Operation) /\ Len(h) = len /\ DOMAIN h = 1 .. len
        /\ \A k \in 1 .. len : h[k] = stack[k]
        /\ stack \in Seq(Operation) /\ DOMAIN stack = 1 .. len + 1
    <3>1. stack \in Seq(Operation) /\ DOMAIN stack = 1 .. len + 1 /\ Len(stack) = len + 1
      BY <2>5, <1>1, <1>2, TopFacts DEF IInv, FramesOK
    <3> QED
      BY <3>1, <2>5, <2>6, <1>1, FrontProperties
  <2>8. PICK b : b = PushBack(h, g)
    OBVIOUS
  <2>9. /\ b \in Seq(Operation) /\ Len(b) = len + 1 /\ DOMAIN b = 1 .. len + 1
        /\ b[len + 1] = g /\ \A j \in 1 .. len : b[j] = stack[j]
        /\ \A j \in DOMAIN b : j \in 1 .. len \/ j = len + 1
    <3>1. g \in Operation /\ h \in Seq(Operation)
      BY <2>3, <2>7
    <3> QED
      BY <3>1, <2>7, <2>8, Pushed DEF PushBack
  <2>10. /\ stack' = Unowed(b, n)
         /\ Store(n, Detached(Referenced(node[n])))
         /\ systems' = [systems EXCEPT ![class[node[n].system]] = None]
    BY <1>1, <1>2, <1>5, <2>1, <2>2, <2>6, <2>8 DEF RemoveVisited, Attached, PushBack
  <2>11. node[n] \in SystemNode /\ node[n].ref \in Nat
    BY NodeFacts
  <2>12. PICK r \in SystemNode : Store(n, r) /\ r.system = None /\ r.ref = node[n].ref
    <3>1. PICK r : r = Detached(Referenced(node[n]))
      OBVIOUS
    <3>2. PICK q : q = Referenced(node[n])
      OBVIOUS
    <3>3. q \in SystemNode /\ q.ref = node[n].ref + 1
      BY <3>2, <2>11 DEF Referenced, SystemNode
    <3>4. r \in SystemNode /\ r.system = None /\ r.ref = q.ref - 1
      BY <3>1, <3>2, <3>3, <2>11, DetachedFacts
    <3>5. r.ref = node[n].ref
      BY <3>3, <3>4, <2>11
    <3> QED
      BY <3>1, <3>4, <3>5, <2>10
  <2>13. \A j \in 1 .. len : stack[j].at = "client"
    BY <2>5, <2>7, <1>1, <1>2, TopFacts
  <2>14. PICK u : u = stack'
    OBVIOUS
  <2>15. /\ DOMAIN u = 1 .. len + 1
         /\ \A j \in 1 .. len + 1 : u[j].n = b[j].n /\ u[j].at = b[j].at
    BY <2>9, <2>10, <2>14, UnowedFacts
  <2>16. \A a \in Nodes : a # n => Holders(a)' = Holders(a)
    BY <1>2, <2>3, <2>5, <2>7, <2>9, <2>14, <2>15 DEF Holders
  <2>17. Holders(n)' = Holders(n) \cup {top} /\ top \notin Holders(n)
    BY <1>1, <1>2, <2>3, <2>5, <2>7, <2>9, <2>14, <2>15, SMTT(30) DEF Holders
  <2>18. r.ref = Cardinality(Holders(n)')
    <3>1. Cardinality(Holders(n)') = Cardinality(Holders(n)) + 1
      BY <2>17, HoldersFinite, FS_AddElement DEF IInv
    <3>2. node[n].ref = Cardinality(Holders(n)) + 1
      BY <1>5 DEF IInv, Counts
    <3> QED
      BY <3>1, <3>2, <2>12
  <2>19. /\ \A j \in DOMAIN b : j # len + 1 =>
              j \in DOMAIN stack /\ b[j] = stack[j] /\ b[j].at = "client"
         /\ \A j \in DOMAIN stack : j \in DOMAIN b /\ (stack[j].system # None => j # len + 1)
    BY <1>2, <1>3, <2>5, <2>7, <2>9, <2>13
  <2>20. PICK d \in DOMAIN b :
           /\ d = Len(b) /\ d = len + 1 /\ FrameOK(b[d]) /\ b[d].at = "client"
           /\ b[d].class = None /\ b[d].system = node[n].system
           /\ b[d].n = f.n /\ b[d].owed = f.owed /\ b[d].seen = f.seen /\ b[d].n = n
    <3>1. len + 1 \in DOMAIN b
      BY <2>9
    <3> QED
      BY <3>1, <1>2, <2>1, <2>3, <2>4, <2>9
  <2>21. Handed(b, d, f, n)
    BY <1>2, <2>9, <2>19, <2>20 DEF Handed
  <2> QED
    BY <1>1, <1>5, <2>10, <2>12, <2>16, <2>18, <2>21, DetachKeeps
<1> QED
  BY <1>4, <1>5

(* The destructor of a removed system has returned.                          *)
LEMMA RemoveSystemReturnsKeeps ==
  ASSUME IInv, RemoveSystemReturns
  PROVE  IInv'
<1>1. /\ stack # <<>> /\ Top.op = "RemoveSystem" /\ Return
      /\ class' = [class EXCEPT ![Top.system] = None]
      /\ UNCHANGED <<systems, system_list, node>>
  BY DEF RemoveSystemReturns, In
<1>2. PICK top \in DOMAIN stack, f \in Operation, s \in Systems :
        top = Len(stack) /\ f = Top /\ f = stack[top] /\ FrameOK(f) /\ s = f.system
  BY <1>1, TopFacts DEF FrameOK, Operation
<1>3. f.n = None
  BY <1>1, <1>2 DEF FrameOK
<1>4. PICK len \in Nat : len + 1 = top
  <2>1. PICK len : len = Len(stack) - 1
    OBVIOUS
  <2>2. len \in Nat /\ len + 1 = Len(stack)
    BY <2>1, <1>1, TopFacts
  <2> QED
    BY <2>2, <1>2
<1>5. /\ stack' \in Seq(Operation) /\ Len(stack') = len
      /\ DOMAIN stack' = 1 .. len
      /\ \A k \in 1 .. len : stack'[k] = stack[k] /\ k \in DOMAIN stack /\ k # top
      /\ \A k \in DOMAIN stack : k \in 1 .. len \/ k = top
  <2>1. stack' = Front(stack) /\ stack \in Seq(Operation) /\ DOMAIN stack = 1 .. len + 1
        /\ Len(stack) = len + 1
    BY <1>1, <1>2, <1>4, TopFacts DEF Return, IInv, FramesOK
  <2> QED
    BY <1>1, <1>4, <2>1, FrontProperties
<1>6. \A k \in 1 .. len : stack[k].at = "client" /\ FrameOK(stack[k]) /\ WalkOK(stack[k])
  BY <1>1, <1>2, <1>5, TopFacts
<1>7. FramesOK' /\ \A k \in DOMAIN stack' : WalkOK(stack'[k])
  BY <1>5, <1>6 DEF FramesOK
<1>8. Adding'
  BY <1>1, <1>5 DEF IInv, Adding
<1>9. \A n \in Nodes : Holders(n)' = Holders(n)
  BY <1>2, <1>3, <1>5 DEF Holders
<1>10. top \in Deleters(s) /\ \A k \in Deleters(s) : k = top
  BY <1>2 DEF IInv, SystemPlaces, Deleters
<1>11. \A t \in Systems : \A k : k \in Deleters(t)' <=> k \in Deleters(t) /\ k # top
  BY <1>5 DEF Deleters
<1>12. Deleters(s)' = {} /\ \A t \in Systems : t # s => Deleters(t)' = Deleters(t)
  <2>1. \A t \in Systems : t # s => top \notin Deleters(t)
    BY <1>2 DEF Deleters
  <2> QED
    BY <2>1, <1>10, <1>11
<1> QED
  BY <1>1, <1>2, <1>7, <1>8, <1>9, <1>10, <1>12, FreedKeeps

(* The destructor of a system that RemoveAllSystem took has returned.        *)
LEMMA DestructorReturnsKeeps ==
  ASSUME IInv, DestructorReturns
  PROVE  IInv'
<1>1. /\ stack # <<>> /\ Top.op = "RemoveAllSystem" /\ Top.at = "client"
      /\ class' = [class EXCEPT ![Top.system] = None]
      /\ UNCHANGED <<systems, system_list, node>>
  BY DEF DestructorReturns, In
<1>2. PICK top \in DOMAIN stack, f \in Operation, s \in Systems :
        /\ top = Len(stack) /\ f = Top /\ f = stack[top] /\ FrameOK(f) /\ WalkOK(f)
        /\ s = f.system
  BY <1>1, TopFacts DEF FrameOK, Operation
<1>3. PICK g \in Operation :
        /\ Become(g) /\ g.op = f.op /\ g.class = f.class /\ g.system = None /\ g.n = f.n
        /\ g.at = "leave" /\ g.owed = f.owed /\ g.seen = f.seen
  <2>1. PICK g : g = [f EXCEPT !.system = None, !.at = "leave"]
    OBVIOUS
  <2>2. /\ g \in Operation /\ g.op = f.op /\ g.class = f.class /\ g.system = None /\ g.n = f.n
        /\ g.at = "leave" /\ g.owed = f.owed /\ g.seen = f.seen
    BY <2>1 DEF Operation
  <2> QED
    BY <2>1, <2>2, <1>2 DEF DestructorReturns
<1>4. FrameOK(g) /\ WalkOK(g)
  BY <1>1, <1>2, <1>3 DEF FrameOK, WalkOK
<1>5. /\ FramesOK' /\ Len(stack') = Len(stack) /\ DOMAIN stack' = DOMAIN stack
      /\ stack'[top] = g /\ \A k \in DOMAIN stack : k # top => stack'[k] = stack[k]
  BY <1>1, <1>2, <1>3, <1>4, BecomeFacts
<1>6. \A k \in DOMAIN stack' : WalkOK(stack'[k])
  BY <1>4, <1>5 DEF IInv, Walks
<1>7. Adding'
  <2>1. \A k \in DOMAIN stack : stack'[k].class = stack[k].class
    BY <1>2, <1>3, <1>5
  <2> QED
    BY <2>1, <1>1, <1>5 DEF IInv, Adding
<1>8. \A n \in Nodes : Holders(n)' = Holders(n)
  BY <1>1, <1>2, <1>3, <1>5 DEF Holders
<1>9. top \in Deleters(s) /\ \A k \in Deleters(s) : k = top
  BY <1>2 DEF IInv, SystemPlaces, Deleters
<1>10. \A t \in Systems : \A k : k \in Deleters(t)' <=> k \in Deleters(t) /\ k # top
  BY <1>3, <1>5 DEF Deleters
<1>11. Deleters(s)' = {} /\ \A t \in Systems : t # s => Deleters(t)' = Deleters(t)
  <2>1. \A t \in Systems : t # s => top \notin Deleters(t)
    BY <1>2 DEF Deleters
  <2> QED
    BY <2>1, <1>9, <1>10
<1> QED
  BY <1>1, <1>2, <1>5, <1>6, <1>7, <1>8, <1>9, <1>11, FreedKeeps

-----------------------------------------------------------------------------
(* Initially nothing is registered and nothing runs.                         *)
LEMMA InitIInv == Init => IInv
<1> SUFFICES ASSUME Init PROVE IInv
  OBVIOUS
<1>1. /\ systems = [k \in Classes |-> None] /\ system_list = <<>>
      /\ node = [n \in Nodes |-> [system |-> None, ref |-> 0]]
      /\ class = [s \in Systems |-> None] /\ stack = <<>>
  BY DEF Init
<1>2. DOMAIN stack = {} /\ DOMAIN system_list = {} /\ stack \in Seq(Operation)
      /\ system_list \in Seq(Nodes)
  BY <1>1
<1>3. TypeOK
  BY <1>1, <1>2 DEF TypeOK, SystemNode, IsInjective
<1>4. FramesOK /\ Walks /\ Adding
  BY <1>2 DEF FramesOK, Walks, Adding
<1>5. Counts
  <2>1. \A n \in Nodes : Holders(n) = {}
    BY <1>2 DEF Holders
  <2>2. Cardinality({}) = 0
    BY FS_EmptySet
  <2>3. \A n \in Nodes : ~ Attached(n) /\ node[n].ref = 0
    BY <1>1 DEF Attached
  <2>4. ASSUME NEW n \in Nodes
        PROVE  node[n].ref = Cardinality(Holders(n)) + (IF Attached(n) THEN 1 ELSE 0)
    <3>1. Holders(n) = {}
      BY <2>1
    <3>2. Cardinality(Holders(n)) = 0
      BY <3>1, <2>2
    <3> QED
      BY <3>2, <2>3
  <2> QED
    BY <2>4 DEF Counts
<1>6. Linked
  BY <1>1, <1>2 DEF Linked, Contains
<1>7. Entries
  BY <1>1 DEF Entries, Attached
<1>8. SystemPlaces
  BY <1>1, <1>2 DEF SystemPlaces, Deleters
<1> QED
  BY <1>3, <1>4, <1>5, <1>6, <1>7, <1>8 DEF IInv

(* A step that changes nothing keeps it too.                                 *)
LEMMA StutterKeeps == IInv /\ UNCHANGED vars => IInv'
<1> SUFFICES ASSUME IInv, UNCHANGED vars PROVE IInv'
  OBVIOUS
<1>1. UNCHANGED manager /\ stack' = stack
  BY DEF vars
<1>2. FramesOK' /\ \A k \in DOMAIN stack' : WalkOK(stack'[k])
  BY <1>1 DEF IInv, FramesOK, Walks
<1>3. systems' = systems
  BY <1>1 DEF manager
<1>4. Adding'
  BY <1>1, <1>3 DEF IInv, Adding
<1>5. (\A n \in Nodes : Holders(n)' = Holders(n)) /\ \A s \in Systems : Deleters(s)' = Deleters(s)
  BY <1>1 DEF Holders, Deleters
<1> QED
  BY <1>1, <1>2, <1>4, <1>5, StackMoves

(* Every step keeps IInv. *)
LEMMA NextIInv == IInv /\ [Next]_vars => IInv'
<1> SUFFICES ASSUME IInv, [Next]_vars PROVE IInv'
  OBVIOUS
<1>1. ASSUME NEW k \in Classes, AddSystem(k) PROVE IInv'
  BY <1>1, AddSystemKeeps
<1>2. ASSUME NEW k \in Classes, RemoveSystem(k) PROVE IInv'
  BY <1>2, RemoveSystemKeeps
<1>3. ASSUME NEW k \in Classes, Update(k) PROVE IInv'
  BY <1>3, UpdateKeeps
<1>4. CASE RemoveAllSystem
  BY <1>4, WalkBeginKeeps DEF RemoveAllSystem
<1>5. CASE UpdateAll
  BY <1>5, WalkBeginKeeps DEF UpdateAll
<1>6. CASE AddSystemReturns
  BY <1>6, AddSystemReturnsKeeps
<1>7. CASE RemoveSystemReturns
  BY <1>7, RemoveSystemReturnsKeeps
<1>8. CASE RemoveVisited
  BY <1>8, RemoveVisitedKeeps
<1>9. CASE DestructorReturns
  BY <1>9, DestructorReturnsKeeps
<1>10. CASE UpdateReturns
  BY <1>10, UpdateReturnsKeeps
<1>11. CASE UpdateVisited
  BY <1>11, UpdateVisitedKeeps
<1>12. CASE UpdateVisitedReturns
  BY <1>12, UpdateVisitedReturnsKeeps
<1>13. CASE Leave
  BY <1>13, LeaveKeeps
<1>14. CASE WalkReturns
  BY <1>14, WalkReturnsKeeps
<1>15. CASE UNCHANGED vars
  BY <1>15, StutterKeeps
<1> QED
  BY <1>1, <1>2, <1>3, <1>4, <1>5, <1>6, <1>7, <1>8, <1>9, <1>10, <1>11, <1>12, <1>13, <1>14, <1>15
  DEF Next

(* IInv holds in every state. *)
THEOREM IInvariance == Spec => []IInv
<1> QED
  BY InitIInv, NextIInv, PTL DEF Spec

(* The reference count of a node is exact, a referenced node is linked and a *)
(* walk stands at a linked node, in every state (ecs.h:388-398).             *)
THEOREM NodesStaySafe == Spec => []NodesSafe
<1>1. IInv => NodesSafe
  BY IInvImplies
<1> QED
  BY <1>1, IInvariance, PTL

(* Table, list and objects agree, and each system is in one place           *)
(* (ecs.h:341-343, 356-357, 365-369).                                        *)
THEOREM TableStaysRight == Spec => []TableAgrees
<1>1. IInv => TableAgrees
  BY IInvImplies
<1> QED
  BY <1>1, IInvariance, PTL

(* UpdateAll runs every system that stays registered while it goes on, and   *)
(* RemoveAllSystem leaves none behind (ecs.h:388-398, 362-377).              *)
THEOREM WalksComplete == Spec => []WalkCompletes
<1>1. IInv => WalkCompletes
  BY IInvImplies
<1> QED
  BY <1>1, IInvariance, PTL
=============================================================================
