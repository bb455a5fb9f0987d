------------------------- MODULE TimerManagerProofs -------------------------
(***************************************************************************)
(* Proofs about TimerManager for wheels of any number and size and for any *)
(* delays and intervals.                                                   *)
(*                                                                         *)
(* IInv is inductive.  LinksOK says where a node is linked, whatever the   *)
(* client does.  CountsOK and Timing hold until the client strays: Timing  *)
(* says of a linked timer that its slot is drained in the tick the timer   *)
(* is due, or cascaded between now and then.                               *)
(***************************************************************************)
EXTENDS TimerManager, SequenceTheorems, FiniteSetTheorems, TLAPS

-----------------------------------------------------------------------------
(* Sequences and linked lists. *)

(* A set with one member at most, counted. *)
LEMMA CountAtMostOne ==
  ASSUME NEW S, \A x, y \in S : x = y
  PROVE  Cardinality(S) = IF S = {} THEN 0 ELSE 1
<1>1. CASE S = {}
  BY <1>1, FS_EmptySet
<1>2. CASE S # {}
  <2>1. PICK x : S = {x}
    BY <1>2
  <2> QED
    BY <1>2, <2>1, FS_Singleton
<1> QED
  BY <1>1, <1>2

(* The elements of a sequence, as ToSet and as Contains give them.           *)
LEMMA ToSetContains ==
  ASSUME NEW S, NEW s \in Seq(S)
  PROVE  /\ \A x : x \in ToSet(s) <=> Contains(s, x)
         /\ \A x : Contains(s, x) => x \in S
         /\ s # <<>> <=> \E x \in S : Contains(s, x)
  BY DEF ToSet, Contains

(* The rank of a place among places: how many of them come up to it. *)
Rank(places, i) == Cardinality({k \in places : k <= i})

(* Ranks grow with the places, and each rank up to their number is taken.    *)
LEMMA RankProperties ==
  ASSUME NEW len \in Nat, NEW places \in SUBSET (1 .. len)
  PROVE  /\ Cardinality(places) \in Nat
         /\ \A i \in places : Rank(places, i) \in 1 .. Cardinality(places)
         /\ \A i, j \in places : i < j => Rank(places, i) < Rank(places, j)
         /\ \A r \in 1 .. Cardinality(places) : \E i \in places : Rank(places, i) = r
<1> DEFINE upto(i) == {k \in places : k <= i}
<1>1. IsFiniteSet(places) /\ Cardinality(places) \in Nat
  <2>1. IsFiniteSet(1 .. len)
    BY FS_Interval
  <2> QED
    BY <2>1, FS_Subset, FS_CardinalityType
<1>2. \A i : IsFiniteSet(upto(i)) /\ Cardinality(upto(i)) \in Nat
             /\ Cardinality(upto(i)) <= Cardinality(places)
  BY <1>1, FS_Subset, FS_CardinalityType
<1>3. \A i \in places : Cardinality(upto(i)) # 0
  BY <1>2, FS_EmptySet
<1>4. ASSUME NEW i \in places, NEW j \in places, i < j
      PROVE  Cardinality(upto(i)) < Cardinality(upto(j))
  <2>1. upto(i) \in SUBSET upto(j) /\ j \in upto(j) /\ j \notin upto(i)
    <3>1. \A k \in places : k \in Int
      OBVIOUS
    <3>2. \A k \in places : k <= i => k <= j
      BY <1>4, <3>1
    <3>3. j <= j /\ ~ j <= i
      BY <1>4, <3>1
    <3> QED
      BY <3>2, <3>3
  <2>2. /\ Cardinality(upto(i)) <= Cardinality(upto(j))
        /\ Cardinality(upto(j)) = Cardinality(upto(i)) => upto(j) = upto(i)
    <3> HIDE DEF upto
    <3> QED
      BY <1>2, <2>1, FS_Subset
  <2> QED
    BY <1>2, <2>1, <2>2
<1>5. \A r \in 1 .. Cardinality(places) : \E i \in places : Rank(places, i) = r
  <2> DEFINE f == [i \in places |-> Cardinality(upto(i))]
             T == 1 .. Cardinality(places)
  <2>1. IsFiniteSet(T) /\ Cardinality(T) = Cardinality(places)
    BY <1>1, FS_Interval
  <2>2. f \in [places -> T]
    BY <1>1, <1>2, <1>3
  <2>3. \A i, j \in places : i # j => f[i] # f[j]
    <3>1. \A i, j \in places : i < j \/ j < i \/ i = j
      OBVIOUS
    <3>2. \A i, j \in places : i < j => f[i] # f[j]
      BY <1>2, <1>4
    <3> QED
      BY <3>1, <3>2
  <2>4. f \in Injection(places, T)
    BY <2>2, <2>3 DEF Injection, IsInjective
  <2>5. f \in Surjection(places, T)
    BY <1>1, <2>1, <2>4, FS_Injection
  <2> QED
    BY <2>5 DEF Surjection, Rank
<1> QED
  BY <1>1, <1>2, <1>3, <1>4, <1>5 DEF Rank

(* Unlinked keeps the places outside S, in their order.                      *)
LEMMA UnlinkedPlaces ==
  ASSUME NEW T, NEW l \in Seq(T), NEW S, NEW u, u = Unlinked(l, S)
  PROVE  /\ u \in Seq(T)
         /\ \E at \in [DOMAIN u -> DOMAIN l] :
              /\ \A i, j \in DOMAIN u : i < j <=> at[i] < at[j]
              /\ \A j \in DOMAIN u : l[at[j]] \notin S /\ u[j] = l[at[j]]
              /\ \A i \in DOMAIN l : l[i] \notin S => \E j \in DOMAIN u : at[j] = i
<1>1. PICK len \in Nat : len = Len(l)
  OBVIOUS
<1>2. PICK places \in SUBSET (1 .. len) : places = {i \in DOMAIN l : l[i] \notin S}
  <2>1. DOMAIN l = 1 .. len
    BY <1>1
  <2> QED
    BY <2>1
<1>3. PICK c \in Nat : c = Cardinality(places)
  BY RankProperties
<1> DEFINE Nth(r) == CHOOSE i \in places : Rank(places, i) = r
<1>4. \A r \in 1 .. c : Nth(r) \in places /\ Rank(places, Nth(r)) = r
  BY <1>3, RankProperties
<1>5. \A i, j \in places : i < j => Rank(places, i) < Rank(places, j)
  BY RankProperties
<1>6. \A i \in places : Rank(places, i) \in 1 .. c
  BY <1>3, RankProperties
<1>7. PICK at : at = [r \in 1 .. c |-> Nth(r)]
  OBVIOUS
<1>8. at \in [1 .. c -> places] /\ \A r \in 1 .. c : Rank(places, at[r]) = r
  BY <1>4, <1>7
<1>9. u = [j \in 1 .. c |-> l[at[j]]]
  BY <1>2, <1>3, <1>7 DEF Unlinked, Rank
<1> HIDE DEF Nth
<1>10. \A j \in 1 .. c : at[j] \in DOMAIN l /\ l[at[j]] \notin S
  BY <1>2, <1>8
<1>11. u \in Seq(T) /\ DOMAIN u = 1 .. c
  BY <1>9, <1>10
<1>12. \A i, j \in 1 .. c : i < j <=> at[i] < at[j]
  <2> SUFFICES ASSUME NEW i \in 1 .. c, NEW j \in 1 .. c PROVE i < j <=> at[i] < at[j]
    OBVIOUS
  <2>1. /\ at[i] \in 1 .. len /\ at[j] \in 1 .. len /\ at[i] \in places /\ at[j] \in places
        /\ Rank(places, at[i]) = i /\ Rank(places, at[j]) = j
    BY <1>8
  <2>2. at[i] < at[j] \/ at[j] < at[i] \/ at[i] = at[j]
    BY <2>1
  <2> QED
    BY <2>1, <2>2, <1>5
<1>13. \A i \in places : \E j \in 1 .. c : at[j] = i
  <2> SUFFICES ASSUME NEW i \in places PROVE \E j \in 1 .. c : at[j] = i
    OBVIOUS
  <2>1. PICK r \in 1 .. c : r = Rank(places, i)
    BY <1>6
  <2>2. at[r] \in places /\ Rank(places, at[r]) = Rank(places, i)
    BY <2>1, <1>8
  <2>3. at[r] \in 1 .. len /\ i \in 1 .. len
    BY <2>2
  <2>4. at[r] < i \/ i < at[r] \/ at[r] = i
    BY <2>3
  <2>5. ~ (at[r] < i) /\ ~ (i < at[r])
    <3>1. r \in Nat /\ ~ (r < r)
      OBVIOUS
    <3> QED
      BY <3>1, <2>1, <2>2, <1>5
  <2> QED
    BY <2>4, <2>5
<1>14. at \in [DOMAIN u -> DOMAIN l]
  BY <1>8, <1>10, <1>11
<1>15. /\ \A i, j \in DOMAIN u : i < j <=> at[i] < at[j]
       /\ \A j \in DOMAIN u : l[at[j]] \notin S /\ u[j] = l[at[j]]
       /\ \A i \in DOMAIN l : l[i] \notin S => \E j \in DOMAIN u : at[j] = i
  BY <1>2, <1>9, <1>10, <1>11, <1>12, <1>13
<1> QED
  BY <1>11, <1>14, <1>15

(* a comes before b in l. *)
Before(l, a, b) == \E i, j \in DOMAIN l : i < j /\ l[i] = a /\ l[j] = b

(* What stays linked is what is not in S, in the same order.                 *)
LEMMA UnlinkedProperties ==
  ASSUME NEW T, NEW l \in Seq(T), NEW S
  PROVE  /\ Unlinked(l, S) \in Seq(T)
         /\ \A n : Contains(Unlinked(l, S), n) <=> Contains(l, n) /\ n \notin S
         /\ IsInjective(l) => IsInjective(Unlinked(l, S))
         /\ \A a, b : Before(Unlinked(l, S), a, b) <=> Before(l, a, b) /\ a \notin S /\ b \notin S
<1>1. PICK u : u = Unlinked(l, S)
  OBVIOUS
<1>2. u \in Seq(T)
  BY <1>1, UnlinkedPlaces
<1>3. PICK at \in [DOMAIN u -> DOMAIN l] :
        /\ \A i, j \in DOMAIN u : i < j <=> at[i] < at[j]
        /\ \A j \in DOMAIN u : l[at[j]] \notin S /\ u[j] = l[at[j]]
        /\ \A i \in DOMAIN l : l[i] \notin S => \E j \in DOMAIN u : at[j] = i
  BY <1>1, UnlinkedPlaces, SMTT(30)
<1>4. DOMAIN u = 1 .. Len(u) /\ DOMAIN l = 1 .. Len(l) /\ Len(u) \in Nat /\ Len(l) \in Nat
  BY <1>2
<1>5. \A n : Contains(u, n) <=> Contains(l, n) /\ n \notin S
  <2> SUFFICES ASSUME NEW n
               PROVE  Contains(u, n) <=> Contains(l, n) /\ n \notin S
    OBVIOUS
  <2>1. ASSUME Contains(u, n) PROVE Contains(l, n) /\ n \notin S
    <3>1. PICK j \in DOMAIN u : u[j] = n
      BY <2>1, <1>4 DEF Contains
    <3>2. at[j] \in DOMAIN l /\ l[at[j]] = n /\ n \notin S
      BY <3>1, <1>3
    <3> QED
      BY <3>2, <1>4 DEF Contains
  <2>2. ASSUME Contains(l, n), n \notin S PROVE Contains(u, n)
    <3>1. PICK i \in DOMAIN l : l[i] = n
      BY <2>2, <1>4 DEF Contains
    <3>2. PICK j \in DOMAIN u : at[j] = i
      BY <3>1, <2>2, <1>3
    <3>3. u[j] = n
      BY <3>1, <3>2, <1>3
    <3> QED
      BY <3>3, <1>4 DEF Contains
  <2> QED
    BY <2>1, <2>2
<1>6. ASSUME IsInjective(l) PROVE IsInjective(u)
  <2>1. \A i, j \in DOMAIN u : u[i] = u[j] => at[i] = at[j]
    BY <1>3, <1>6 DEF IsInjective
  <2>2. \A i, j \in DOMAIN u : i < j \/ j < i \/ i = j
    BY <1>4
  <2> QED
    BY <2>1, <2>2, <1>3, <1>4 DEF IsInjective
<1>7. \A a, b : Before(u, a, b) <=> Before(l, a, b) /\ a \notin S /\ b \notin S
  BY <1>3 DEF Before
<1> QED
  BY <1>1, <1>2, <1>5, <1>6, <1>7

(* PushBack(), under a name the provers do not take apart. *)
PushBack(l, n) == Append(l, n)

(* A node linked at the end comes after all others.                          *)
LEMMA LinkedLast ==
  ASSUME NEW T, NEW l \in Seq(T), NEW n \in T, NEW u, u = PushBack(l, n)
  PROVE  /\ u \in Seq(T)
         /\ \A a : Contains(u, a) <=> Contains(l, a) \/ a = n
         /\ IsInjective(l) /\ ~ Contains(l, n) => IsInjective(u)
         /\ \A a, b : Before(u, a, b) <=> Before(l, a, b) \/ (Contains(l, a) /\ b = n)
<1>1. PICK len \in Nat : len = Len(l)
  OBVIOUS
<1>2. /\ DOMAIN l = 1 .. len /\ u \in Seq(T) /\ DOMAIN u = 1 .. len + 1 /\ Len(u) = len + 1
      /\ u[len + 1] = n /\ \A i \in 1 .. len : u[i] = l[i]
  BY <1>1 DEF PushBack
<1>3. \A i \in 1 .. len + 1 : i \in 1 .. len \/ i = len + 1
  OBVIOUS
<1>4. \A a : Contains(u, a) <=> Contains(l, a) \/ a = n
  BY <1>1, <1>2, <1>3 DEF Contains
<1>5. IsInjective(l) /\ ~ Contains(l, n) => IsInjective(u)
  BY <1>1, <1>2, <1>3 DEF Contains, IsInjective
<1>6. \A a, b : Before(l, a, b) \/ (Contains(l, a) /\ b = n) => Before(u, a, b)
  BY <1>1, <1>2 DEF Contains, Before
<1>7. \A a, b : Before(u, a, b) => Before(l, a, b) \/ (Contains(l, a) /\ b = n)
  BY <1>1, <1>2, <1>3 DEF Contains, Before
<1> QED
  BY <1>2, <1>4, <1>5, <1>6, <1>7

-----------------------------------------------------------------------------
(* In a callback no timer is set that would expire a full turn of the finest *)
(* wheel later: it would join the slot that is being drained.                *)
NoFullTurn == Size[1] \notin CallbackDelays /\ Size[1] - 1 \notin Intervals \cup CallbackIntervals

Operation ==
  [at : {"tick", "cascade", "drain", "callback"}, place : Nat \cup Slots, node : Nat, count : Nat]

TypeOK ==
  /\ up \in BOOLEAN /\ strayed \in BOOLEAN
  /\ cur_time \in Nat /\ next_time \in Nat
  /\ node \in Seq(TimerNode)
  /\ free_list \in Seq(DOMAIN node) /\ IsInjective(free_list)
  /\ wheel \in [Slots -> Seq(DOMAIN node)] /\ \A s \in Slots : IsInjective(wheel[s])

FrameOK(f) ==
  /\ f.at = "cascade" => f.place \in 2 .. Len(Size) + 1
  /\ f.at \in {"drain", "callback"} => f.place \in Slots
  /\ f.at = "callback" => f.node \in DOMAIN node

(* Where an Update is: only the innermost is anywhere but in a callback. *)
FramesOK ==
  /\ stack \in Seq(Operation)
  /\ \A k \in DOMAIN stack : FrameOK(stack[k]) /\ (k # Len(stack) => stack[k].at = "callback")

(* The callback of node n runs. *)
Calling(n) == \E k \in DOMAIN stack : stack[k].at = "callback" /\ stack[k].node = n

Linked(n) == \E s \in Slots : Contains(wheel[s], n)

LinksOK ==
  /\ \A n \in DOMAIN node : Contains(free_list, n) <=> ~node[n].is_using
  /\ \A s \in Slots : \A n \in DOMAIN node : Contains(wheel[s], n) => node[n].is_using
  /\ \A s, t \in Slots : \A n \in DOMAIN node :
       Contains(wheel[s], n) /\ Contains(wheel[t], n) => s = t
  /\ \A n \in DOMAIN node : node[n].is_using => Linked(n) \/ Calling(n)

(* The callback that runs is that of the timer its node still holds. *)
CountsOK ==
  ~strayed =>
    /\ Len(stack) <= 1
    /\ At("callback") /\ node[Top.node].is_using => node[Top.node].count = Top.count

(* The tick whose slot is being drained, or comes to be drained next. *)
TickAtHand == IF At("drain") \/ At("callback") THEN cur_time - 1 ELSE cur_time

(* Wheel i has been cascaded for the tick at hand. *)
Cascaded(i) == At("cascade") /\ i < Top.place

(* A timer due at d that is linked at slot s: it is drained at d if the slot *)
(* is of the finest wheel; else the slot is cascaded at q spans, in time.    *)
DrainedWhenDue(s, d) == s[2] = d % Size[1] /\ TickAtHand <= d /\ d < TickAtHand + Size[1]

CascadedBefore(s, d) ==
  \E q \in 0 .. d :
    /\ s[2] = q % Size[s[1]]
    /\ q * Span[s[1]] <= d
    /\ cur_time < q * Span[s[1]] \/ (cur_time = q * Span[s[1]] /\ ~Cascaded(s[1]))

TimelyAt(s, e, d) ==
  IF s[1] = 1 THEN DrainedWhenDue(s, d) ELSE e = d /\ CascadedBefore(s, d)

Timely(s, n) == TimelyAt(s, node[n].expire_time, node[n].due)

DrainsNow ==
  At("drain") \/ At("callback") => Top.place = SlotAt(1, cur_time - 1) /\ cur_time > 0

Timing ==
  ~strayed =>
    /\ DrainsNow
    /\ \A s \in Slots : \A n \in DOMAIN node : Contains(wheel[s], n) => Timely(s, n)

(* Between Uninit and Init there is nothing. *)
DownOK == ~up => node = <<>> /\ stack = <<>>

IntervalsOK == \A n \in DOMAIN node : node[n].interval # Size[1] - 1

(* What holds whatever the delays, and with the timing. *)
SInv == TypeOK /\ FramesOK /\ LinksOK /\ CountsOK

IInv == SInv /\ DownOK /\ IntervalsOK /\ Timing

-----------------------------------------------------------------------------
(* Wheels. *)

(* A set of numbers up to len that is not empty has a least member.          *)
LEMMA LeastPlace ==
  ASSUME NEW len \in Nat, NEW places \in SUBSET (1 .. len), places # {}
  PROVE  \E i \in places : \A j \in places : i <= j
<1>1. PICK c \in Nat : c = Cardinality(places)
  BY RankProperties
<1>2. \A i \in places : Rank(places, i) \in 1 .. c
  BY <1>1, RankProperties
<1>3. 1 \in 1 .. c
  <2>1. PICK i \in places, r \in 1 .. c : r = Rank(places, i)
    BY <1>2
  <2> QED
    BY <2>1
<1>4. PICK i \in places : Rank(places, i) = 1
  BY <1>1, <1>3, RankProperties
<1>5. \A j \in places : j < i => Rank(places, j) < Rank(places, i)
  BY RankProperties
<1>6. \A j \in places : i <= j
  <2> SUFFICES ASSUME NEW j \in places, j < i PROVE FALSE
    OBVIOUS
  <2>1. Rank(places, j) \in 1 .. c /\ Rank(places, j) < 1
    BY <1>2, <1>4, <1>5
  <2> QED
    BY <2>1
<1> QED
  BY <1>6

(* The tables of the wheels. *)
LEMMA Wheels ==
  /\ Len(Size) \in Nat /\ Len(Size) > 1 /\ Levels = 1 .. Len(Size)
  /\ \A i \in Levels : Size[i] \in Nat \ {0, 1} /\ Span[i] \in Nat \ {0}
  /\ Span[1] = 1 /\ 1 \in Levels /\ 2 \in Levels
  /\ \A i \in Levels : i + 1 \in Levels => Span[i + 1] = Size[i] * Span[i]
  /\ \A i \in Levels : i # 1 => i - 1 \in Levels /\ Span[i] = Size[i - 1] * Span[i - 1]
<1>1. Len(Size) \in Nat /\ Len(Size) > 1 /\ Levels = 1 .. Len(Size)
  BY WheelsAssumption DEF Levels
<1>2. \A i \in Levels : Size[i] \in Nat \ {0, 1} /\ Span[i] \in Nat \ {0}
  BY <1>1, WheelsAssumption
<1>3. \A i \in Levels : i + 1 \in Levels => Span[i + 1] = Size[i] * Span[i]
  BY <1>1, WheelsAssumption
<1>4. \A i \in Levels : i # 1 => i - 1 \in Levels /\ Span[i] = Size[i - 1] * Span[i - 1]
  <2> SUFFICES ASSUME NEW i \in Levels, i # 1
               PROVE  i - 1 \in Levels /\ Span[i] = Size[i - 1] * Span[i - 1]
    OBVIOUS
  <2>1. PICK j \in Levels : j = i - 1 /\ j + 1 = i
    BY <1>1
  <2> QED
    BY <2>1, <1>3
<1>5. 1 \in Levels /\ 2 \in Levels /\ Span[1] = 1
  BY <1>1, WheelsAssumption
<1> QED
  BY <1>1, <1>2, <1>3, <1>4, <1>5

(* The slots, one by one. *)
LEMMA SlotFacts ==
  /\ \A i \in Levels : \A x \in 0 .. Size[i] - 1 : <<i, x>> \in Slots
  /\ \A s \in Slots : s[1] \in Levels /\ s[2] \in 0 .. Size[s[1]] - 1 /\ s = <<s[1], s[2]>>
BY DEF Slots

(* Every time falls in a slot of every wheel.                                *)
LEMMA SlotAtFacts ==
  ASSUME NEW i \in Levels, NEW t \in Int
  PROVE  /\ t \div Span[i] \in Int
         /\ SlotAt(i, t) \in Slots
         /\ SlotAt(i, t)[1] = i /\ SlotAt(i, t)[2] = (t \div Span[i]) % Size[i]
         /\ i = 1 => SlotAt(i, t)[2] = t % Size[1]
<1>1. Size[i] \in Nat \ {0} /\ Span[i] \in Nat \ {0}
  BY Wheels
<1>2. PICK q \in Int : q = t \div Span[i]
  BY <1>1
<1>3. q % Size[i] \in 0 .. Size[i] - 1
  <2>1. PICK z \in Nat \ {0} : z = Size[i]
    BY <1>1
  <2>2. q % z \in 0 .. z - 1
    OBVIOUS
  <2> QED
    BY <2>1, <2>2
<1>4. i = 1 => q = t
  BY <1>2, Wheels
<1> QED
  BY <1>2, <1>3, <1>4, SlotFacts DEF SlotAt

(* The span of a wheel divides the spans of the coarser ones.                *)
LEMMA SpansDivide ==
  ASSUME NEW i \in Levels, NEW j \in Levels, i <= j
  PROVE  \E k \in Nat : Span[j] = k * Span[i]
<1> DEFINE Divided(m) == \E k \in Nat : Span[m] = k * Span[i]
<1>1. PICK len \in Nat : Levels = 1 .. len
  BY Wheels
<1>2. PICK bad \in SUBSET (1 .. len) : bad = {m \in Levels : i <= m /\ ~ Divided(m)}
  BY <1>1
<1>3. SUFFICES bad = {}
  BY <1>2
<1>4. SUFFICES ASSUME NEW m \in bad, \A b \in bad : m <= b PROVE FALSE
  BY LeastPlace
<1>5. m \in Levels /\ i <= m /\ ~ Divided(m)
  BY <1>2
<1>6. Divided(i)
  <2>1. PICK a \in Nat : a = Span[i]
    BY Wheels
  <2>2. a = 1 * a /\ 1 \in Nat
    OBVIOUS
  <2> QED
    BY <2>1, <2>2
<1>7. PICK p \in Levels : p = m - 1 /\ i <= p /\ Span[m] = Size[p] * Span[p]
  <2>1. m # i /\ m # 1 /\ i \in Nat /\ m \in Nat
    <3> HIDE DEF Divided
    <3>1. m # i /\ i \in 1 .. len /\ m \in 1 .. len /\ i <= m
      BY <1>1, <1>5, <1>6
    <3> QED
      BY <3>1
  <2> QED
    BY <2>1, <1>1, <1>5, Wheels
<1>8. p \notin bad
  <2>1. p \in Nat /\ m \in Nat /\ ~ m <= p
    BY <1>1, <1>5, <1>7
  <2> QED
    BY <1>4, <2>1
<1>9. PICK k \in Nat : Span[p] = k * Span[i]
  BY <1>2, <1>7, <1>8
<1>10. PICK c \in Nat : c = Size[p] * k
  <2>1. PICK a \in Nat : a = Size[p]
    BY Wheels
  <2>2. a * k \in Nat
    OBVIOUS
  <2> QED
    BY <2>1, <2>2
<1>11. Span[m] = c * Span[i]
  <2>1. PICK a \in Nat, b \in Nat : a = Size[p] /\ b = Span[i]
    BY Wheels
  <2>2. c * b = a * (k * b)
    BY <2>1, <1>10
  <2> QED
    BY <2>1, <2>2, <1>7, <1>9
<1> QED
  BY <1>5, <1>11

(* The multiples of a wheel's span and the slots they fall in.               *)
LEMMA Multiples ==
  ASSUME NEW span \in Nat \ {0}, NEW t \in Int
  PROVE  /\ (t \div span) * span <= t /\ t < (t \div span) * span + span
         /\ \A q \in Int : q * span = t => t \div span = q
         /\ \A size \in Nat : t \div span < size <=> t < size * span
<1>1. PICK d \in Int : d = t \div span
  OBVIOUS
<1>2. d * span <= t /\ t < d * span + span
  BY <1>1
<1>3. ASSUME NEW q \in Int, q * span = t PROVE d = q
  BY <1>1, <1>3
<1>4. ASSUME NEW size \in Nat PROVE d < size <=> t < size * span
  <2>1. ASSUME d < size PROVE t < size * span
    <3>1. d + 1 <= size
      BY <2>1
    <3>2. (d + 1) * span <= size * span
      BY <3>1
    <3> QED
      BY <3>2, <1>2
  <2>2. ASSUME size <= d PROVE size * span <= t
    <3>1. size * span <= d * span
      BY <2>2
    <3> QED
      BY <3>1, <1>2
  <2> QED
    BY <2>1, <2>2
<1> QED
  BY <1>1, <1>2, <1>3, <1>4

(* A tick at which a coarser slot begins is in slot 0 of every finer wheel.  *)
LEMMA CoarserSlotBegins ==
  ASSUME NEW i \in Levels, NEW j \in Levels, i < j, NEW q \in Nat
  PROVE  SlotAt(i, q * Span[j])[2] = 0
<1>1. i + 1 \in Levels /\ i + 1 <= j
  BY Wheels
<1>2. PICK k \in Nat : Span[j] = k * Span[i + 1]
  BY <1>1, SpansDivide
<1>3. PICK size \in Nat \ {0}, span \in Nat \ {0} : size = Size[i] /\ span = Span[i]
  BY Wheels
<1>4. Span[j] = k * (size * span)
  BY <1>1, <1>2, <1>3, Wheels
<1>5. PICK c \in Nat : c = q * k
  OBVIOUS
<1>6. PICK t \in Nat : t = q * Span[j] /\ t = (c * size) * span
  <2>1. PICK t \in Nat : t = (c * size) * span
    OBVIOUS
  <2>2. (c * size) * span = q * (k * (size * span))
    BY <1>5
  <2> QED
    BY <2>1, <2>2, <1>4
<1>7. t \div span = c * size
  BY <1>6
<1>8. (c * size) % size = 0
  OBVIOUS
<1> QED
  BY <1>3, <1>6, <1>7, <1>8, SlotAtFacts, SMTT(30)

(* Slot x of wheel i is cascaded at a tick after now, and up to e.           *)
CascadedBetween(i, x, e) ==
  \E q \in 0 .. e : x = q % Size[i] /\ q * Span[i] <= e /\ cur_time < q * Span[i]

(* The slot of a coarser wheel in which e falls, more than a span from now.  *)
LEMMA SlotOfLater ==
  ASSUME cur_time \in Nat, NEW i \in Levels, NEW t \in Int, cur_time + Span[i] <= t
  PROVE  \A e \in Int : t <= e => CascadedBetween(i, SlotAt(i, t)[2], e)
<1>1. PICK span \in Nat \ {0} : span = Span[i]
  BY Wheels
<1>2. PICK q \in Int : q = t \div span
  OBVIOUS
<1>3. q * span <= t /\ t < q * span + span
  BY <1>2, Multiples
<1>4. cur_time < q * span
  BY <1>1, <1>3
<1>5. q > 0
  BY <1>4
<1>6. q <= q * span
  BY <1>5
<1>7. SlotAt(i, t)[2] = q % Size[i]
  BY <1>1, <1>2, SlotAtFacts
<1>8. ASSUME NEW e \in Int, t <= e PROVE q \in 0 .. e /\ q * span <= e
  BY <1>3, <1>5, <1>6, <1>8
<1> QED
  BY <1>1, <1>4, <1>7, <1>8 DEF CascadedBetween

(* Where a timer is put: for the tick at hand when it is overdue; in the     *)
(* finest wheel when that reaches it; else in a slot cascaded in time.       *)
LEMMA PlaceFacts ==
  ASSUME cur_time \in Nat, NEW e \in Int, NEW p, p = Place(e)
  PROVE  /\ p \in Slots
         /\ e <= cur_time => p[1] = 1 /\ p[2] = cur_time % Size[1]
         /\ e > cur_time =>
              \/ p[1] = 1 /\ p[2] = e % Size[1] /\ e < cur_time + Size[1]
              \/ p[1] # 1 /\ CascadedBetween(p[1], p[2], e)
<1>1. CASE e <= cur_time
  <2>1. p = SlotAt(1, cur_time) /\ cur_time \in Int
    BY <1>1 DEF Place
  <2>2. p \in Slots /\ p[1] = 1 /\ p[2] = cur_time % Size[1]
    <3>1. 1 \in Levels
      BY Wheels
    <3>2. /\ SlotAt(1, cur_time) \in Slots /\ SlotAt(1, cur_time)[1] = 1
          /\ SlotAt(1, cur_time)[2] = cur_time % Size[1]
      BY <2>1, <3>1, SlotAtFacts
    <3> QED
      BY <2>1, <3>2
  <2> QED
    BY <1>1, <2>2
<1>2. CASE e > cur_time /\ Covering(e - cur_time) # {}
  <2>1. PICK d \in Nat : d = e - cur_time /\ d > 0
    BY <1>2
  <2>2. PICK len \in Nat : Levels = 1 .. len
    BY Wheels
  <2>3. PICK i \in Levels : i \in Covering(d) /\ (\A j \in Covering(d) : i <= j) /\ p = SlotAt(i, e)
    <3>1. PICK S : S = Covering(d) /\ S # {} /\ S \in SUBSET (1 .. len)
      BY <1>2, <2>1, <2>2 DEF Covering
    <3>2. \E i \in S : \A j \in S : i <= j
      BY <3>1, LeastPlace
    <3>3. PICK i : i = CHOOSE x \in S : \A y \in S : x <= y
      OBVIOUS
    <3>4. i \in S /\ \A j \in S : i <= j
      BY <3>2, <3>3, Zenon
    <3>5. i = Min(Covering(e - cur_time))
      BY <2>1, <3>1, <3>3 DEF Min
    <3>6. p = SlotAt(i, e)
      BY <1>2, <3>5 DEF Place
    <3> QED
      BY <2>2, <3>1, <3>4, <3>6
  <2>4. p \in Slots /\ p[1] = i
    BY <2>3, SlotAtFacts
  <2>5. CASE i = 1
    <3>1. PICK z \in Nat : z = Size[1]
      BY Wheels
    <3>2. d < z
      BY <2>1, <2>3, <2>5, <3>1, Wheels DEF Covering
    <3>3. p[2] = e % Size[1]
      BY <2>3, <2>5, SlotAtFacts
    <3>4. e < cur_time + Size[1]
      BY <2>1, <3>1, <3>2
    <3> QED
      BY <1>2, <2>4, <2>5, <3>3, <3>4
  <2>6. CASE i # 1
    <3>1. PICK k \in Levels : k = i - 1 /\ Span[i] = Size[k] * Span[k]
      BY <2>6, Wheels
    <3>2. k \notin Covering(d)
      BY <2>2, <2>3, <3>1
    <3>3. PICK size \in Nat, span \in Nat \ {0} : size = Size[k] /\ span = Span[k]
      BY Wheels
    <3>4. ~ (d \div span < size)
      BY <3>2, <3>3 DEF Covering
    <3>5. ~ (d < size * span)
      BY <3>4, Multiples
    <3>6. cur_time + Span[i] <= e
      BY <2>1, <3>1, <3>3, <3>5
    <3> QED
      BY <1>2, <2>3, <2>4, <2>6, <3>6, SlotOfLater
  <2> QED
    BY <2>5, <2>6
<1>3. CASE e > cur_time /\ Covering(e - cur_time) = {}
  <2>1. PICK d \in Nat : d = e - cur_time
    BY <1>3
  <2>2. PICK i \in Levels : i = Len(Size) /\ i # 1
    BY Wheels
  <2>3. PICK size \in Nat \ {0, 1}, span \in Nat \ {0} : size = Size[i] /\ span = Span[i]
    BY Wheels
  <2>4. PICK t \in Int : t = cur_time + (size - 1) * span
    OBVIOUS
  <2>5. p = SlotAt(i, t)
    BY <1>3, <2>2, <2>3, <2>4 DEF Place
  <2>6. size * span <= d
    <3>1. i \notin Covering(d)
      BY <1>3, <2>1
    <3>2. ~ (d \div span < size)
      BY <2>3, <3>1 DEF Covering
    <3> QED
      BY <3>2, Multiples
  <2>7. cur_time + span <= t /\ t <= e
    <3>1. (size - 1) * span = size * span - span /\ 2 * span <= size * span
      OBVIOUS
    <3> QED
      BY <3>1, <2>1, <2>4, <2>6
  <2>8. CascadedBetween(i, SlotAt(i, t)[2], e)
    BY <2>3, <2>7, SlotOfLater
  <2>9. p \in Slots /\ p[1] = i /\ p[2] = SlotAt(i, t)[2]
    BY <2>5, SlotAtFacts
  <2> QED
    BY <1>3, <2>2, <2>8, <2>9
<1> QED
  BY <1>1, <1>2, <1>3

-----------------------------------------------------------------------------
(* Lists. *)

(* A list without its first node. *)
LEMMA TailFacts ==
  ASSUME NEW S, NEW l \in Seq(S), l # <<>>, IsInjective(l)
  PROVE  /\ Head(l) \in S /\ Contains(l, Head(l)) /\ Tail(l) \in Seq(S) /\ IsInjective(Tail(l))
         /\ \A m : Contains(Tail(l), m) <=> Contains(l, m) /\ m # Head(l)
<1>1. PICK len \in Nat : Len(l) = len + 1 /\ DOMAIN l = 1 .. len + 1
  <2>1. PICK len : len = Len(l) - 1
    OBVIOUS
  <2>2. len \in Nat /\ Len(l) = len + 1 /\ DOMAIN l = 1 .. len + 1
    BY <2>1
  <2> QED
    BY <2>2
<1>2. PICK u : u = Tail(l)
  OBVIOUS
<1>3. /\ u \in Seq(S) /\ DOMAIN u = 1 .. len
      /\ \A i \in 1 .. len : u[i] = l[i + 1]
      /\ Head(l) = l[1] /\ l[1] \in S
  <2>1. /\ u \in Seq(S) /\ Len(u) = Len(l) - 1
        /\ \A i \in 1 .. Len(u) : u[i] = l[i + 1]
    BY <1>2, HeadTailProperties
  <2>2. Len(u) = len /\ DOMAIN u = 1 .. Len(u)
    BY <2>1, <1>1
  <2>3. Head(l) = l[1] /\ l[1] \in S
    OBVIOUS
  <2> QED
    BY <2>1, <2>2, <2>3
<1>4. \A i, j \in 1 .. len + 1 : l[i] = l[j] => i = j
  BY <1>1 DEF IsInjective
<1>5. IsInjective(u)
  <2>1. ASSUME NEW i \in 1 .. len, NEW j \in 1 .. len, u[i] = u[j]
        PROVE  i = j
    <3>1. i + 1 \in 1 .. len + 1 /\ j + 1 \in 1 .. len + 1
      OBVIOUS
    <3>2. l[i + 1] = l[j + 1]
      BY <2>1, <1>3
    <3>3. i + 1 = j + 1
      BY <3>1, <3>2, <1>4
    <3> QED
      BY <3>3
  <2> QED
    BY <2>1, <1>3 DEF IsInjective
<1>6. Contains(l, l[1])
  BY <1>1 DEF Contains
<1>7. \A m : Contains(u, m) <=> Contains(l, m) /\ m # l[1]
  <2>1. ASSUME NEW m, Contains(u, m) PROVE Contains(l, m) /\ m # l[1]
    <3>1. PICK i \in 1 .. len : l[i + 1] = m
      BY <2>1, <1>3 DEF Contains
    <3>2. i + 1 \in 1 .. len + 1 /\ i + 1 # 1
      OBVIOUS
    <3> QED
      BY <3>1, <3>2, <1>1, <1>4 DEF Contains
  <2>2. ASSUME NEW m, Contains(l, m), m # l[1] PROVE Contains(u, m)
    <3>1. PICK i \in 1 .. len + 1 : l[i] = m
      BY <2>2, <1>1 DEF Contains
    <3>2. PICK j \in 1 .. len : i = j + 1
      <4>1. i # 1
        BY <2>2, <3>1
      <4>2. PICK j \in Int : j = i - 1
        OBVIOUS
      <4>3. j \in 1 .. len /\ i = j + 1
        BY <4>1, <4>2
      <4> QED
        BY <4>3
    <3>3. u[j] = m /\ j \in DOMAIN u
      BY <3>1, <3>2, <1>3
    <3> QED
      BY <3>3 DEF Contains
  <2> QED
    BY <2>1, <2>2
<1> QED
  BY <1>2, <1>3, <1>5, <1>6, <1>7

(* A node erased is in no list. *)
LEMMA EraseFacts ==
  ASSUME TypeOK, NEW n, NEW w, w = Erase(wheel, n)
  PROVE  /\ w \in [Slots -> Seq(DOMAIN node)] /\ \A s \in Slots : IsInjective(w[s])
         /\ \A s \in Slots : \A m : Contains(w[s], m) <=> Contains(wheel[s], m) /\ m # n
<1>1. ASSUME NEW s \in Slots
      PROVE  /\ w[s] \in Seq(DOMAIN node) /\ IsInjective(w[s])
             /\ \A m : Contains(w[s], m) <=> Contains(wheel[s], m) /\ m # n
  <2>1. PICK l \in Seq(DOMAIN node) : l = wheel[s] /\ IsInjective(l)
    BY DEF TypeOK
  <2>2. w[s] = Unlinked(l, {n})
    BY <2>1 DEF Erase
  <2>3. \A m : Contains(w[s], m) <=> Contains(l, m) /\ m \notin {n}
    BY <2>2, UnlinkedProperties
  <2>4. w[s] \in Seq(DOMAIN node) /\ IsInjective(w[s])
    BY <2>1, <2>2, UnlinkedProperties
  <2> QED
    BY <2>1, <2>3, <2>4
<1>2. w = [s \in Slots |-> w[s]]
  BY DEF Erase
<1> QED
  BY <1>1, <1>2

(* In w node n is linked at slot p, the others as before; S has all nodes.   *)
InsertedAt(w, n, p, S) ==
  /\ p \in Slots
  /\ w \in [Slots -> Seq(S)] /\ \A s \in Slots : IsInjective(w[s])
  /\ \A s \in Slots : \A m :
       Contains(w[s], m) <=> (Contains(wheel[s], m) /\ m # n) \/ (m = n /\ s = p)

(* A node inserted is in one list, where its expiry belongs.                 *)
LEMMA InsertFacts ==
  ASSUME TypeOK, NEW e \in Int, NEW S, DOMAIN node \subseteq S, NEW n \in S
  PROVE  InsertedAt(InsertTimerNodeToWheel(wheel, n, e), n, Place(e), S)
<1>0. PICK w : w = InsertTimerNodeToWheel(wheel, n, e)
  OBVIOUS
<1>1. PICK p \in Slots : p = Place(e)
  BY PlaceFacts DEF TypeOK
<1>2. PICK v : v = Erase(wheel, n)
  OBVIOUS
<1>3. /\ v \in [Slots -> Seq(DOMAIN node)] /\ \A s \in Slots : IsInjective(v[s])
      /\ \A s \in Slots : \A m : Contains(v[s], m) <=> Contains(wheel[s], m) /\ m # n
  BY <1>2, EraseFacts
<1>4. \A s \in Slots : v[s] \in Seq(S)
  <2>1. \A l \in Seq(DOMAIN node) : l \in Seq(S)
    OBVIOUS
  <2> QED
    BY <2>1, <1>3
<1>5. v \in [Slots -> Seq(S)]
  BY <1>3, <1>4
<1>6. w = [v EXCEPT ![p] = PushBack(v[p], n)]
  BY <1>0, <1>1, <1>2 DEF InsertTimerNodeToWheel, PushBack
<1>7. /\ PushBack(v[p], n) \in Seq(S) /\ IsInjective(PushBack(v[p], n))
      /\ \A m : Contains(PushBack(v[p], n), m) <=> Contains(v[p], m) \/ m = n
  <2>1. PICK l \in Seq(S) : l = v[p] /\ IsInjective(l) /\ ~ Contains(l, n)
    BY <1>3, <1>5
  <2> QED
    BY <2>1, LinkedLast
<1>8. w \in [Slots -> Seq(S)] /\ w[p] = PushBack(v[p], n)
      /\ \A s \in Slots : s # p => w[s] = v[s]
  BY <1>5, <1>6, <1>7
<1>9. \A s \in Slots : IsInjective(w[s])
  BY <1>3, <1>7, <1>8
<1>10. ASSUME NEW s \in Slots, NEW m
       PROVE  Contains(w[s], m) <=> (Contains(wheel[s], m) /\ m # n) \/ (m = n /\ s = p)
  <2>1. CASE s = p
    BY <2>1, <1>3, <1>7, <1>8
  <2>2. CASE s # p
    BY <2>2, <1>3, <1>8
  <2> QED
    BY <2>1, <2>2
<1> QED
  BY <1>0, <1>1, <1>8, <1>9, <1>10 DEF InsertedAt

-----------------------------------------------------------------------------
(* Frames and links. *)

(* The innermost Update. *)
LEMMA TopFacts ==
  ASSUME FramesOK, stack # <<>>
  PROVE  /\ Len(stack) \in Nat \ {0} /\ DOMAIN stack = 1 .. Len(stack)
         /\ Len(stack) \in DOMAIN stack /\ Top = stack[Len(stack)]
         /\ Top \in Operation /\ FrameOK(Top)
<1>1. stack \in Seq(Operation) /\ Len(stack) \in Nat \ {0} /\ DOMAIN stack = 1 .. Len(stack)
  BY DEF FramesOK
<1>2. Top = stack[Len(stack)] /\ Len(stack) \in DOMAIN stack
  BY <1>1 DEF Top, Last
<1>3. Top \in Operation
  BY <1>1, <1>2
<1>4. FrameOK(Top)
  BY <1>2 DEF FramesOK
<1> QED
  BY <1>1, <1>2, <1>3, <1>4

(* Only the innermost Update goes on. *)
LEMMA BecomeFacts ==
  ASSUME FramesOK, stack # <<>>, NEW f \in Operation, Become(f), FrameOK(f)',
         DOMAIN node \subseteq DOMAIN node'
  PROVE  /\ FramesOK' /\ Len(stack') = Len(stack) /\ stack' # <<>> /\ Top' = f
         /\ \A m : Calling(m) => Calling(m)' \/ (Top.at = "callback" /\ Top.node = m)
         /\ f.at = "callback" => Calling(f.node)'
<1>1. PICK len \in Nat \ {0} : len = Len(stack) /\ DOMAIN stack = 1 .. len /\ len \in DOMAIN stack
  BY TopFacts
<1>2. stack' = [stack EXCEPT ![len] = f] /\ stack \in Seq(Operation)
  BY <1>1 DEF Become, FramesOK
<1>3. stack' \in Seq(Operation) /\ Len(stack') = len /\ DOMAIN stack' = 1 .. len
  BY <1>1, <1>2
<1>4. stack'[len] = f /\ \A k \in 1 .. len : k # len => stack'[k] = stack[k]
  BY <1>1, <1>2
<1>5. stack' # <<>>
  BY <1>3
<1>6. Top' = f
  BY <1>3, <1>4, <1>5 DEF Top, Last
<1>7. \A k \in 1 .. len : k # len => FrameOK(stack[k])' /\ stack[k].at = "callback"
  <2>1. \A k \in 1 .. len : FrameOK(stack[k]) /\ (k # len => stack[k].at = "callback")
    BY <1>1 DEF FramesOK
  <2> QED
    BY <2>1, <1>4 DEF FrameOK
<1>8. FramesOK'
  BY <1>3, <1>4, <1>7 DEF FramesOK, FrameOK
<1>9. \A m : Calling(m) => Calling(m)' \/ (Top.at = "callback" /\ Top.node = m)
  <2>1. Top = stack[len]
    BY <1>1, TopFacts
  <2> QED
    BY <2>1, <1>1, <1>3, <1>4 DEF Calling
<1>10. f.at = "callback" => Calling(f.node)'
  BY <1>3, <1>4 DEF Calling
<1> QED
  BY <1>1, <1>3, <1>5, <1>6, <1>8, <1>9, <1>10

(* A step that leaves all nodes but n where they were. *)
LEMMA LinksMoved ==
  ASSUME SInv, TypeOK', NEW n \in DOMAIN node', DOMAIN node' = DOMAIN node \cup {n},
         \A m \in DOMAIN node : m # n =>
           /\ node'[m].is_using = node[m].is_using
           /\ Contains(free_list', m) <=> Contains(free_list, m)
           /\ Calling(m) => Calling(m)',
         \A s \in Slots : \A m \in DOMAIN node : m # n =>
           (Contains(wheel'[s], m) <=> Contains(wheel[s], m)),
         Contains(free_list', n) <=> ~node'[n].is_using,
         \A s, t \in Slots : Contains(wheel'[s], n) /\ Contains(wheel'[t], n) => s = t,
         \A s \in Slots : Contains(wheel'[s], n) => node'[n].is_using,
         node'[n].is_using => (\E s \in Slots : Contains(wheel'[s], n)) \/ Calling(n)'
  PROVE  LinksOK'
<1>1. \A m \in DOMAIN node' : Contains(free_list', m) <=> ~node'[m].is_using
  BY DEF SInv, LinksOK
<1>2. \A s \in Slots : \A m \in DOMAIN node' : Contains(wheel'[s], m) => node'[m].is_using
  BY DEF SInv, LinksOK
<1>3. \A s, t \in Slots : \A m \in DOMAIN node' :
        Contains(wheel'[s], m) /\ Contains(wheel'[t], m) => s = t
  BY DEF SInv, LinksOK
<1>4. \A m \in DOMAIN node' : node'[m].is_using =>
        (\E s \in Slots : Contains(wheel'[s], m)) \/ Calling(m)'
  BY DEF SInv, LinksOK, Linked
<1> QED
  BY <1>1, <1>2, <1>3, <1>4 DEF LinksOK, Linked

-----------------------------------------------------------------------------
(* Steps of the client. *)

(* Node n, of the free list or new, is armed; the other nodes are the same.  *)
NodeArmed(n, delay, interval) ==
  /\ n \in Nat /\ node' \in Seq(TimerNode) /\ DOMAIN node' = DOMAIN node \cup {n}
  /\ n \in DOMAIN node => ~node[n].is_using
  /\ \A s \in Slots : ~ Contains(wheel[s], n)
  /\ node'[n].is_using /\ node'[n].expire_time = cur_time + delay - 1
  /\ node'[n].due = Later(cur_time + delay - 1, cur_time)
  /\ node'[n].interval = interval
  /\ \A m \in DOMAIN node : m # n => node'[m] = node[m]
  /\ free_list' \in Seq(DOMAIN node') /\ IsInjective(free_list')
  /\ \A m : Contains(free_list', m) <=> Contains(free_list, m) /\ m # n

(* SetTimer arms the node it takes. *)
LEMMA SetTimerFacts ==
  ASSUME SInv, NEW delay \in Nat, NEW interval \in Nat, SetTimer(delay, interval)
  PROVE  NodeArmed(TakenNode, delay, interval)
<1>0. PICK n : n = TakenNode
  OBVIOUS
<1>1. /\ node \in Seq(TimerNode) /\ free_list \in Seq(DOMAIN node) /\ IsInjective(free_list)
      /\ cur_time \in Nat /\ wheel \in [Slots -> Seq(DOMAIN node)]
  BY DEF SInv, TypeOK
<1>2. PICK len \in Nat : len = Len(node) /\ DOMAIN node = 1 .. len
  BY <1>1
<1>3. \A s \in Slots : \A m : Contains(wheel[s], m) => m \in DOMAIN node /\ node[m].is_using
  <2>1. \A s \in Slots : \A m : Contains(wheel[s], m) => m \in DOMAIN node
    BY <1>1, ToSetContains
  <2> QED
    BY <2>1 DEF SInv, LinksOK
<1>4. \A c \in 0 .. IdMod - 1 : Armed(c, delay, interval) \in TimerNode
  BY <1>1 DEF Armed, TimerNode, Later
<1>5. IdMod \in Nat \ {0, 1}
  BY BoundsAssumption
<1>6. ASSUME free_list # <<>> PROVE NodeArmed(n, delay, interval)
  <2>1. /\ n = Head(free_list) /\ n \in DOMAIN node /\ Contains(free_list, n)
        /\ Tail(free_list) \in Seq(DOMAIN node) /\ IsInjective(Tail(free_list))
        /\ \A m : Contains(Tail(free_list), m) <=> Contains(free_list, m) /\ m # n
    BY <1>0, <1>1, <1>6, TailFacts DEF TakenNode
  <2>2. node' = [node EXCEPT ![n] = Armed(NextCount(node[n].count), delay, interval)]
        /\ free_list' = Tail(free_list)
    BY <1>0, <1>6 DEF SetTimer
  <2>3. NextCount(node[n].count) \in 0 .. IdMod - 1
    <3>1. node[n] \in TimerNode
      BY <1>1, <2>1
    <3>2. PICK c \in Nat : c = node[n].count
      BY <3>1, <1>5 DEF TimerNode
    <3>3. (c + 1) % IdMod \in 0 .. IdMod - 1
      BY <1>5
    <3> QED
      BY <3>2, <3>3 DEF NextCount
  <2>4. PICK r \in TimerNode :
          /\ r = Armed(NextCount(node[n].count), delay, interval)
          /\ r.is_using /\ r.expire_time = cur_time + delay - 1
          /\ r.due = Later(cur_time + delay - 1, cur_time) /\ r.interval = interval
    BY <2>3, <1>4 DEF Armed
  <2>5. /\ node' \in Seq(TimerNode) /\ DOMAIN node' = DOMAIN node /\ node'[n] = r
        /\ \A m \in DOMAIN node : m # n => node'[m] = node[m]
    BY <1>1, <2>1, <2>2, <2>4
  <2>6. n \in Nat /\ DOMAIN node' = DOMAIN node \cup {n}
    BY <1>2, <2>1, <2>5
  <2>7. ~node[n].is_using
    BY <2>1 DEF SInv, LinksOK
  <2>8. \A s \in Slots : ~ Contains(wheel[s], n)
    BY <1>3, <2>7
  <2> QED
    BY <2>1, <2>2, <2>4, <2>5, <2>6, <2>7, <2>8 DEF NodeArmed
<1>7. ASSUME free_list = <<>> PROVE NodeArmed(n, delay, interval)
  <2>1. n = len + 1 /\ n \notin DOMAIN node
    BY <1>0, <1>2, <1>7 DEF TakenNode
  <2>2. PICK r \in TimerNode :
          /\ r = Armed(0, delay, interval)
          /\ r.is_using /\ r.expire_time = cur_time + delay - 1
          /\ r.due = Later(cur_time + delay - 1, cur_time) /\ r.interval = interval
    <3>1. 0 \in 0 .. IdMod - 1
      BY <1>5
    <3> QED
      BY <3>1, <1>4 DEF Armed
  <2>3. node' = Append(node, r) /\ free_list' = free_list
    BY <1>7, <2>2 DEF SetTimer
  <2>4. /\ node' \in Seq(TimerNode) /\ DOMAIN node' = 1 .. len + 1 /\ node'[n] = r
        /\ \A m \in DOMAIN node : m # n => node'[m] = node[m]
    BY <1>1, <1>2, <2>1, <2>3
  <2>5. DOMAIN node' = DOMAIN node \cup {n} /\ n \in Nat
    BY <1>2, <2>1, <2>4
  <2>6. \A m : Contains(free_list, m) => m # n
    BY <1>1, <2>1, ToSetContains
  <2>7. \A s \in Slots : ~ Contains(wheel[s], n)
    BY <1>3, <2>1
  <2>8. free_list' \in Seq(DOMAIN node')
    BY <1>7, <2>3
  <2> QED
    BY <1>1, <2>1, <2>2, <2>3, <2>4, <2>5, <2>6, <2>7, <2>8 DEF NodeArmed
<1> QED
  BY <1>0, <1>6, <1>7

(* SetTimer keeps SInv. *)
LEMMA SetTimerKeeps ==
  ASSUME SInv, NEW delay \in Nat, NEW interval \in Nat, SetTimer(delay, interval)
  PROVE  SInv'
<1>1. PICK n : n = TakenNode
  OBVIOUS
<1>2. /\ n \in Nat /\ node' \in Seq(TimerNode) /\ DOMAIN node' = DOMAIN node \cup {n}
      /\ n \in DOMAIN node => ~node[n].is_using
      /\ \A s \in Slots : ~ Contains(wheel[s], n)
      /\ node'[n].is_using
      /\ \A m \in DOMAIN node : m # n => node'[m] = node[m]
      /\ free_list' \in Seq(DOMAIN node') /\ IsInjective(free_list')
      /\ \A m : Contains(free_list', m) <=> Contains(free_list, m) /\ m # n
  BY <1>1, SetTimerFacts DEF NodeArmed
<1>3. PICK e \in Int : e = cur_time + delay - 1
  BY DEF SInv, TypeOK
<1>4. PICK w : w = wheel' /\ w = InsertTimerNodeToWheel(wheel, n, e)
  BY <1>1, <1>3 DEF SetTimer
<1>5. PICK S : S = DOMAIN node' /\ DOMAIN node \subseteq S /\ n \in S
  BY <1>2
<1>6. /\ Place(e) \in Slots
      /\ w \in [Slots -> Seq(S)] /\ \A s \in Slots : IsInjective(w[s])
      /\ \A s \in Slots : \A m :
           Contains(w[s], m) <=> (Contains(wheel[s], m) /\ m # n) \/ (m = n /\ s = Place(e))
  <2>1. InsertedAt(w, n, Place(e), S)
    BY <1>3, <1>4, <1>5, InsertFacts DEF SInv
  <2> QED
    BY <2>1 DEF InsertedAt
<1>7. UNCHANGED <<up, cur_time, next_time, stack>> /\ strayed' = (strayed \/ DeletedItself)
  BY DEF SetTimer
<1>8. TypeOK'
  <2>1. /\ up' \in BOOLEAN /\ strayed' \in BOOLEAN
        /\ cur_time' \in Nat /\ next_time' \in Nat
    BY <1>7 DEF SInv, TypeOK, DeletedItself
  <2>2. wheel' \in [Slots -> Seq(DOMAIN node')] /\ \A s \in Slots : IsInjective(wheel'[s])
    BY <1>4, <1>5, <1>6
  <2> QED
    BY <2>1, <2>2, <1>2 DEF TypeOK
<1>9. \A m : Calling(m)' <=> Calling(m)
  BY <1>7 DEF Calling
<1>10. LinksOK'
  BY <1>2, <1>4, <1>6, <1>8, <1>9, LinksMoved
<1>11. FramesOK'
  BY <1>2, <1>7 DEF SInv, FramesOK, FrameOK
<1>12. CountsOK'
  <2>1. Top' = Top
    BY <1>7 DEF Top
  <2>2. ASSUME At("callback"), ~strayed' PROVE Top.node \in DOMAIN node /\ Top.node # n
    <3>1. Top.node \in DOMAIN node
      BY <2>2, TopFacts DEF SInv, At, FrameOK
    <3>2. node[Top.node].is_using
      BY <2>2, <1>7 DEF At, DeletedItself, InCallback
    <3> QED
      BY <3>1, <3>2, <1>2
  <2> QED
    BY <2>1, <2>2, <1>2, <1>7 DEF SInv, CountsOK, At
<1> QED
  BY <1>8, <1>10, <1>11, <1>12 DEF SInv
(* A node that goes back to the free list is in no wheel; the rest stays.    *)
LEMMA FreeFacts ==
  ASSUME SInv, NEW n \in DOMAIN node, node[n].is_using, MoveTimerNodeToFreeList(n)
  PROVE  /\ node' \in Seq(TimerNode) /\ DOMAIN node' = DOMAIN node
         /\ ~node'[n].is_using /\ node'[n].count = node[n].count /\ node'[n].interval = 0
         /\ \A m \in DOMAIN node : m # n => node'[m] = node[m]
         /\ free_list' \in Seq(DOMAIN node') /\ IsInjective(free_list')
         /\ \A m : Contains(free_list', m) <=> Contains(free_list, m) \/ m = n
         /\ wheel' \in [Slots -> Seq(DOMAIN node')] /\ \A s \in Slots : IsInjective(wheel'[s])
         /\ \A s \in Slots : \A m : Contains(wheel'[s], m) <=> Contains(wheel[s], m) /\ m # n
<1>1. node \in Seq(TimerNode) /\ free_list \in Seq(DOMAIN node) /\ IsInjective(free_list)
  BY DEF SInv, TypeOK
<1>2. PICK r \in TimerNode : node' = [node EXCEPT ![n] = r] /\ ~r.is_using
                             /\ r.count = node[n].count /\ r.interval = 0
  <2>1. node[n] \in TimerNode
    BY <1>1
  <2>2. PICK c \in 0 .. IdMod - 1 : c = node[n].count
    BY <2>1 DEF TimerNode
  <2>3. PICK r : r = [count |-> c, expire_time |-> 0, interval |-> 0, is_using |-> FALSE,
                      due |-> 0]
    OBVIOUS
  <2>4. r \in TimerNode
    BY <2>2, <2>3 DEF TimerNode
  <2> QED
    BY <2>2, <2>3, <2>4 DEF MoveTimerNodeToFreeList
<1>3. /\ node' \in Seq(TimerNode) /\ DOMAIN node' = DOMAIN node /\ node'[n] = r
      /\ \A m \in DOMAIN node : m # n => node'[m] = node[m]
  BY <1>1, <1>2
<1>4. /\ free_list' \in Seq(DOMAIN node') /\ IsInjective(free_list')
      /\ \A m : Contains(free_list', m) <=> Contains(free_list, m) \/ m = n
  <2>1. free_list' = PushBack(free_list, n)
    BY DEF MoveTimerNodeToFreeList, PushBack
  <2>2. ~ Contains(free_list, n)
    BY DEF SInv, LinksOK
  <2> QED
    BY <2>1, <2>2, <1>1, <1>3, LinkedLast, ZenonT(60)
<1>5. /\ wheel' \in [Slots -> Seq(DOMAIN node')] /\ \A s \in Slots : IsInjective(wheel'[s])
      /\ \A s \in Slots : \A m : Contains(wheel'[s], m) <=> Contains(wheel[s], m) /\ m # n
  <2>1. PICK w : w = wheel' /\ w = Erase(wheel, n)
    BY DEF MoveTimerNodeToFreeList
  <2> QED
    BY <2>1, <1>3, EraseFacts DEF SInv
<1> QED
  BY <1>2, <1>3, <1>4, <1>5

(* ... and what is known of links and frames stays true. *)
LEMMA FreeKeeps ==
  ASSUME SInv, NEW n \in DOMAIN node, node[n].is_using, MoveTimerNodeToFreeList(n),
         UNCHANGED <<up, cur_time, next_time, strayed>>,
         FramesOK', \A m \in DOMAIN node : m # n => (Calling(m) => Calling(m)')
  PROVE  TypeOK' /\ LinksOK'
<1>1. /\ node' \in Seq(TimerNode) /\ DOMAIN node' = DOMAIN node
      /\ ~node'[n].is_using
      /\ \A m \in DOMAIN node : m # n => node'[m] = node[m]
      /\ free_list' \in Seq(DOMAIN node') /\ IsInjective(free_list')
      /\ \A m : Contains(free_list', m) <=> Contains(free_list, m) \/ m = n
      /\ wheel' \in [Slots -> Seq(DOMAIN node')] /\ \A s \in Slots : IsInjective(wheel'[s])
      /\ \A s \in Slots : \A m : Contains(wheel'[s], m) <=> Contains(wheel[s], m) /\ m # n
  BY FreeFacts
<1>2. TypeOK'
  BY <1>1 DEF SInv, TypeOK
<1>3. LinksOK'
  BY <1>1, <1>2, LinksMoved
<1> QED
  BY <1>2, <1>3

(* DelTimer keeps SInv: the node of the timer deleted is not that of any     *)
(* other in use.                                                             *)
LEMMA DelTimerKeeps ==
  ASSUME SInv, NEW n, NEW c, DelTimer(n, c)
  PROVE  SInv'
<1>1. n \in DOMAIN node /\ node[n].is_using /\ MoveTimerNodeToFreeList(n)
      /\ UNCHANGED <<up, cur_time, next_time, stack, strayed>>
  BY DEF DelTimer, Found
<1>2. DOMAIN node' = DOMAIN node /\ ~node'[n].is_using
      /\ \A m \in DOMAIN node : m # n => node'[m] = node[m]
  BY <1>1, FreeFacts
<1>3. FramesOK'
  BY <1>1, <1>2 DEF SInv, FramesOK, FrameOK
<1>4. \A m \in DOMAIN node : Calling(m) => Calling(m)'
  BY <1>1 DEF Calling
<1>5. TypeOK' /\ LinksOK'
  BY <1>1, <1>3, <1>4, FreeKeeps
<1>6. CountsOK'
  <2>1. Top' = Top
    BY <1>1 DEF Top
  <2>2. At("callback") => Top.node \in DOMAIN node
    BY TopFacts DEF SInv, At, FrameOK
  <2> QED
    BY <2>1, <2>2, <1>1, <1>2 DEF SInv, CountsOK, At
<1> QED
  BY <1>3, <1>5, <1>6 DEF SInv

(* A step that leaves the nodes and their lists alone. *)
LEMMA ListsKept ==
  ASSUME SInv, UNCHANGED <<node, free_list, wheel>>, \A m : Calling(m) => Calling(m)'
  PROVE  LinksOK'
BY DEF SInv, LinksOK, Linked

(* Uninit and Init leave no node and no Update. *)
LEMMA UninitKeeps ==
  ASSUME SInv, Uninit
  PROVE  SInv'
<1>1. /\ node' = <<>> /\ free_list' = <<>> /\ wheel' = [s \in Slots |-> <<>>]
      /\ stack' = <<>> /\ stack = <<>> /\ up' = FALSE /\ strayed' = FALSE
      /\ UNCHANGED <<cur_time, next_time>>
  BY DEF Uninit
<1>2. DOMAIN node' = {} /\ IsInjective(<<>>) /\ <<>> \in Seq({})
  BY <1>1 DEF IsInjective
<1>3. TypeOK'
  <2>1. wheel' \in [Slots -> Seq(DOMAIN node')] /\ \A s \in Slots : IsInjective(wheel'[s])
    BY <1>1, <1>2
  <2>2. node' \in Seq(TimerNode) /\ free_list' \in Seq(DOMAIN node') /\ IsInjective(free_list')
    BY <1>1, <1>2
  <2>3. up' \in BOOLEAN /\ strayed' \in BOOLEAN /\ cur_time' \in Nat /\ next_time' \in Nat
    BY <1>1 DEF SInv, TypeOK
  <2> QED
    BY <2>1, <2>2, <2>3 DEF TypeOK
<1>4. FramesOK'
  BY <1>1 DEF SInv, FramesOK
<1>5. LinksOK'
  BY <1>2 DEF LinksOK
<1>6. CountsOK'
  BY <1>1 DEF CountsOK, At
<1> QED
  BY <1>3, <1>4, <1>5, <1>6 DEF SInv

(* Init after Uninit moves the clock only. *)
LEMMA InitAgainKeeps ==
  ASSUME SInv, NEW t \in StartTimes, InitAgain(t)
  PROVE  SInv'
<1>1. /\ UNCHANGED <<node, free_list, wheel, stack, strayed>>
      /\ up' = TRUE /\ cur_time' = t + 1 /\ next_time' = t + 1 /\ t \in Nat
  BY BoundsAssumption DEF InitAgain
<1>2. TypeOK'
  BY <1>1 DEF SInv, TypeOK
<1>3. FramesOK' /\ CountsOK'
  BY <1>1 DEF SInv, FramesOK, FrameOK, CountsOK, At, Top
<1>4. LinksOK'
  <2>1. \A m : Calling(m) => Calling(m)'
    BY <1>1 DEF Calling
  <2> QED
    BY <2>1, <1>1, ListsKept
<1> QED
  BY <1>2, <1>3, <1>4 DEF SInv

(* A frame of Update. *)
LEMMA Frames ==
  ASSUME NEW at \in {"tick", "cascade", "drain", "callback"}, NEW place \in Nat \cup Slots,
         NEW n \in Nat, NEW c \in Nat
  PROVE  Frame(at, place, n, c) \in Operation
BY DEF Frame, Operation

(* A call of Update begins at the loop head, on top of the callback that     *)
(* calls it.                                                                 *)
LEMMA UpdateKeeps ==
  ASSUME SInv, NEW t \in Nat, Update(t)
  PROVE  SInv'
<1>1. /\ stack = <<>> \/ At("callback")
      /\ next_time' = t + 1 /\ strayed' = (strayed \/ InCallback)
      /\ UNCHANGED <<up, cur_time, node, free_list, wheel>>
  BY DEF Update, ClientRuns
<1>2. PICK f \in Operation : f = Frame("tick", 0, 0, 0)
  BY Frames
<1>3. f.at = "tick" /\ stack' = Append(stack, f)
  BY <1>2 DEF Frame, Update
<1>4. TypeOK'
  BY <1>1 DEF SInv, TypeOK, InCallback
<1>5. PICK len \in Nat : len = Len(stack) /\ DOMAIN stack = 1 .. len
  BY DEF SInv, FramesOK
<1>6. /\ stack' \in Seq(Operation) /\ Len(stack') = len + 1 /\ DOMAIN stack' = 1 .. len + 1
      /\ stack'[len + 1] = f /\ \A k \in 1 .. len : stack'[k] = stack[k]
  BY <1>3, <1>5 DEF SInv, FramesOK
<1>7. FramesOK'
  <2>1. \A k \in 1 .. len : FrameOK(stack[k]) /\ stack[k].at = "callback"
    <3>1. \A k \in 1 .. len : FrameOK(stack[k]) /\ (k # len => stack[k].at = "callback")
      BY <1>5 DEF SInv, FramesOK
    <3>2. len # 0 => stack[len].at = "callback"
      BY <1>1, <1>5, TopFacts DEF SInv, At
    <3> QED
      BY <3>1, <3>2, <1>5
  <2>2. \A k \in 1 .. len : FrameOK(stack[k])'
    BY <2>1, <1>1, <1>6 DEF FrameOK
  <2>3. FrameOK(stack[len + 1])'
    BY <1>3, <1>6 DEF FrameOK
  <2>4. \A k \in 1 .. len + 1 : k = len + 1 \/ k \in 1 .. len
    BY <1>5
  <2> QED
    BY <2>1, <2>2, <2>3, <2>4, <1>6 DEF FramesOK
<1>8. LinksOK'
  <2>1. \A m : Calling(m) => Calling(m)'
    BY <1>5, <1>6 DEF Calling
  <2> QED
    BY <2>1, <1>1, ListsKept
<1>9. CountsOK'
  <2>1. Top' = f /\ stack' # <<>>
    BY <1>6 DEF Top, Last
  <2>2. ~strayed' => len = 0
    BY <1>1, <1>5 DEF InCallback
  <2> QED
    BY <2>1, <2>2, <1>3, <1>6 DEF CountsOK, At
<1> QED
  BY <1>4, <1>7, <1>8, <1>9 DEF SInv
-----------------------------------------------------------------------------
(* Steps of Update. *)

(* The innermost Update is no longer in a callback, or was in none. *)
LEMMA GoesOn ==
  ASSUME SInv, stack # <<>>, NEW f \in Operation, Become(f), FrameOK(f)',
         DOMAIN node \subseteq DOMAIN node', f.at # "callback", strayed' = strayed
  PROVE  FramesOK' /\ CountsOK' /\ stack' # <<>> /\ Top' = f
<1>1. FramesOK' /\ Len(stack') = Len(stack) /\ stack' # <<>> /\ Top' = f
  BY BecomeFacts DEF SInv
<1>2. CountsOK'
  BY <1>1 DEF SInv, CountsOK, At
<1> QED
  BY <1>1, <1>2

(* The tick's slot begins to be drained. *)
LEMMA StartDrainFacts ==
  ASSUME SInv, stack # <<>>, Top.at # "callback", StartDrain,
         UNCHANGED <<up, next_time, node, free_list, wheel, strayed>>
  PROVE  /\ SInv' /\ cur_time' = cur_time + 1 /\ stack' # <<>>
         /\ Top'.at = "drain" /\ Top'.place = SlotAt(1, cur_time)
<1>1. PICK p \in Slots : p = SlotAt(1, cur_time)
  BY SlotAtFacts, Wheels DEF SInv, TypeOK
<1>2. PICK f \in Operation : f = Frame("drain", p, 0, 0)
  BY Frames
<1>3. f.at = "drain" /\ f.place = p
  BY <1>2 DEF Frame
<1>4. Become(f) /\ cur_time' = cur_time + 1
  BY <1>1, <1>2 DEF StartDrain
<1>5. FrameOK(f)'
  BY <1>3 DEF FrameOK
<1>6. FramesOK' /\ CountsOK' /\ stack' # <<>> /\ Top' = f
  BY <1>3, <1>4, <1>5, GoesOn
<1>7. \A m : Calling(m) => Calling(m)'
  BY <1>4, <1>5, BecomeFacts DEF SInv
<1>8. TypeOK'
  BY <1>4 DEF SInv, TypeOK
<1>9. LinksOK'
  BY <1>7, ListsKept
<1> QED
  BY <1>1, <1>3, <1>4, <1>6, <1>8, <1>9 DEF SInv

(* Any other step of the innermost Update that moves no node. *)
LEMMA BecomeKeeps ==
  ASSUME SInv, stack # <<>>, Top.at # "callback", NEW f \in Operation, Become(f),
         f.at # "callback", FrameOK(f),
         UNCHANGED <<up, cur_time, next_time, node, free_list, wheel, strayed>>
  PROVE  SInv' /\ stack' # <<>> /\ Top' = f
<1>1. FrameOK(f)'
  BY DEF FrameOK
<1>2. FramesOK' /\ CountsOK' /\ stack' # <<>> /\ Top' = f
  BY <1>1, GoesOn
<1>3. \A m : Calling(m) => Calling(m)'
  BY <1>1, BecomeFacts DEF SInv
<1>4. TypeOK'
  BY DEF SInv, TypeOK
<1>5. LinksOK'
  BY <1>3, ListsKept
<1> QED
  BY <1>2, <1>4, <1>5 DEF SInv

(* An Update returns: to the callback that called it, if there is one.       *)
LEMMA ReturnFacts ==
  ASSUME SInv, stack # <<>>, Top.at # "callback", stack' = Front(stack),
         UNCHANGED <<up, cur_time, next_time, node, free_list, wheel, strayed>>
  PROVE  SInv' /\ (~strayed => stack' = <<>>)
<1>1. PICK len \in Nat : Len(stack) = len + 1 /\ DOMAIN stack = 1 .. len + 1
                         /\ Top = stack[len + 1]
  <2>1. Len(stack) \in Nat \ {0} /\ DOMAIN stack = 1 .. Len(stack) /\ Top = stack[Len(stack)]
    BY TopFacts DEF SInv
  <2>2. PICK len : len = Len(stack) - 1
    OBVIOUS
  <2>3. len \in Nat /\ Len(stack) = len + 1
    BY <2>1, <2>2
  <2> QED
    BY <2>1, <2>3
<1>2. /\ stack' \in Seq(Operation) /\ Len(stack') = len /\ DOMAIN stack' = 1 .. len
      /\ \A k \in 1 .. len : stack'[k] = stack[k]
  <2>1. stack' = SubSeq(stack, 1, len)
    BY <1>1 DEF Front
  <2>2. stack \in Seq(Operation)
    BY DEF SInv, FramesOK
  <2> QED
    BY <2>1, <2>2, <1>1
<1>3. \A k \in 1 .. len : FrameOK(stack[k]) /\ stack[k].at = "callback"
  <2>1. \A k \in 1 .. len + 1 : FrameOK(stack[k]) /\ (k # len + 1 => stack[k].at = "callback")
    BY <1>1 DEF SInv, FramesOK
  <2>2. \A k \in 1 .. len : k \in 1 .. len + 1 /\ k # len + 1
    OBVIOUS
  <2> QED
    BY <2>1, <2>2
<1>4. FramesOK'
  BY <1>2, <1>3 DEF FramesOK, FrameOK
<1>5. \A m : Calling(m) => Calling(m)'
  <2>1. ASSUME NEW m, Calling(m) PROVE Calling(m)'
    <3>1. PICK k \in 1 .. len + 1 : stack[k].at = "callback" /\ stack[k].node = m
      BY <2>1, <1>1 DEF Calling
    <3>2. k \in 1 .. len
      <4>1. k # len + 1
        BY <3>1, <1>1
      <4> QED
        BY <4>1
    <3> QED
      BY <3>1, <3>2, <1>2 DEF Calling
  <2> QED
    BY <2>1
<1>6. ~strayed => stack' = <<>>
  <2>1. ~strayed => len + 1 <= 1
    BY <1>1 DEF SInv, CountsOK
  <2> QED
    BY <2>1, <1>2
<1>7. CountsOK'
  BY <1>6 DEF CountsOK, At
<1>8. TypeOK'
  BY DEF SInv, TypeOK
<1>9. LinksOK'
  BY <1>5, ListsKept
<1> QED
  BY <1>4, <1>6, <1>7, <1>8, <1>9 DEF SInv

(* The loop head. *)
LEMMA TickKeeps ==
  ASSUME SInv, Tick
  PROVE  SInv'
<1>1. /\ stack # <<>> /\ Top.at = "tick"
      /\ UNCHANGED <<up, next_time, node, free_list, wheel, strayed>>
  BY DEF Tick, At
<1>2. CASE Become(Frame("cascade", 2, 0, 0)) /\ UNCHANGED cur_time
  <2>1. PICK f \in Operation : f = Frame("cascade", 2, 0, 0)
    BY Frames
  <2>2. f.at = "cascade" /\ f.place = 2 /\ FrameOK(f)
    BY <2>1, Wheels DEF Frame, FrameOK
  <2> QED
    BY <1>1, <1>2, <2>1, <2>2, BecomeKeeps
<1>3. CASE StartDrain
  BY <1>1, <1>3, StartDrainFacts
<1>4. CASE stack' = Front(stack) /\ UNCHANGED cur_time
  BY <1>1, <1>4, ReturnFacts
<1> QED
  BY <1>2, <1>3, <1>4 DEF Tick

(* One node cascaded: it is linked in one slot again, by its expiry.         *)
LEMMA CascadeNodeFacts ==
  ASSUME SInv, NEW s \in Slots, wheel[s] # <<>>, NEW n, n = Head(wheel[s]),
         wheel' = InsertTimerNodeToWheel(wheel, n, node[n].expire_time),
         UNCHANGED <<up, cur_time, next_time, node, free_list, stack, strayed>>
  PROVE  /\ SInv' /\ n \in DOMAIN node /\ Contains(wheel[s], n)
         /\ node[n].expire_time \in Int
         /\ InsertedAt(wheel', n, Place(node[n].expire_time), DOMAIN node)
<1>1. n \in DOMAIN node /\ Contains(wheel[s], n)
  <2>1. wheel[s] \in Seq(DOMAIN node) /\ IsInjective(wheel[s])
    BY DEF SInv, TypeOK
  <2> QED
    BY <2>1, TailFacts
<1>2. PICK e \in Int : e = node[n].expire_time
  <2>1. node[n] \in TimerNode
    BY <1>1 DEF SInv, TypeOK
  <2> QED
    BY <2>1 DEF TimerNode
<1>3. InsertedAt(wheel', n, Place(e), DOMAIN node)
  BY <1>1, <1>2, InsertFacts DEF SInv
<1>4. TypeOK'
  BY <1>3 DEF SInv, TypeOK, InsertedAt
<1>5. FramesOK' /\ CountsOK' /\ \A m : Calling(m)' <=> Calling(m)
  BY DEF SInv, FramesOK, FrameOK, CountsOK, At, Top, Calling
<1>6. node[n].is_using /\ ~Contains(free_list, n)
  BY <1>1 DEF SInv, LinksOK
<1>7. LinksOK'
  <2>1. \E t \in Slots : Contains(wheel'[t], n)
    BY <1>3 DEF InsertedAt
  <2> QED
    BY <2>1, <1>1, <1>3, <1>4, <1>5, <1>6, LinksMoved DEF InsertedAt
<1> QED
  BY <1>1, <1>2, <1>3, <1>4, <1>5, <1>7 DEF SInv
(* The cascade.                                                              *)
LEMMA CascadeKeeps ==
  ASSUME SInv, Cascade
  PROVE  SInv'
<1>1. /\ stack # <<>> /\ Top.at = "cascade"
      /\ UNCHANGED <<up, next_time, node, free_list, strayed>>
  BY DEF Cascade, At
<1>2. PICK i \in 2 .. Len(Size) + 1 : i = Top.place
  BY <1>1, TopFacts DEF SInv, FrameOK
<1>3. CASE StartDrain /\ UNCHANGED wheel
  BY <1>1, <1>3, StartDrainFacts
<1>4. CASE i \in Levels /\ wheel[SlotAt(i, cur_time)] # <<>>
  <2>1. PICK s \in Slots : s = SlotAt(i, cur_time)
    BY <1>4, SlotAtFacts DEF SInv, TypeOK
  <2>2. PICK n : n = Head(wheel[s])
    OBVIOUS
  <2>3. /\ wheel' = InsertTimerNodeToWheel(wheel, n, node[n].expire_time)
        /\ UNCHANGED <<cur_time, stack>>
    BY <1>2, <1>4, <2>1, <2>2 DEF Cascade
  <2> QED
    BY <1>1, <1>4, <2>1, <2>2, <2>3, CascadeNodeFacts
<1>5. CASE i \in Levels /\ Become(Frame("cascade", i + 1, 0, 0)) /\ UNCHANGED <<cur_time, wheel>>
  <2>1. i + 1 \in 2 .. Len(Size) + 1 /\ i + 1 \in Nat
    BY <1>5, Wheels
  <2>2. PICK f \in Operation : f = Frame("cascade", i + 1, 0, 0)
    BY <2>1, Frames
  <2>3. f.at = "cascade" /\ f.place = i + 1 /\ FrameOK(f)
    BY <2>1, <2>2 DEF Frame, FrameOK
  <2> QED
    BY <1>1, <1>5, <2>2, <2>3, BecomeKeeps
<1> QED
  BY <1>2, <1>3, <1>4, <1>5 DEF Cascade

(* The front of the slot taken out, and its callback called.                 *)
LEMMA FireFacts ==
  ASSUME SInv, Fire, NEW n, n = Head(wheel[Top.place])
  PROVE  /\ SInv' /\ n \in DOMAIN node /\ Top.place \in Slots /\ Contains(wheel[Top.place], n)
         /\ stack' # <<>> /\ Top'.at = "callback" /\ Top'.place = Top.place
         /\ Top'.node = n /\ Top'.count = node[n].count
         /\ \A s \in Slots : \A m : Contains(wheel'[s], m) <=> Contains(wheel[s], m) /\ m # n
<1>1. /\ stack # <<>> /\ Top.at = "drain" /\ wheel[Top.place] # <<>>
      /\ UNCHANGED <<up, cur_time, next_time, node, free_list, strayed>>
  BY DEF Fire, At
<1>2. PICK p \in Slots : p = Top.place
  BY <1>1, TopFacts DEF SInv, FrameOK
<1>3. n \in DOMAIN node /\ Contains(wheel[p], n)
  <2>1. wheel[p] \in Seq(DOMAIN node) /\ IsInjective(wheel[p])
    BY DEF SInv, TypeOK
  <2> QED
    BY <2>1, <1>1, <1>2, TailFacts
<1>4. node[n] \in TimerNode /\ n \in Nat
  BY <1>3 DEF SInv, TypeOK
<1>5. PICK c \in Nat : c = node[n].count
  BY <1>4, BoundsAssumption DEF TimerNode
<1>6. PICK f \in Operation : f = Frame("callback", p, n, c)
  BY <1>4, Frames
<1>7. f.at = "callback" /\ f.place = p /\ f.node = n /\ f.count = c
  BY <1>6 DEF Frame
<1>8. Become(f)
  BY <1>2, <1>5, <1>6 DEF Fire
<1>9. FrameOK(f)' /\ DOMAIN node' = DOMAIN node
  BY <1>1, <1>3, <1>7 DEF FrameOK
<1>10. /\ FramesOK' /\ Len(stack') = Len(stack) /\ stack' # <<>> /\ Top' = f
       /\ \A m : Calling(m) => Calling(m)'
       /\ Calling(n)'
  BY <1>1, <1>7, <1>8, <1>9, BecomeFacts DEF SInv
<1>11. PICK w : w = wheel' /\ w = Erase(wheel, n)
  BY DEF Fire
<1>12. /\ w \in [Slots -> Seq(DOMAIN node)] /\ \A s \in Slots : IsInjective(w[s])
       /\ \A s \in Slots : \A m : Contains(w[s], m) <=> Contains(wheel[s], m) /\ m # n
  BY <1>11, EraseFacts DEF SInv
<1>13. TypeOK'
  BY <1>1, <1>11, <1>12 DEF SInv, TypeOK
<1>14. LinksOK'
  <2>1. node[n].is_using /\ ~ Contains(free_list, n)
    BY <1>3 DEF SInv, LinksOK
  <2> QED
    BY <2>1, <1>1, <1>3, <1>10, <1>11, <1>12, <1>13, LinksMoved
<1>15. CountsOK'
  BY <1>1, <1>5, <1>7, <1>10 DEF SInv, CountsOK
<1> QED
  BY <1>2, <1>3, <1>5, <1>7, <1>10, <1>11, <1>12, <1>13, <1>14, <1>15 DEF SInv

(* The slot found empty. *)
LEMMA DrainDoneFacts ==
  ASSUME SInv, DrainDone
  PROVE  SInv' /\ stack' # <<>> /\ Top'.at = "tick"
<1>1. PICK f \in Operation : f = Frame("tick", 0, 0, 0)
  BY Frames
<1>2. f.at = "tick" /\ FrameOK(f)
  BY <1>1 DEF Frame, FrameOK
<1>3. /\ stack # <<>> /\ Top.at = "drain" /\ Become(f)
      /\ UNCHANGED <<up, cur_time, next_time, node, free_list, wheel, strayed>>
  BY <1>1 DEF DrainDone, At
<1> QED
  BY <1>2, <1>3, BecomeKeeps

(* The callback is back: the frame goes on draining its slot.                *)
LEMMA ReturnsToDrain ==
  ASSUME SInv, CallbackReturns, DOMAIN node' = DOMAIN node
  PROVE  /\ FramesOK' /\ CountsOK' /\ stack' # <<>> /\ stack # <<>>
         /\ Top'.at = "drain" /\ Top'.place = Top.place /\ Top.place \in Slots
         /\ Top.node \in DOMAIN node
         /\ \A m : m # Top.node => (Calling(m) => Calling(m)')
         /\ UNCHANGED <<up, cur_time, next_time, strayed>>
<1>1. stack # <<>> /\ Top.at = "callback" /\ UNCHANGED <<up, cur_time, next_time, strayed>>
  BY DEF CallbackReturns, At
<1>2. PICK p \in Slots : p = Top.place
  BY <1>1, TopFacts DEF SInv, FrameOK
<1>3. Top.node \in DOMAIN node
  BY <1>1, TopFacts DEF SInv, FrameOK
<1>4. PICK f \in Operation : f = Frame("drain", p, 0, 0)
  BY Frames
<1>5. f.at = "drain" /\ f.place = p
  BY <1>4 DEF Frame
<1>6. Become(f) /\ FrameOK(f)'
  BY <1>2, <1>4, <1>5 DEF CallbackReturns, FrameOK
<1>7. FramesOK' /\ CountsOK' /\ stack' # <<>> /\ Top' = f
  BY <1>1, <1>5, <1>6, GoesOn
<1>8. \A m : m # Top.node => (Calling(m) => Calling(m)')
  BY <1>1, <1>6, BecomeFacts DEF SInv
<1> QED
  BY <1>1, <1>2, <1>3, <1>5, <1>7, <1>8

(* A periodic timer re-armed. *)
LEMMA RearmFacts ==
  ASSUME SInv, CallbackReturns, NEW n, n = Top.node, node[n].is_using, node[n].interval > 0
  PROVE  /\ SInv' /\ n \in DOMAIN node /\ DOMAIN node' = DOMAIN node
         /\ cur_time + node[n].interval \in Int
         /\ InsertedAt(wheel', n, Place(cur_time + node[n].interval), DOMAIN node)
         /\ \A m \in DOMAIN node : m # n => node'[m] = node[m]
         /\ node'[n].is_using /\ node'[n].count = node[n].count
         /\ node'[n].interval = node[n].interval
         /\ node'[n].expire_time = cur_time + node[n].interval
         /\ node[n].count = Top.count => node'[n].due = cur_time + node[n].interval
<1>1. stack # <<>> /\ Top.at = "callback" /\ n \in DOMAIN node
  <2>1. stack # <<>> /\ Top.at = "callback"
    BY DEF CallbackReturns, At
  <2> QED
    BY <2>1, TopFacts DEF SInv, FrameOK
<1>2. node \in Seq(TimerNode) /\ node[n] \in TimerNode /\ cur_time \in Nat
  BY <1>1 DEF SInv, TypeOK
<1>3. PICK e \in Int : e = cur_time + node[n].interval
  <2>1. node[n].interval \in Nat
    BY <1>2 DEF TimerNode
  <2> QED
    BY <2>1, <1>2
<1>4. PICK due \in Int : due = (IF node[n].count = Top.count THEN e ELSE node[n].due)
  BY <1>2, <1>3 DEF TimerNode
<1>5. /\ node' = [node EXCEPT ![n].expire_time = e, ![n].due = due]
      /\ wheel' = InsertTimerNodeToWheel(wheel, n, e)
      /\ free_list' = free_list
  <2>1. ~ (node[n].interval = 0)
    BY <1>2 DEF TimerNode
  <2> QED
    BY <2>1, <1>3, <1>4 DEF CallbackReturns
<1>6. PICK r : r = [node[n] EXCEPT !.expire_time = e, !.due = due]
  OBVIOUS
<1>7. /\ r \in TimerNode /\ r.is_using /\ r.count = node[n].count /\ r.expire_time = e
      /\ r.interval = node[n].interval /\ r.due = due
  BY <1>2, <1>6 DEF TimerNode
<1>8. /\ node' \in Seq(TimerNode) /\ DOMAIN node' = DOMAIN node /\ node'[n] = r
      /\ \A m \in DOMAIN node : m # n => node'[m] = node[m]
  <2>1. node' = [node EXCEPT ![n] = r]
    BY <1>1, <1>2, <1>5, <1>6
  <2> QED
    BY <2>1, <1>1, <1>2, <1>7
<1>9. InsertedAt(wheel', n, Place(e), DOMAIN node)
  BY <1>1, <1>5, InsertFacts DEF SInv
<1>10. /\ FramesOK' /\ CountsOK' /\ UNCHANGED <<up, cur_time, next_time, strayed>>
       /\ \A m : m # n => (Calling(m) => Calling(m)')
  BY <1>8, ReturnsToDrain
<1>11. TypeOK'
  BY <1>5, <1>8, <1>9, <1>10 DEF SInv, TypeOK, InsertedAt
<1>12. LinksOK'
  <2>1. ~ Contains(free_list, n)
    BY <1>1 DEF SInv, LinksOK
  <2>2. \E t \in Slots : Contains(wheel'[t], n)
    BY <1>9 DEF InsertedAt
  <2>3. /\ \A s \in Slots : \A m \in DOMAIN node : m # n =>
             (Contains(wheel'[s], m) <=> Contains(wheel[s], m))
        /\ \A s, t \in Slots : Contains(wheel'[s], n) /\ Contains(wheel'[t], n) => s = t
    BY <1>9 DEF InsertedAt
  <2>4. n \in DOMAIN node' /\ DOMAIN node' = DOMAIN node \cup {n} /\ node'[n].is_using
        /\ ~ Contains(free_list', n)
    BY <2>1, <1>1, <1>5, <1>7, <1>8
  <2>5. \A m \in DOMAIN node : m # n =>
           /\ node'[m].is_using = node[m].is_using
           /\ Contains(free_list', m) <=> Contains(free_list, m)
           /\ Calling(m) => Calling(m)'
    BY <1>5, <1>8, <1>10
  <2> QED
    BY <2>2, <2>3, <2>4, <2>5, <1>11, LinksMoved
<1> QED
  BY <1>1, <1>3, <1>4, <1>7, <1>8, <1>9, <1>10, <1>11, <1>12 DEF SInv

(* The callback is back. *)
LEMMA CallbackReturnsKeeps ==
  ASSUME SInv, CallbackReturns
  PROVE  SInv'
<1>1. PICK n : n = Top.node
  OBVIOUS
<1>2. stack # <<>> /\ n \in DOMAIN node
  <2>1. stack # <<>> /\ Top.at = "callback"
    BY DEF CallbackReturns, At
  <2> QED
    BY <2>1, <1>1, TopFacts DEF SInv, FrameOK
<1>3. CASE ~node[n].is_using /\ UNCHANGED <<node, free_list, wheel>>
  <2>1. /\ FramesOK' /\ CountsOK' /\ UNCHANGED <<up, cur_time, next_time, strayed>>
        /\ \A m : m # n => (Calling(m) => Calling(m)')
    BY <1>1, <1>3, ReturnsToDrain
  <2>2. TypeOK'
    BY <1>3, <2>1 DEF SInv, TypeOK
  <2>3. \A s \in Slots : ~ Contains(wheel[s], n)
    BY <1>2, <1>3 DEF SInv, LinksOK
  <2>4. LinksOK'
    BY <1>2, <1>3, <2>1, <2>2, <2>3, LinksMoved DEF SInv, LinksOK
  <2> QED
    BY <2>1, <2>2, <2>4 DEF SInv
<1>4. CASE node[n].is_using /\ node[n].interval > 0
  BY <1>1, <1>4, RearmFacts
<1>5. CASE node[n].is_using /\ MoveTimerNodeToFreeList(n)
  <2>1. DOMAIN node' = DOMAIN node
    BY <1>2, <1>5, FreeFacts
  <2>2. /\ FramesOK' /\ CountsOK' /\ UNCHANGED <<up, cur_time, next_time, strayed>>
        /\ \A m : m # n => (Calling(m) => Calling(m)')
    BY <1>1, <2>1, ReturnsToDrain
  <2>3. TypeOK' /\ LinksOK'
    BY <1>2, <1>5, <2>2, FreeKeeps
  <2> QED
    BY <2>2, <2>3 DEF SInv
<1> QED
  BY <1>1, <1>3, <1>4, <1>5 DEF CallbackReturns
-----------------------------------------------------------------------------
(* What holds whatever the delays. *)

(* A new manager has nothing linked and no Update running. *)
LEMMA InitSInv == Init => SInv
<1> SUFFICES ASSUME Init PROVE SInv
  OBVIOUS
<1>1. /\ up = TRUE /\ strayed = FALSE /\ cur_time \in Nat /\ next_time = cur_time
      /\ node = <<>> /\ free_list = <<>> /\ stack = <<>>
      /\ wheel = [s \in Slots |-> <<>>]
  BY BoundsAssumption DEF Init
<1>2. DOMAIN node = {} /\ IsInjective(<<>>) /\ <<>> \in Seq({})
  BY <1>1 DEF IsInjective
<1>3. TypeOK
  <2>1. wheel \in [Slots -> Seq(DOMAIN node)] /\ \A s \in Slots : IsInjective(wheel[s])
    BY <1>1, <1>2
  <2>2. node \in Seq(TimerNode) /\ free_list \in Seq(DOMAIN node) /\ IsInjective(free_list)
    BY <1>1, <1>2
  <2> QED
    BY <2>1, <2>2, <1>1 DEF TypeOK
<1>4. FramesOK /\ CountsOK
  BY <1>1 DEF FramesOK, CountsOK, At
<1>5. LinksOK
  BY <1>2 DEF LinksOK
<1> QED
  BY <1>3, <1>4, <1>5 DEF SInv

(* The steps of the client, by name. *)
LEMMA ClientSteps ==
  ASSUME Client, cur_time \in Nat
  PROVE  \/ \E d \in Delays, i \in Intervals :
              d \in Nat /\ i \in Nat /\ stack = <<>> /\ SetTimer(d, i)
         \/ \E d \in CallbackDelays, i \in CallbackIntervals :
              d \in Nat /\ i \in Nat /\ stack # <<>> /\ SetTimer(d, i)
         \/ \E n, c : DelTimer(n, c)
         \/ \E t \in Nat : Update(t)
         \/ Uninit
         \/ \E t \in StartTimes : InitAgain(t)
<1>1. /\ Delays \subseteq Nat /\ Intervals \subseteq Nat /\ Jumps \subseteq Nat
      /\ CallbackDelays \subseteq Nat /\ CallbackIntervals \subseteq Nat
  BY BoundsAssumption
<1>2. CASE \E d \in Delays, i \in Intervals : ~InCallback /\ SetTimer(d, i)
  BY <1>1, <1>2 DEF InCallback
<1>3. CASE \E d \in CallbackDelays, i \in CallbackIntervals : InCallback /\ SetTimer(d, i)
  BY <1>1, <1>3 DEF InCallback
<1>4. CASE \E j \in Jumps : Update(cur_time + j)
  <2>1. PICK j \in Jumps : Update(cur_time + j)
    BY <1>4
  <2>2. cur_time + j \in Nat
    BY <1>1
  <2> QED
    BY <2>1, <2>2
<1> QED
  BY <1>2, <1>3, <1>4 DEF Client

(* Every step keeps SInv. *)
LEMMA NextSInv == SInv /\ [Next]_vars => SInv'
<1> SUFFICES ASSUME SInv, [Next]_vars PROVE SInv'
  OBVIOUS
<1>1. CASE Client
  <2>1. cur_time \in Nat
    BY DEF SInv, TypeOK
  <2> QED
    BY <2>1, <1>1, ClientSteps, SetTimerKeeps, DelTimerKeeps, UpdateKeeps, UninitKeeps,
       InitAgainKeeps
<1>2. CASE Tick
  BY <1>2, TickKeeps
<1>3. CASE Cascade
  BY <1>3, CascadeKeeps
<1>4. CASE Fire
  BY <1>4, FireFacts
<1>5. CASE DrainDone
  BY <1>5, DrainDoneFacts
<1>6. CASE CallbackReturns
  BY <1>6, CallbackReturnsKeeps
<1>7. CASE UNCHANGED vars
  BY <1>7 DEF vars, SInv, TypeOK, FramesOK, FrameOK, LinksOK, Linked, Calling, CountsOK, At, Top
<1> QED
  BY <1>1, <1>2, <1>3, <1>4, <1>5, <1>6, <1>7 DEF Next, RunUpdate

(* SInv holds in every state.                                                *)
THEOREM SInvariance == Spec => []SInv
<1>1. Init => SInv
  BY InitSInv
<1>2. SInv /\ [Next]_vars => SInv'
  BY NextSInv
<1> QED
  BY <1>1, <1>2, PTL DEF Spec

(* The intrusive lists stay consistent: a node is linked at most once, the   *)
(* free list holds the nodes not in use, and a node in use is in a wheel or  *)
(* its callback runs (MoveTimerNodeToFreeList, InsertTimerNodeToWheel and    *)
(* the pops of Update and TimerWheelCascade).                                *)
THEOREM NodesStayLinked == Spec => []EachNodeOnce
<1>1. SInv => EachNodeOnce
  <2> SUFFICES ASSUME SInv PROVE EachNodeOnce
    OBVIOUS
  <2>1. \A l \in Lists : IsInjective(l)
    BY DEF SInv, TypeOK, Lists
  <2>2. ASSUME NEW n \in DOMAIN node
        PROVE  Cardinality({s \in Slots : Contains(wheel[s], n)}) <= 1
    <3>1. PICK S : S = {s \in Slots : Contains(wheel[s], n)}
      OBVIOUS
    <3>2. \A s, t \in S : s = t
      BY <3>1 DEF SInv, LinksOK
    <3>3. Cardinality(S) <= 1
      BY <3>2, CountAtMostOne
    <3> QED
      BY <3>1, <3>3
  <2>3. \A n \in DOMAIN node :
           /\ Contains(free_list, n) <=> ~node[n].is_using
           /\ Contains(free_list, n) => \A s \in Slots : ~Contains(wheel[s], n)
    BY DEF SInv, LinksOK
  <2>4. ASSUME NEW n \in DOMAIN node
        PROVE  \/ \E l \in Lists : Contains(l, n)
               \/ \E k \in DOMAIN stack : stack[k].at = "callback" /\ stack[k].node = n
    BY DEF SInv, LinksOK, Linked, Calling, Lists
  <2> QED
    BY <2>1, <2>2, <2>3, <2>4 DEF EachNodeOnce
<1> QED
  BY <1>1, SInvariance, PTL
(* A timer stays armed, under its id, until it is deleted by that id or its  *)
(* callback has run (DelTimer, lines 250-260 of Update and the reuse of      *)
(* nodes by GetTimerNode).                                                   *)
THEOREM ArmedStaysArmed == Spec => ArmedUntilDone
<1>1. SInv /\ [Next]_vars => [~strayed => DisarmsOnlyItsOwn]_vars
  <2> SUFFICES ASSUME SInv, Next, ~strayed, NEW n \in DOMAIN node, node[n].is_using
               PROVE  \/ /\ n \in DOMAIN node' /\ node'[n].is_using
                         /\ node'[n].count = node[n].count
                      \/ DelTimer(n, node[n].count)
                      \/ CallbackReturns /\ Top.node = n /\ Top.count = node[n].count
                      \/ Uninit
    BY DEF DisarmsOnlyItsOwn
  <2>1. CASE UNCHANGED node
    BY <2>1
  <2>2. ASSUME NEW d \in Nat, NEW i \in Nat, SetTimer(d, i)
        PROVE  n \in DOMAIN node' /\ node'[n] = node[n]
    <3>1. PICK m : m = TakenNode
      OBVIOUS
    <3> QED
      BY <2>2, <3>1, SetTimerFacts DEF NodeArmed
  <2>3. ASSUME NEW m, NEW c, DelTimer(m, c)
        PROVE  \/ n \in DOMAIN node' /\ node'[n] = node[n]
               \/ DelTimer(n, node[n].count)
    <3>1. m \in DOMAIN node /\ node[m].is_using /\ node[m].count = c
          /\ MoveTimerNodeToFreeList(m)
      BY <2>3 DEF DelTimer, Found
    <3>2. DOMAIN node' = DOMAIN node /\ (m # n => node'[n] = node[n])
      BY <3>1, FreeFacts
    <3> QED
      BY <2>3, <3>1, <3>2
  <2>4. ASSUME CallbackReturns
        PROVE  \/ n \in DOMAIN node' /\ node'[n] = node[n]
               \/ Top.node = n /\ Top.count = node[n].count
    <3>1. PICK m : m = Top.node
      OBVIOUS
    <3>2. m \in DOMAIN node /\ (node[m].is_using => node[m].count = Top.count)
      <4>1. stack # <<>> /\ Top.at = "callback" /\ At("callback")
        BY <2>4 DEF CallbackReturns, At
      <4> QED
        BY <4>1, <3>1, TopFacts DEF SInv, FrameOK, CountsOK
    <3>3. CASE m = n
      BY <3>1, <3>2, <3>3
    <3>4. CASE m # n /\ node[m].is_using /\ node[m].interval > 0
      BY <2>4, <3>1, <3>4, RearmFacts
    <3>5. CASE m # n /\ node[m].is_using /\ MoveTimerNodeToFreeList(m)
      BY <3>2, <3>5, FreeFacts
    <3>6. CASE UNCHANGED node
      BY <3>6
    <3> QED
      BY <2>4, <3>1, <3>3, <3>4, <3>5, <3>6 DEF CallbackReturns
  <2>5. CASE Client
    <3>1. cur_time \in Nat
      BY DEF SInv, TypeOK
    <3>2. \A t : Update(t) => UNCHANGED node
      BY DEF Update
    <3>3. \A t : InitAgain(t) => UNCHANGED node
      BY DEF InitAgain
    <3> QED
      BY <2>1, <2>2, <2>3, <2>5, <3>1, <3>2, <3>3, ClientSteps
  <2>6. CASE Tick \/ Cascade \/ Fire \/ DrainDone
    BY <2>1, <2>6 DEF Tick, Cascade, Fire, DrainDone
  <2> QED
    BY <2>4, <2>5, <2>6 DEF Next, RunUpdate
<1> QED
  BY <1>1, SInvariance, PTL DEF ArmedUntilDone, Spec
-----------------------------------------------------------------------------
(* Timing, when no timer is set a full turn ahead in a callback. *)

(* Between Uninit and Init nothing can be called but Init. *)
LEMMA DownKeeps ==
  ASSUME SInv, DownOK, Next
  PROVE  DownOK'
<1>1. CASE Uninit
  BY <1>1 DEF Uninit, DownOK
<1>2. CASE \E t \in StartTimes : InitAgain(t)
  BY <1>2 DEF InitAgain, DownOK
<1>3. CASE up /\ up' = up
  BY <1>3 DEF DownOK
<1>4. \A d, i : SetTimer(d, i) => up /\ up' = up
  BY DEF SetTimer, ClientRuns
<1>5. \A n, c : DelTimer(n, c) => up /\ up' = up
  BY DEF DelTimer, ClientRuns
<1>6. \A t : Update(t) => up /\ up' = up
  BY DEF Update, ClientRuns
<1>7. RunUpdate => stack # <<>> /\ up' = up
  BY DEF RunUpdate, Tick, Cascade, Fire, DrainDone, CallbackReturns, At
<1>8. CASE RunUpdate
  BY <1>7, <1>8 DEF DownOK
<1> QED
  BY <1>1, <1>2, <1>3, <1>4, <1>5, <1>6, <1>8 DEF Next, Client

(* A slot of a wheel, as the time a slot of it begins. *)
LEMMA SlotOfMultiple ==
  ASSUME NEW i \in Levels, NEW q \in Nat, NEW t \in Nat, t = q * Span[i]
  PROVE  SlotAt(i, t)[2] = q % Size[i]
<1>1. PICK span \in Nat \ {0} : span = Span[i]
  BY Wheels
<1>2. t \div span = q
  BY <1>1, Multiples
<1> QED
  BY <1>1, <1>2, SlotAtFacts

(* The clock, as TimelyAt reads it, stands. *)
ClockStands ==
  /\ cur_time' = cur_time /\ TickAtHand' = TickAtHand
  /\ \A i \in Levels : i # 1 => (Cascaded(i)' <=> Cascaded(i))

(* A timer that is in time stays so while the clock stands. *)
LEMMA TimelyStays ==
  ASSUME ClockStands, NEW s \in Slots, NEW e, NEW d
  PROVE  TimelyAt(s, e, d)' <=> TimelyAt(s, e, d)
BY SlotFacts DEF ClockStands, TimelyAt, DrainedWhenDue, CascadedBefore

(* The client's steps do not move the clock. *)
LEMMA SameStackStands ==
  ASSUME UNCHANGED <<cur_time, stack>>
  PROVE  ClockStands /\ (DrainsNow => DrainsNow')
BY DEF ClockStands, TickAtHand, Cascaded, At, Top, DrainsNow

(* A timer that expires at e is put where it is drained in time, unless that *)
(* is the slot being drained.                                                *)
LEMMA PlacedInTime ==
  ASSUME cur_time \in Nat, NEW e \in Int, NEW p, p = Place(e), NEW d, d = Later(e, cur_time),
         At("drain") \/ At("callback") => e # cur_time + Size[1] - 1
  PROVE  p \in Slots /\ TimelyAt(p, e, d)
<1>1. PICK z \in Nat \ {0, 1} : z = Size[1]
  BY Wheels
<1>2. PICK now \in Int : now = TickAtHand /\ now <= cur_time /\ cur_time - 1 <= now
                         /\ cur_time < now + z /\ (e = cur_time + z - 1 => now = cur_time)
  <2>1. TickAtHand \in Int /\ TickAtHand <= cur_time /\ cur_time - 1 <= TickAtHand
        /\ (e = cur_time + z - 1 => TickAtHand = cur_time)
    BY <1>1 DEF TickAtHand
  <2>2. cur_time < TickAtHand + z
    <3>1. PICK t \in Int : t = TickAtHand /\ cur_time - 1 <= t
      BY <2>1
    <3>2. z >= 2
      BY <1>1
    <3> QED
      BY <3>1, <3>2
  <2> QED
    BY <2>1, <2>2
<1>3. /\ p \in Slots
      /\ e <= cur_time => p[1] = 1 /\ p[2] = cur_time % Size[1]
      /\ e > cur_time =>
           \/ p[1] = 1 /\ p[2] = e % Size[1] /\ e < cur_time + Size[1]
           \/ p[1] # 1 /\ CascadedBetween(p[1], p[2], e)
  BY PlaceFacts
<1>4. CASE e <= cur_time
  <2>1. d = cur_time
    BY <1>4 DEF Later
  <2>2. now <= d /\ d < now + z
    BY <1>2, <2>1
  <2>3. p[1] = 1 /\ p[2] = d % z
    BY <1>1, <1>3, <1>4, <2>1
  <2>4. DrainedWhenDue(p, d)
    BY <1>1, <1>2, <2>2, <2>3 DEF DrainedWhenDue
  <2> QED
    BY <1>3, <2>3, <2>4 DEF TimelyAt
<1>5. CASE e > cur_time /\ p[1] = 1
  <2>1. d = e /\ e < cur_time + z /\ p[2] = e % z
    BY <1>1, <1>3, <1>5 DEF Later
  <2>2. now <= d /\ d < now + z
    BY <1>1, <1>2, <1>5, <2>1
  <2> QED
    BY <1>1, <1>2, <1>3, <1>5, <2>1, <2>2 DEF TimelyAt, DrainedWhenDue
<1>6. CASE e > cur_time /\ p[1] # 1
  <2>1. d = e /\ CascadedBetween(p[1], p[2], e)
    BY <1>3, <1>6 DEF Later
  <2>2. CascadedBefore(p, d)
    BY <2>1 DEF CascadedBetween, CascadedBefore
  <2> QED
    BY <1>3, <1>6, <2>1, <2>2 DEF TimelyAt
<1> QED
  BY <1>4, <1>5, <1>6
(* Every timer linked was linked where it is already, or is put there in time. *)
LinkedInTime ==
  \A s \in Slots : \A m \in DOMAIN node' :
    Contains(wheel'[s], m) =>
      \/ /\ m \in DOMAIN node /\ Contains(wheel[s], m)
         /\ node'[m].expire_time = node[m].expire_time
         /\ node'[m].due = node[m].due
      \/ strayed'
      \/ TimelyAt(s, node'[m].expire_time, node'[m].due)

(* A step at which the clock stands. *)
LEMMA TimingKept ==
  ASSUME SInv, Timing, ~strayed' => ~strayed /\ ClockStands /\ DrainsNow', LinkedInTime
  PROVE  Timing'
<1> SUFFICES ASSUME ~strayed' PROVE DrainsNow' /\ \A s \in Slots : \A m \in DOMAIN node' :
                                       Contains(wheel'[s], m) => Timely(s, m)'
  BY DEF Timing
<1>1. ~strayed /\ DrainsNow' /\ ClockStands
  OBVIOUS
<1>2. ASSUME NEW s \in Slots, NEW m \in DOMAIN node', Contains(wheel'[s], m)
      PROVE  Timely(s, m)'
  <2>1. PICK f, g : f = node'[m].expire_time /\ g = node'[m].due
    OBVIOUS
  <2>2. TimelyAt(s, f, g)
    <3>1. CASE /\ m \in DOMAIN node /\ Contains(wheel[s], m)
               /\ f = node[m].expire_time /\ g = node[m].due
      BY <1>1, <3>1 DEF Timing, Timely
    <3> QED
      BY <1>2, <2>1, <3>1 DEF LinkedInTime
  <2>3. TimelyAt(s, f, g)'
    BY <1>1, <2>2, TimelyStays
  <2> QED
    BY <2>1, <2>3 DEF Timely
<1> QED
  BY <1>1, <1>2

(* A step that touches no node puts none out of time. *)
LEMMA SameNodesInTime ==
  ASSUME SInv, UNCHANGED <<node, wheel>>
  PROVE  LinkedInTime /\ (IntervalsOK => IntervalsOK')
BY DEF LinkedInTime, IntervalsOK

(* SetTimer: at top level any delay will do, in a callback any but a turn.   *)
LEMMA SetTimerInTime ==
  ASSUME SInv, IntervalsOK, Timing, NEW delay \in Nat, NEW interval \in Nat,
         SetTimer(delay, interval), interval # Size[1] - 1,
         stack # <<>> => delay # Size[1]
  PROVE  IntervalsOK' /\ Timing'
<1>1. PICK n : n = TakenNode
  OBVIOUS
<1>2. PICK e \in Int : e = cur_time + delay - 1
  BY DEF SInv, TypeOK
<1>3. PICK d : d = Later(e, cur_time)
  OBVIOUS
<1>4. /\ DOMAIN node' = DOMAIN node \cup {n}
      /\ node'[n].expire_time = e /\ node'[n].due = d /\ node'[n].interval = interval
      /\ \A m \in DOMAIN node : m # n => node'[m] = node[m]
  <2>1. NodeArmed(n, delay, interval)
    BY <1>1, SetTimerFacts
  <2> QED
    BY <1>2, <1>3, <2>1 DEF NodeArmed
<1>5. PICK w : w = wheel' /\ w = InsertTimerNodeToWheel(wheel, n, e)
  BY <1>1, <1>2 DEF SetTimer
<1>6. PICK p : p = Place(e)
  OBVIOUS
<1>7. InsertedAt(w, n, p, DOMAIN node')
  <2>1. PICK S : S = DOMAIN node' /\ DOMAIN node \subseteq S /\ n \in S
    BY <1>4
  <2>2. InsertedAt(w, n, p, S)
    BY <2>1, <1>2, <1>5, <1>6, InsertFacts DEF SInv
  <2> QED
    BY <2>1, <2>2
<1>8. /\ UNCHANGED <<cur_time, stack>> /\ strayed' = (strayed \/ DeletedItself)
  BY DEF SetTimer
<1>9. At("drain") \/ At("callback") => e # cur_time + Size[1] - 1
  <2>1. PICK z \in Nat : z = Size[1]
    BY Wheels
  <2>2. cur_time \in Nat /\ (At("drain") \/ At("callback") => delay # z)
    BY <2>1 DEF SInv, TypeOK, At
  <2> QED
    BY <2>1, <2>2, <1>2
<1>10. TimelyAt(p, e, d)
  BY <1>2, <1>3, <1>6, <1>9, PlacedInTime DEF SInv, TypeOK
<1>11. LinkedInTime
  BY <1>4, <1>5, <1>7, <1>10 DEF InsertedAt, LinkedInTime
<1>12. Timing'
  <2>1. ~strayed' => ~strayed /\ ClockStands /\ DrainsNow'
    BY <1>8, SameStackStands DEF Timing
  <2> QED
    BY <2>1, <1>11, TimingKept
<1>13. IntervalsOK'
  BY <1>4 DEF IntervalsOK
<1> QED
  BY <1>12, <1>13

(* DelTimer takes a timer away and moves no other. *)
LEMMA DelTimerInTime ==
  ASSUME SInv, IntervalsOK, Timing, NEW n, NEW c, DelTimer(n, c)
  PROVE  IntervalsOK' /\ Timing'
<1>1. n \in DOMAIN node /\ node[n].is_using /\ MoveTimerNodeToFreeList(n)
      /\ UNCHANGED <<up, cur_time, next_time, stack, strayed>>
  BY DEF DelTimer, Found
<1>2. /\ DOMAIN node' = DOMAIN node /\ node'[n].interval = 0
      /\ \A m \in DOMAIN node : m # n => node'[m] = node[m]
      /\ \A s \in Slots : \A m : Contains(wheel'[s], m) <=> Contains(wheel[s], m) /\ m # n
  BY <1>1, FreeFacts
<1>3. LinkedInTime
  BY <1>2 DEF LinkedInTime
<1>4. Timing'
  <2>1. ~strayed' => ~strayed /\ ClockStands /\ DrainsNow'
    BY <1>1, SameStackStands DEF Timing
  <2> QED
    BY <2>1, <1>3, TimingKept
<1>5. IntervalsOK'
  BY <1>2, Wheels DEF IntervalsOK
<1> QED
  BY <1>4, <1>5

(* After Uninit there is no timer to be late. *)
LEMMA UninitInTime ==
  ASSUME SInv, Uninit
  PROVE  IntervalsOK' /\ Timing'
<1>1. node' = <<>> /\ stack' = <<>>
  BY DEF Uninit
<1>2. DOMAIN node' = {}
  BY <1>1
<1> QED
  BY <1>1, <1>2 DEF IntervalsOK, Timing, DrainsNow, At

(* Init moves the clock when there is no timer. *)
LEMMA InitAgainInTime ==
  ASSUME SInv, DownOK, IntervalsOK, NEW t, InitAgain(t)
  PROVE  IntervalsOK' /\ Timing'
<1>1. node' = <<>> /\ stack' = <<>>
  BY DEF InitAgain, DownOK
<1>2. DOMAIN node' = {}
  BY <1>1
<1> QED
  BY <1>1, <1>2 DEF IntervalsOK, Timing, DrainsNow, At

(* A call of Update from the top level. *)
LEMMA UpdateInTime ==
  ASSUME SInv, IntervalsOK, Timing, NEW t, Update(t)
  PROVE  IntervalsOK' /\ Timing'
<1>1. /\ strayed' = (strayed \/ InCallback) /\ UNCHANGED <<cur_time, node, wheel>>
      /\ stack' = Append(stack, Frame("tick", 0, 0, 0))
  BY DEF Update
<1>2. ASSUME ~strayed' PROVE ~strayed /\ ClockStands /\ DrainsNow'
  <2>1. ~strayed /\ stack = <<>>
    BY <1>1, <1>2 DEF InCallback
  <2>2. PICK f : f = Frame("tick", 0, 0, 0)
    OBVIOUS
  <2>3. f.at = "tick" /\ stack' = <<f>>
    BY <1>1, <2>1, <2>2 DEF Frame
  <2>4. stack' # <<>> /\ Top' = f
    BY <2>3 DEF Top, Last
  <2> QED
    BY <1>1, <2>1, <2>3, <2>4 DEF ClockStands, TickAtHand, Cascaded, At, DrainsNow
<1> QED
  BY <1>1, <1>2, SameNodesInTime, TimingKept

(* The slot of the tick begins to be drained: in every coarser wheel the     *)
(* slot that comes up now is empty or has been cascaded.                     *)
LEMMA StartDrainInTime ==
  ASSUME SInv, IntervalsOK, Timing, stack # <<>>, Top.at \in {"tick", "cascade"}, StartDrain,
         UNCHANGED <<up, next_time, node, free_list, wheel, strayed>>,
         \A s \in Slots : \A m \in DOMAIN node : \A q \in Nat :
           Contains(wheel[s], m) /\ s[1] # 1 /\ s = SlotAt(s[1], cur_time)
             /\ cur_time = q * Span[s[1]] => Cascaded(s[1])
  PROVE  IntervalsOK' /\ Timing'
<1> SUFFICES ASSUME ~strayed
             PROVE  DrainsNow' /\ \A s \in Slots : \A m \in DOMAIN node :
                      Contains(wheel[s], m) => Timely(s, m)'
  BY DEF Timing, IntervalsOK
<1>1. /\ cur_time' = cur_time + 1 /\ stack' # <<>> /\ Top'.at = "drain"
      /\ Top'.place = SlotAt(1, cur_time)
  BY StartDrainFacts
<1>2. cur_time \in Nat /\ cur_time' - 1 = cur_time /\ cur_time' > 0
  BY <1>1 DEF SInv, TypeOK
<1>3. DrainsNow'
  BY <1>1, <1>2 DEF DrainsNow
<1>4. TickAtHand = cur_time /\ TickAtHand' = cur_time
  BY <1>1, <1>2 DEF TickAtHand, At
<1>5. ASSUME NEW s \in Slots, NEW m \in DOMAIN node, Contains(wheel[s], m)
      PROVE  Timely(s, m)'
  <2>1. PICK e, d : e = node[m].expire_time /\ d = node[m].due
    OBVIOUS
  <2>2. TimelyAt(s, e, d)
    BY <1>5, <2>1 DEF Timing, Timely
  <2>3. CASE s[1] = 1
    BY <1>4, <2>1, <2>2, <2>3 DEF Timely, TimelyAt, DrainedWhenDue
  <2>4. CASE s[1] # 1
    <3>1. PICK i \in Levels, span \in Nat \ {0} : i = s[1] /\ span = Span[i]
      BY SlotFacts, Wheels
    <3>2. d \in Int
      <4>1. node[m] \in TimerNode
        BY DEF SInv, TypeOK
      <4> QED
        BY <2>1, <4>1 DEF TimerNode
    <3>3. PICK q \in 0 .. d :
            /\ e = d /\ s[2] = q % Size[i] /\ q * span <= d
            /\ cur_time < q * span \/ (cur_time = q * span /\ ~Cascaded(i))
      BY <2>2, <2>4, <3>1 DEF TimelyAt, CascadedBefore
    <3>4. q \in Nat /\ q * span \in Int
      BY <3>2
    <3>5. cur_time # q * span
      <4> SUFFICES ASSUME cur_time = q * span PROVE FALSE
        OBVIOUS
      <4>1. ~ Cascaded(i)
        BY <3>3
      <4>2. SlotAt(i, cur_time)[1] = i /\ SlotAt(i, cur_time)[2] = q % Size[i]
            /\ SlotAt(i, cur_time) \in Slots
        <5>1. SlotAt(i, cur_time)[2] = q % Size[i]
          BY <1>2, <3>1, <3>4, SlotOfMultiple
        <5>2. SlotAt(i, cur_time)[1] = i /\ SlotAt(i, cur_time) \in Slots
          BY <1>2, SlotAtFacts
        <5> QED
          BY <5>1, <5>2
      <4>3. s = SlotAt(i, cur_time)
        BY <3>1, <3>3, <4>2, SlotFacts
      <4> QED
        BY <1>5, <2>4, <3>1, <3>4, <4>1, <4>3
    <3>6. cur_time' <= q * span
      BY <1>1, <1>2, <3>3, <3>4, <3>5
    <3>7. ~ Cascaded(i)'
      BY <1>1 DEF Cascaded, At
    <3>8. CascadedBefore(s, d)'
      <4>1. cur_time' < q * span \/ cur_time' = q * span
        BY <1>1, <1>2, <3>4, <3>6
      <4> QED
        BY <3>1, <3>3, <3>7, <4>1 DEF CascadedBefore
    <3> QED
      BY <2>1, <2>4, <3>3, <3>8 DEF Timely, TimelyAt
  <2> QED
    BY <2>3, <2>4
<1> QED
  BY <1>3, <1>5
(* The tick at which a slot of a coarser wheel begins is in slot 0 of a finer. *)
LEMMA FinerSlotIsZero ==
  ASSUME NEW i \in Levels, NEW j \in Levels, i < j, NEW q \in Nat, NEW t \in Nat,
         t = q * Span[j]
  PROVE  SlotAt(i, t)[2] = 0
BY CoarserSlotBegins

(* The loop head. *)
LEMMA TickInTime ==
  ASSUME SInv, IntervalsOK, Timing, Tick
  PROVE  IntervalsOK' /\ Timing'
<1>1. /\ stack # <<>> /\ Top.at = "tick"
      /\ UNCHANGED <<up, next_time, node, free_list, wheel, strayed>>
  BY DEF Tick, At
<1>2. CASE Become(Frame("cascade", 2, 0, 0)) /\ UNCHANGED cur_time
  <2>1. PICK f \in Operation : f = Frame("cascade", 2, 0, 0)
    BY Frames
  <2>2. f.at = "cascade" /\ f.place = 2 /\ FrameOK(f)
    BY <2>1, Wheels DEF Frame, FrameOK
  <2>3. stack' # <<>> /\ Top' = f
    BY <1>1, <1>2, <2>1, <2>2, BecomeKeeps
  <2>4. \A i \in Levels : i # 1 => ~ (i < 2)
    BY Wheels
  <2>5. ClockStands /\ DrainsNow'
    BY <1>1, <1>2, <2>2, <2>3, <2>4 DEF ClockStands, TickAtHand, Cascaded, At, DrainsNow
  <2> QED
    BY <1>1, <2>5, SameNodesInTime, TimingKept
<1>3. CASE cur_time % Size[1] # 0 /\ StartDrain
  <2>1. ASSUME NEW s \in Slots, NEW q \in Nat, s[1] # 1, cur_time = q * Span[s[1]]
        PROVE  FALSE
    <3>1. cur_time \in Nat
      BY DEF SInv, TypeOK
    <3>2. PICK j \in Levels : j = s[1] /\ 1 \in Levels /\ 1 < j
      BY <2>1, SlotFacts, Wheels
    <3>3. SlotAt(1, cur_time)[2] = 0
      BY <2>1, <3>1, <3>2, FinerSlotIsZero
    <3>4. SlotAt(1, cur_time)[2] = cur_time % Size[1]
      BY <3>1, <3>2, SlotAtFacts
    <3> QED
      BY <1>3, <3>3, <3>4
  <2> QED
    BY <1>1, <1>3, <2>1, StartDrainInTime
<1>4. CASE stack' = Front(stack) /\ UNCHANGED cur_time
  <2>1. ~strayed' => stack' = <<>>
    BY <1>1, <1>4, ReturnFacts
  <2>2. ~strayed' => ClockStands /\ DrainsNow'
    BY <1>1, <1>4, <2>1 DEF ClockStands, TickAtHand, Cascaded, At, DrainsNow
  <2> QED
    BY <1>1, <2>2, SameNodesInTime, TimingKept
<1> QED
  BY <1>2, <1>3, <1>4 DEF Tick

(* The cascade. *)
LEMMA CascadeInTime ==
  ASSUME SInv, IntervalsOK, Timing, Cascade
  PROVE  IntervalsOK' /\ Timing'
<1>1. /\ stack # <<>> /\ Top.at = "cascade" /\ cur_time \in Nat
      /\ UNCHANGED <<up, next_time, node, free_list, strayed>>
  BY DEF Cascade, At, SInv, TypeOK
<1>2. PICK i \in 2 .. Len(Size) + 1 : i = Top.place
  BY <1>1, TopFacts DEF SInv, FrameOK
<1>3. \A j \in Levels : Cascaded(j) <=> j < i
  BY <1>1, <1>2 DEF Cascaded, At
<1>4. CASE i \notin Levels /\ StartDrain /\ UNCHANGED wheel
  <2>1. ASSUME NEW s \in Slots PROVE Cascaded(s[1])
    <3>1. s[1] \in 1 .. Len(Size) /\ Levels = 1 .. Len(Size) /\ Len(Size) \in Nat
      BY SlotFacts, Wheels
    <3>2. s[1] < i
      BY <1>4, <3>1
    <3> QED
      BY <1>3, <3>1, <3>2
  <2> QED
    BY <1>1, <1>4, <2>1, StartDrainInTime
<1>5. CASE i \in Levels /\ wheel[SlotAt(i, cur_time)] # <<>>
  <2>1. PICK s \in Slots : s = SlotAt(i, cur_time) /\ s[1] = i
    BY <1>1, <1>5, SlotAtFacts
  <2>2. PICK n : n = Head(wheel[s])
    OBVIOUS
  <2>3. /\ wheel' = InsertTimerNodeToWheel(wheel, n, node[n].expire_time)
        /\ UNCHANGED <<cur_time, stack>>
    BY <1>2, <1>5, <2>1, <2>2 DEF Cascade
  <2>4. /\ n \in DOMAIN node /\ Contains(wheel[s], n) /\ node[n].expire_time \in Int
        /\ InsertedAt(wheel', n, Place(node[n].expire_time), DOMAIN node)
    BY <1>1, <1>5, <2>1, <2>2, <2>3, CascadeNodeFacts
  <2>5. PICK e \in Int : e = node[n].expire_time
    BY <2>4
  <2>10. PICK d : d = node[n].due
    OBVIOUS
  <2>6. ASSUME ~strayed PROVE d = e /\ cur_time <= e
    <3>1. TimelyAt(s, e, d)
      BY <2>4, <2>5, <2>6, <2>10 DEF Timing, Timely
    <3>2. i # 1
      BY <1>2
    <3>3. PICK span \in Nat \ {0} : span = Span[i]
      BY <1>5, Wheels
    <3>4. PICK q \in 0 .. d : e = d /\ q * span <= d /\ (cur_time < q * span \/ cur_time = q * span)
      BY <2>1, <3>1, <3>2, <3>3 DEF TimelyAt, CascadedBefore
    <3>5. q * span \in Int
      <4>1. d = e
        BY <3>4
      <4>2. q \in Int
        BY <2>5, <3>4, <4>1
      <4> QED
        BY <4>2
    <3>6. PICK x \in Int : x = q * span
      BY <3>5
    <3>7. x <= e /\ cur_time <= x
      BY <3>4, <3>6, <1>1
    <3> QED
      BY <1>1, <2>5, <3>4, <3>6, <3>7
  <2>7. ASSUME ~strayed PROVE TimelyAt(Place(e), e, d)
    <3>1. d = Later(e, cur_time)
      BY <1>1, <2>6, <2>7 DEF Later
    <3>2. ~ (At("drain") \/ At("callback"))
      BY <1>1 DEF At
    <3>3. PICK p : p = Place(e)
      OBVIOUS
    <3> QED
      BY <1>1, <3>1, <3>2, <3>3, PlacedInTime
  <2>8. LinkedInTime
    BY <1>1, <2>4, <2>5, <2>7, <2>10 DEF LinkedInTime, InsertedAt
  <2>9. ~strayed' => ~strayed /\ ClockStands /\ DrainsNow'
    BY <1>1, <2>3, SameStackStands DEF Timing
  <2> QED
    BY <1>1, <2>8, <2>9, TimingKept DEF IntervalsOK
<1>6. CASE i \in Levels /\ wheel[SlotAt(i, cur_time)] = <<>> /\ SlotAt(i, cur_time)[2] # 0
           /\ StartDrain /\ UNCHANGED wheel
  <2>1. ASSUME NEW s \in Slots, NEW m, NEW q \in Nat, Contains(wheel[s], m), s[1] # 1,
               s = SlotAt(s[1], cur_time), cur_time = q * Span[s[1]]
        PROVE  Cascaded(s[1])
    <3>1. PICK j \in Levels : j = s[1]
      BY SlotFacts
    <3>2. j # i
      BY <1>6, <2>1, <3>1 DEF Contains
    <3>3. ~ (i < j)
      BY <1>1, <1>6, <2>1, <3>1, FinerSlotIsZero
    <3>4. j < i
      BY <3>1, <3>2, <3>3, Wheels
    <3> QED
      BY <1>3, <3>1, <3>4
  <2> QED
    BY <1>1, <1>6, <2>1, StartDrainInTime
<1>7. CASE i \in Levels /\ wheel[SlotAt(i, cur_time)] = <<>>
           /\ Become(Frame("cascade", i + 1, 0, 0)) /\ UNCHANGED <<cur_time, wheel>>
  <2>1. i + 1 \in 2 .. Len(Size) + 1 /\ i + 1 \in Nat
    BY <1>7, Wheels
  <2>2. PICK f \in Operation : f = Frame("cascade", i + 1, 0, 0)
    BY <2>1, Frames
  <2>3. f.at = "cascade" /\ f.place = i + 1 /\ FrameOK(f)
    BY <2>1, <2>2 DEF Frame, FrameOK
  <2>4. stack' # <<>> /\ Top' = f
    BY <1>1, <1>7, <2>2, <2>3, BecomeKeeps
  <2>5. \A j \in Levels : Cascaded(j)' <=> j <= i
    <3>1. \A j \in Levels : j < i + 1 <=> j <= i
      BY Wheels
    <3> QED
      BY <2>3, <2>4, <3>1 DEF Cascaded, At
  <2>6. TickAtHand = cur_time /\ TickAtHand' = cur_time
    BY <1>1, <1>7, <2>3, <2>4 DEF TickAtHand, At
  <2>7. DrainsNow'
    BY <2>3, <2>4 DEF DrainsNow, At
  <2>8. ASSUME ~strayed, NEW s \in Slots, NEW m \in DOMAIN node, Contains(wheel[s], m)
        PROVE  Timely(s, m)'
    <3>1. PICK e, d : e = node[m].expire_time /\ d = node[m].due
      OBVIOUS
    <3>2. TimelyAt(s, e, d)
      BY <2>8, <3>1 DEF Timing, Timely
    <3>3. CASE s[1] = 1
      BY <1>1, <2>6, <3>1, <3>2, <3>3 DEF Timely, TimelyAt, DrainedWhenDue
    <3>4. CASE s[1] # 1
      <4>1. PICK j \in Levels, span \in Nat \ {0} : j = s[1] /\ span = Span[j]
        BY SlotFacts, Wheels
      <4>2. d \in Int
        <5>1. node[m] \in TimerNode
          BY DEF SInv, TypeOK
        <5> QED
          BY <3>1, <5>1 DEF TimerNode
      <4>3. PICK q \in 0 .. d :
              /\ e = d /\ s[2] = q % Size[j] /\ q * span <= d
              /\ cur_time < q * span \/ (cur_time = q * span /\ ~Cascaded(j))
        BY <3>2, <3>4, <4>1 DEF TimelyAt, CascadedBefore
      <4>4. q \in Nat
        BY <4>2
      <4>5. cur_time < q * span \/ (cur_time = q * span /\ ~Cascaded(j)')
        <5> SUFFICES ASSUME cur_time = q * span, Cascaded(j)' PROVE FALSE
          BY <4>3
        <5>1. ~ Cascaded(j)
          <6>1. PICK x \in Int : x = q * span /\ x = cur_time
            BY <1>1
          <6> QED
            BY <4>3, <6>1
        <5>2. j = i
          BY <1>3, <2>5, <5>1, Wheels
        <5>3. SlotAt(i, cur_time)[2] = q % Size[i]
          <6>1. j \in Levels /\ cur_time \in Nat /\ q \in Nat /\ cur_time = q * Span[j]
            BY <1>1, <4>1, <4>4
          <6>2. SlotAt(j, cur_time)[2] = q % Size[j]
            BY <6>1, SlotOfMultiple
          <6> QED
            BY <5>2, <6>2
        <5>4. SlotAt(i, cur_time)[1] = i /\ SlotAt(i, cur_time) \in Slots
          <6>1. i \in Levels /\ cur_time \in Int
            BY <1>1, <1>7
          <6> QED
            BY <6>1, SlotAtFacts
        <5>5. s = SlotAt(i, cur_time)
          BY <4>1, <4>3, <5>2, <5>3, <5>4, SlotFacts
        <5> QED
          BY <1>7, <2>8, <5>5 DEF Contains
      <4>6. CascadedBefore(s, d)'
        BY <1>7, <4>1, <4>3, <4>5 DEF CascadedBefore
      <4> QED
        BY <1>1, <3>1, <3>4, <4>3, <4>6 DEF Timely, TimelyAt
    <3> QED
      BY <3>3, <3>4
  <2> QED
    BY <1>1, <1>7, <2>7, <2>8 DEF Timing, IntervalsOK
<1> QED
  BY <1>2, <1>4, <1>5, <1>6, <1>7 DEF Cascade

(* A quotient and its remainder. *)
LEMMA Division ==
  ASSUME NEW z \in Nat \ {0}, NEW a \in Int
  PROVE  \E p \in Int : a = p * z + (a % z)
<1>1. PICK p \in Int : p = a \div z
  OBVIOUS
<1>2. a = p * z + (a % z)
  BY <1>1
<1> QED
  BY <1>2

(* Two times less than a turn apart in the same slot are the same.           *)
LEMMA SameResidue ==
  ASSUME NEW z \in Nat \ {0}, NEW a \in Int, NEW b \in Int,
         a % z = b % z, a <= b, b < a + z
  PROVE  a = b
<1>1. PICK p \in Int : a = p * z + (a % z)
  BY Division
<1>2. PICK q \in Int : b = q * z + (b % z)
  BY Division
<1>3. b - a = (q - p) * z
  BY <1>1, <1>2
<1>4. q - p < 1
  BY <1>3
<1>5. q - p > -1
  BY <1>3
<1>6. q = p
  BY <1>4, <1>5
<1> QED
  BY <1>3, <1>6

(* A callback begins: of a timer that is due in this tick.                   *)
LEMMA FireInTime ==
  ASSUME SInv, IntervalsOK, Timing, Fire
  PROVE  /\ IntervalsOK' /\ Timing'
         /\ ~strayed => node[Head(wheel[Top.place])].due = cur_time - 1
<1>1. PICK n : n = Head(wheel[Top.place])
  OBVIOUS
<1>2. /\ stack # <<>> /\ Top.at = "drain" /\ cur_time \in Nat
      /\ UNCHANGED <<up, cur_time, next_time, node, free_list, strayed>>
  BY DEF Fire, At, SInv, TypeOK
<1>3. /\ n \in DOMAIN node /\ Top.place \in Slots /\ Contains(wheel[Top.place], n)
      /\ stack' # <<>> /\ Top'.at = "callback" /\ Top'.place = Top.place
      /\ \A s \in Slots : \A m : Contains(wheel'[s], m) <=> Contains(wheel[s], m) /\ m # n
  BY <1>1, FireFacts
<1>4. ASSUME ~strayed PROVE ClockStands /\ DrainsNow'
  <2>1. Top.place = SlotAt(1, cur_time - 1) /\ cur_time > 0
    BY <1>2, <1>4 DEF Timing, DrainsNow, At
  <2> QED
    BY <1>2, <1>3, <2>1 DEF ClockStands, TickAtHand, Cascaded, At, DrainsNow
<1>5. LinkedInTime
  BY <1>2, <1>3 DEF LinkedInTime
<1>6. Timing' /\ IntervalsOK'
  BY <1>2, <1>4, <1>5, TimingKept DEF IntervalsOK
<1>7. ASSUME ~strayed PROVE node[n].due = cur_time - 1
  <2>1. PICK s \in Slots : s = Top.place /\ s = SlotAt(1, cur_time - 1)
    BY <1>2, <1>3, <1>7 DEF Timing, DrainsNow, At
  <2>2. PICK d \in Int : d = node[n].due
    <3>1. node[n] \in TimerNode
      BY <1>3 DEF SInv, TypeOK
    <3> QED
      BY <3>1 DEF TimerNode
  <2>3. PICK z \in Nat \ {0} : z = Size[1]
    BY Wheels
  <2>4. s[1] = 1 /\ s[2] = (cur_time - 1) % z
    <3>1. 1 \in Levels /\ cur_time - 1 \in Int
      BY <1>2, Wheels
    <3> QED
      BY <2>1, <2>3, <3>1, SlotAtFacts
  <2>5. DrainedWhenDue(s, d)
    <3>1. Timely(s, n)
      BY <1>3, <1>7, <2>1 DEF Timing
    <3> QED
      BY <2>2, <2>4, <3>1 DEF Timely, TimelyAt
  <2>6. TickAtHand = cur_time - 1
    BY <1>2 DEF TickAtHand, At
  <2>7. (cur_time - 1) % z = d % z /\ cur_time - 1 <= d /\ d < cur_time - 1 + z
    BY <2>3, <2>4, <2>5, <2>6 DEF DrainedWhenDue
  <2>8. d = cur_time - 1
    <3>1. PICK a \in Int : a = cur_time - 1
      BY <1>2
    <3>2. a % z = d % z /\ a <= d /\ d < a + z
      BY <2>7, <3>1
    <3>3. a = d
      BY <3>2, SameResidue
    <3> QED
      BY <3>1, <3>3
  <2> QED
    BY <2>2, <2>8
<1> QED
  BY <1>1, <1>6, <1>7

(* The tick is over: what was due in it has been called.                     *)
LEMMA DrainDoneInTime ==
  ASSUME SInv, IntervalsOK, Timing, DrainDone
  PROVE  IntervalsOK' /\ Timing'
<1> SUFFICES ASSUME ~strayed
             PROVE  DrainsNow' /\ \A s \in Slots : \A m \in DOMAIN node :
                      Contains(wheel[s], m) => Timely(s, m)'
  BY DEF DrainDone, Timing, IntervalsOK
<1>1. /\ stack # <<>> /\ Top.at = "drain" /\ cur_time \in Nat /\ wheel[Top.place] = <<>>
      /\ UNCHANGED <<up, cur_time, next_time, node, free_list, wheel, strayed>>
  BY DEF DrainDone, At, SInv, TypeOK
<1>2. stack' # <<>> /\ Top'.at = "tick"
  BY DrainDoneFacts
<1>3. DrainsNow'
  BY <1>2 DEF DrainsNow, At
<1>4. PICK p \in Slots : p = Top.place /\ p = SlotAt(1, cur_time - 1)
  <2>1. Top.place = SlotAt(1, cur_time - 1)
    BY <1>1 DEF Timing, DrainsNow, At
  <2>2. 1 \in Levels /\ cur_time - 1 \in Int
    BY <1>1, Wheels
  <2> QED
    BY <2>1, <2>2, SlotAtFacts
<1>5. PICK z \in Nat \ {0} : z = Size[1]
  BY Wheels
<1>6. p[1] = 1 /\ p[2] = (cur_time - 1) % z
  <2>1. 1 \in Levels /\ cur_time - 1 \in Int
    BY <1>1, Wheels
  <2> QED
    BY <1>4, <1>5, <2>1, SlotAtFacts
<1>7. TickAtHand = cur_time - 1 /\ TickAtHand' = cur_time
  BY <1>1, <1>2 DEF TickAtHand, At
<1>8. ASSUME NEW s \in Slots, NEW m \in DOMAIN node, Contains(wheel[s], m)
      PROVE  Timely(s, m)'
  <2>1. PICK e, d : e = node[m].expire_time /\ d = node[m].due
    OBVIOUS
  <2>2. TimelyAt(s, e, d)
    BY <1>8, <2>1 DEF Timing, Timely
  <2>3. CASE s[1] = 1
    <3>1. d \in Int
      <4>1. node[m] \in TimerNode
        BY DEF SInv, TypeOK
      <4> QED
        BY <2>1, <4>1 DEF TimerNode
    <3>2. s[2] = d % z /\ cur_time - 1 <= d /\ d < cur_time - 1 + z
      BY <1>5, <1>7, <2>2, <2>3 DEF TimelyAt, DrainedWhenDue
    <3>3. d # cur_time - 1
      <4>1. s # p
        BY <1>1, <1>4, <1>8 DEF Contains
      <4>2. s[2] # p[2]
        BY <1>6, <2>3, <4>1, SlotFacts
      <4> QED
        BY <1>6, <3>2, <4>2
    <3>4. cur_time <= d /\ d < cur_time + z
      BY <1>1, <3>1, <3>2, <3>3
    <3>5. DrainedWhenDue(s, d)'
      BY <1>5, <1>7, <3>2, <3>4 DEF DrainedWhenDue
    <3> QED
      BY <1>1, <2>1, <2>3, <3>5 DEF Timely, TimelyAt
  <2>4. CASE s[1] # 1
    <3>1. e = d /\ CascadedBefore(s, d)
      BY <2>2, <2>4 DEF TimelyAt
    <3>2. CascadedBefore(s, d)'
      BY <1>1, <1>2, <3>1 DEF CascadedBefore, Cascaded, At
    <3> QED
      BY <1>1, <2>1, <2>4, <3>1, <3>2 DEF Timely, TimelyAt
  <2> QED
    BY <2>3, <2>4
<1> QED
  BY <1>3, <1>8

(* The callback is back: a periodic timer is put where it comes up a period  *)
(* later, which is not the slot being drained.                               *)
LEMMA CallbackReturnsInTime ==
  ASSUME SInv, IntervalsOK, Timing, CallbackReturns
  PROVE  IntervalsOK' /\ Timing'
<1>1. PICK n : n = Top.node
  OBVIOUS
<1>2. /\ stack # <<>> /\ Top.at = "callback" /\ n \in DOMAIN node /\ cur_time \in Nat
  <2>1. stack # <<>> /\ Top.at = "callback"
    BY DEF CallbackReturns, At
  <2> QED
    BY <2>1, <1>1, TopFacts DEF SInv, FrameOK, TypeOK
<1>3. ASSUME DOMAIN node' = DOMAIN node, ~strayed'
      PROVE  ~strayed /\ ClockStands /\ DrainsNow'
  <2>1. /\ stack' # <<>> /\ Top'.at = "drain" /\ Top'.place = Top.place
        /\ UNCHANGED <<cur_time, strayed>>
    BY <1>3, ReturnsToDrain
  <2>2. Top.place = SlotAt(1, cur_time - 1) /\ cur_time > 0
    BY <1>2, <1>3, <2>1 DEF Timing, DrainsNow, At
  <2> QED
    BY <1>2, <1>3, <2>1, <2>2 DEF ClockStands, TickAtHand, Cascaded, At, DrainsNow
<1>4. CASE UNCHANGED <<node, free_list, wheel>>
  BY <1>3, <1>4, SameNodesInTime, TimingKept
<1>5. CASE node[n].is_using /\ MoveTimerNodeToFreeList(n)
  <2>1. /\ DOMAIN node' = DOMAIN node /\ node'[n].interval = 0
        /\ \A m \in DOMAIN node : m # n => node'[m] = node[m]
        /\ \A s \in Slots : \A m : Contains(wheel'[s], m) <=> Contains(wheel[s], m) /\ m # n
    BY <1>2, <1>5, FreeFacts
  <2>2. LinkedInTime
    BY <2>1 DEF LinkedInTime
  <2>3. IntervalsOK'
    BY <2>1, Wheels DEF IntervalsOK
  <2> QED
    BY <1>3, <2>1, <2>2, <2>3, TimingKept
<1>6. CASE node[n].is_using /\ node[n].interval > 0
  <2>1. PICK e \in Int : e = cur_time + node[n].interval
    BY <1>1, <1>6, RearmFacts
  <2>2. /\ DOMAIN node' = DOMAIN node
        /\ InsertedAt(wheel', n, Place(e), DOMAIN node)
        /\ \A m \in DOMAIN node : m # n => node'[m] = node[m]
        /\ node'[n].interval = node[n].interval
        /\ node'[n].expire_time = e
        /\ node[n].count = Top.count => node'[n].due = e
    BY <1>1, <1>6, <2>1, RearmFacts
  <2>3. node[n].interval \in Nat /\ node[n].interval # Size[1] - 1
    <3>1. node[n] \in TimerNode
      BY <1>2 DEF SInv, TypeOK
    <3> QED
      BY <1>2, <3>1 DEF TimerNode, IntervalsOK
  <2>4. ASSUME ~strayed PROVE node'[n].due = e
    BY <1>1, <1>2, <1>6, <2>2, <2>4 DEF SInv, CountsOK, At
  <2>5. TimelyAt(Place(e), e, e)
    <3>1. PICK z \in Nat, i \in Nat : z = Size[1] /\ i = node[n].interval
      BY <2>3, Wheels
    <3>2. e > cur_time /\ e # cur_time + Size[1] - 1
      BY <1>2, <1>6, <2>1, <2>3, <3>1
    <3>3. e = Later(e, cur_time)
      BY <1>2, <3>2 DEF Later
    <3>4. PICK p, d : p = Place(e) /\ d = Later(e, cur_time)
      OBVIOUS
    <3>5. TimelyAt(p, e, d)
      BY <1>2, <3>2, <3>4, PlacedInTime
    <3> QED
      BY <3>3, <3>4, <3>5
  <2>6. LinkedInTime
    <3>1. strayed' = strayed
      BY DEF CallbackReturns
    <3> QED
      BY <2>2, <2>4, <2>5, <3>1 DEF LinkedInTime, InsertedAt
  <2>7. IntervalsOK'
    BY <2>2 DEF IntervalsOK
  <2> QED
    BY <1>3, <2>2, <2>6, <2>7, TimingKept
<1> QED
  BY <1>1, <1>4, <1>5, <1>6 DEF CallbackReturns
-----------------------------------------------------------------------------
(* The theorems about time. *)

(* The invariant holds at first. *)
LEMMA InitIInv == Init => IInv
<1> SUFFICES ASSUME Init PROVE IInv
  OBVIOUS
<1>1. SInv
  BY InitSInv
<1>2. up = TRUE /\ node = <<>> /\ stack = <<>>
  BY DEF Init
<1>3. DOMAIN node = {}
  BY <1>2
<1> QED
  BY <1>1, <1>2, <1>3 DEF IInv, DownOK, IntervalsOK, Timing, DrainsNow, At

(* Every step keeps the invariant. *)
LEMMA NextIInv == NoFullTurn /\ IInv /\ [Next]_vars => IInv'
<1> SUFFICES ASSUME NoFullTurn, SInv, DownOK, IntervalsOK, Timing, [Next]_vars PROVE IInv'
  BY DEF IInv
<1>1. SInv'
  BY NextSInv
<1>2. CASE UNCHANGED vars
  <2>1. DownOK' /\ IntervalsOK'
    BY <1>2 DEF vars, DownOK, IntervalsOK
  <2>2. Timing'
    <3>1. ClockStands /\ (DrainsNow => DrainsNow') /\ strayed' = strayed
      BY <1>2, SameStackStands DEF vars
    <3>2. LinkedInTime
      BY <1>2, SameNodesInTime DEF vars
    <3> QED
      BY <3>1, <3>2, TimingKept DEF Timing
  <2> QED
    BY <1>1, <2>1, <2>2 DEF IInv
<1> SUFFICES ASSUME Next PROVE IntervalsOK' /\ Timing'
  BY <1>1, <1>2, DownKeeps DEF IInv
<1>3. CASE Client
  <2>1. cur_time \in Nat
    BY DEF SInv, TypeOK
  <2>2. CASE \E d \in Delays, i \in Intervals :
               d \in Nat /\ i \in Nat /\ stack = <<>> /\ SetTimer(d, i)
    <3>1. PICK d \in Delays, i \in Intervals :
            d \in Nat /\ i \in Nat /\ stack = <<>> /\ SetTimer(d, i)
      BY <2>2
    <3>2. i # Size[1] - 1
      BY DEF NoFullTurn
    <3> QED
      BY <3>1, <3>2, SetTimerInTime
  <2>3. CASE \E d \in CallbackDelays, i \in CallbackIntervals :
               d \in Nat /\ i \in Nat /\ stack # <<>> /\ SetTimer(d, i)
    <3>1. PICK d \in CallbackDelays, i \in CallbackIntervals :
            d \in Nat /\ i \in Nat /\ stack # <<>> /\ SetTimer(d, i)
      BY <2>3
    <3>2. i # Size[1] - 1 /\ d # Size[1]
      BY DEF NoFullTurn
    <3> QED
      BY <3>1, <3>2, SetTimerInTime
  <2> QED
    BY <2>1, <2>2, <2>3, <1>3, ClientSteps, DelTimerInTime, UpdateInTime, UninitInTime,
       InitAgainInTime
<1>4. CASE RunUpdate
  BY <1>4, TickInTime, CascadeInTime, FireInTime, DrainDoneInTime, CallbackReturnsInTime
     DEF RunUpdate
<1> QED
  BY <1>3, <1>4 DEF Next

(* IInv holds in every state.                                                *)
THEOREM IInvariance == NoFullTurn => (Spec => []IInv)
<1>1. Init => IInv
  BY InitIInv
<1>2. ASSUME NoFullTurn PROVE IInv /\ [Next]_vars => IInv'
  BY <1>2, NextIInv
<1>3. ASSUME NoFullTurn PROVE Spec => []IInv
  <2>1. IInv /\ [Next]_vars => IInv'
    BY <1>2, <1>3
  <2> QED
    BY <1>1, <2>1, PTL DEF Spec
<1> QED
  BY <1>3

(* When no Update runs no timer that was due is still waiting, whatever the  *)
(* wheels and the delays (the loop of Update with TimerWheelCascade and      *)
(* InsertTimerNodeToWheel).                                                  *)
THEOREM NobodyIsLate == NoFullTurn => (Spec => []NothingOverdue)
<1>1. IInv => NothingOverdue
  <2> SUFFICES ASSUME SInv, Timing, stack = <<>>, ~strayed, NEW n \in DOMAIN node,
                      node[n].is_using
               PROVE  node[n].due >= cur_time
    BY DEF IInv, NothingOverdue
  <2>1. ~ Calling(n)
    BY DEF Calling
  <2>2. PICK s \in Slots : Contains(wheel[s], n)
    BY <2>1 DEF SInv, LinksOK, Linked
  <2>3. PICK d \in Int : d = node[n].due
    <3>1. node[n] \in TimerNode
      BY DEF SInv, TypeOK
    <3> QED
      BY <3>1 DEF TimerNode
  <2>4. PICK e : e = node[n].expire_time
    OBVIOUS
  <2>5. TimelyAt(s, e, d)
    BY <2>2, <2>3, <2>4 DEF Timing, Timely
  <2>6. cur_time \in Nat /\ TickAtHand = cur_time
    BY DEF SInv, TypeOK, TickAtHand, At
  <2>7. CASE s[1] = 1
    BY <2>3, <2>5, <2>6, <2>7 DEF TimelyAt, DrainedWhenDue
  <2>8. CASE s[1] # 1
    <3>1. PICK span \in Nat : span = Span[s[1]]
      BY SlotFacts, Wheels
    <3>2. PICK q \in 0 .. d : q * span <= d /\ (cur_time < q * span \/ cur_time = q * span)
      BY <2>5, <2>8, <3>1 DEF TimelyAt, CascadedBefore
    <3>3. PICK x \in Int : x = q * span
      BY <2>3
    <3> QED
      BY <2>3, <2>6, <3>2, <3>3
  <2> QED
    BY <2>7, <2>8
<1>2. ASSUME NoFullTurn PROVE Spec => []NothingOverdue
  <2>1. Spec => []IInv
    BY <1>2, IInvariance
  <2> QED
    BY <1>1, <2>1, PTL
<1> QED
  BY <1>2

(* A callback runs in the tick its timer is due, neither early nor late.     *)
THEOREM CallbacksOnTime == NoFullTurn => (Spec => FiresWhenDue)
<1>1. IInv /\ [Next]_vars => [Fire /\ ~strayed => node[Head(wheel[Top.place])].due = cur_time - 1]_vars
  BY FireInTime DEF IInv
<1>2. ASSUME NoFullTurn PROVE Spec => FiresWhenDue
  <2>1. Spec => []IInv
    BY <1>2, IInvariance
  <2> QED
    BY <1>1, <2>1, PTL DEF FiresWhenDue, Spec
<1> QED
  BY <1>2
=============================================================================
