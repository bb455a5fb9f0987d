------------------------------- MODULE Sorts -------------------------------
(***************************************************************************)
(* The ten sorts of algorithm/sort/*.h.  Each is an operator from the      *)
(* array to the array it leaves; iterators are positions from 1.  Loops    *)
(* are folds, or recursive operators where a loop's bounds move.           *)
(***************************************************************************)
EXTENDS Integers, SequencesExt, FiniteSetsExt

CONSTANTS
  Values,     \* bound: the integers that occur
  MaxLen      \* bound: length of an array

ASSUME SortsAssumption == Values \subseteq Int /\ MaxLen \in Nat \ {0}

VARIABLES
  array,      \* what lies between begin and end
  order,      \* the comparator the client passes
  sorter      \* not in the code: the sort that ran last

vars == <<array, order, sorter>>

(* The last comparator does not tell all values apart. *)
Orders == {"less", "greater", "tens"}

Less(x, y) ==
  CASE order = "less"    -> x < y
    [] order = "greater" -> x > y
    [] order = "tens"    -> x \div 10 < y \div 10

(* Body for each position from first to last, on what the one before left. *)
ForEach(first, last, Body(_, _), a) ==
  FoldLeft(Body, a, [i \in 1 .. (last - first + 1) |-> first + i - 1])

ForEachDown(first, last, Body(_, _), a) ==
  FoldLeft(Body, a, [i \in 1 .. (first - last + 1) |-> first - i + 1])

Swapped(a, i, j) == [a EXCEPT ![i] = a[j], ![j] = a[i]]

-----------------------------------------------------------------------------
(* A pass stops where the pass before made its last swap.                    *)
BuddlePass(r, flag) ==
  ForEach(1, flag - 1,
          LAMBDA s, i : IF Less(s.a[i + 1], s.a[i])
                        THEN [a |-> Swapped(s.a, i, i + 1), last |-> i]
                        ELSE s,
          r)

BuddleSorted(a) ==
  ForEach(1, Len(a) - 1,
          LAMBDA r, i : IF r.last = 1 THEN r ELSE BuddlePass(r, r.last),
          [a |-> a, last |-> Len(a)]).a

-----------------------------------------------------------------------------
(* Mutant: a value is also moved before its equals. *)
InsertedBeforeEquals(a, gap, i) ==
  LET chain == {j \in 1 .. i : j % gap = i % gap}
      to    == Min({j \in chain : \A k \in chain : (j <= k /\ k < i) => ~ Less(a[k], a[i])})
  IN [j \in DOMAIN a |-> IF j = to THEN a[i]
                         ELSE IF j \in chain /\ to < j THEN a[j - gap]
                         ELSE a[j]]

(* a[i] goes to its place among the positions gap apart below it, which are  *)
(* in order; those above the place move up.                                  *)
Inserted(a, gap, i) ==
  LET chain == {j \in 1 .. i : j % gap = i % gap}
      to    == Min({j \in chain : \A k \in chain : (j <= k /\ k < i) => Less(a[i], a[k])})
  IN [j \in DOMAIN a |-> IF j = to THEN a[i]
                         ELSE IF j \in chain /\ to < j THEN a[j - gap]
                         ELSE a[j]]

InsertSorted(a) == ForEach(2, Len(a), LAMBDA b, i : Inserted(b, 1, i), a)

RECURSIVE ShellFrom(_, _)
ShellFrom(a, gap) ==
  IF gap = 0 THEN a
  ELSE ShellFrom(ForEach(1 + gap, Len(a), LAMBDA b, i : Inserted(b, gap, i), a), gap \div 2)

ShellSorted(a) == ShellFrom(a, Len(a) \div 2)

-----------------------------------------------------------------------------
(* The first of the least positions from i on. *)
Selected(a, i) ==
  ForEach(i + 1, Len(a), LAMBDA sel, j : IF Less(a[j], a[sel]) THEN j ELSE sel, i)

SelectSorted(a) ==
  ForEach(1, Len(a) - 1, LAMBDA b, i : Swapped(b, i, Selected(b, i)), a)

-----------------------------------------------------------------------------
(* What the merge stores: it ends when the first half is used up. *)
RECURSIVE Stored(_, _)
Stored(a, b) ==
  IF a = <<>> THEN <<>>
  ELSE IF b # <<>> /\ Less(Head(b), Head(a)) THEN <<Head(b)>> \o Stored(a, Tail(b))
  ELSE <<Head(a)>> \o Stored(Tail(a), b)

(* Only what was stored is copied back: the rest is in place.                *)
RECURSIVE MergeSorted(_)
MergeSorted(a) ==
  IF Len(a) = 1 THEN a
  ELSE LET middle == Len(a) \div 2
           a1     == MergeSorted(SubSeq(a, 1, middle))
           a2     == MergeSorted(SubSeq(a, middle + 1, Len(a)))
           store  == Stored(a1, a2)
       IN store \o SubSeq(a2, Len(store) - middle + 1, Len(a2))

-----------------------------------------------------------------------------
(* Positions first to last are still to be divided around tmp; one of the    *)
(* two is free.  The result says where tmp went.                             *)
RECURSIVE Divided(_, _, _, _)
Divided(a, first, last, tmp) ==
  IF first >= last THEN [a |-> [a EXCEPT ![first] = tmp], at |-> first]
  ELSE LET last1  == Max({first} \cup {j \in first .. last : ~ Less(tmp, a[j])})
           a1     == IF first < last1 THEN [a EXCEPT ![first] = a[last1]] ELSE a
           next   == IF first < last1 THEN first + 1 ELSE first
           first1 == Min({last1} \cup {j \in next .. last1 : ~ Less(a1[j], tmp)})
           moved  == first1 < last1
       IN Divided(IF moved THEN [a1 EXCEPT ![last1] = a1[first1]] ELSE a1,
                  first1, IF moved THEN last1 - 1 ELSE last1, tmp)

RECURSIVE QuickSorted(_, _, _)
QuickSorted(a, first, last) ==
  IF last <= first THEN a
  ELSE LET d == Divided(a, first, last, a[first])
       IN QuickSorted(QuickSorted(d.a, first, d.at - 1), d.at + 1, last)

-----------------------------------------------------------------------------
(* The heap is the first n positions; the value at i sinks to its place.     *)
RECURSIVE AdjustHeap(_, _, _)
AdjustHeap(a, n, i) ==
  LET larger(j, k) == IF k <= n /\ Less(a[j], a[k]) THEN k ELSE j
      swap == larger(larger(i, 2 * i), 2 * i + 1)
  IN IF swap = i THEN a ELSE AdjustHeap(Swapped(a, i, swap), n, swap)

(* Mutant: the heap still has the position just filled. *)
HeapSortedOneTooMany(a) ==
  LET heap == ForEachDown((Len(a) - 1) \div 2 + 1, 1, LAMBDA b, i : AdjustHeap(b, Len(a), i), a)
  IN ForEachDown(Len(a), 2, LAMBDA b, i : AdjustHeap(Swapped(b, 1, i), i, 1), heap)

HeapSorted(a) ==
  LET heap == ForEachDown((Len(a) - 1) \div 2 + 1, 1, LAMBDA b, i : AdjustHeap(b, Len(a), i), a)
  IN ForEachDown(Len(a), 2, LAMBDA b, i : AdjustHeap(Swapped(b, 1, i), i - 1, 1), heap)

-----------------------------------------------------------------------------
(* Counter[k] is the number of values with a key of at most k: the values    *)
(* are placed from the last one down, each just below those of its key.      *)
CountPlaced(a, key, keys) ==
  LET counter == [k \in keys |-> Cardinality({i \in DOMAIN a : key[a[i]] <= k})]
      place(s, i) == LET k == key[a[i]]
                     IN [tmp     |-> [s.tmp EXCEPT ![s.counter[k]] = a[i]],
                         counter |-> [s.counter EXCEPT ![k] = @ - 1]]
  IN ForEachDown(Len(a), 1, place, [tmp |-> [i \in DOMAIN a |-> 0], counter |-> counter]).tmp

CountSorted(a) ==
  LET least == Min(ToSet(a))
  IN CountPlaced(a, [x \in ToSet(a) |-> x - least], 0 .. (Max(ToSet(a)) - least))

(* Decimal digits; p does not overflow for the values that occur. *)
Digits(x) == Min({d \in 1 .. 9 : x < 10 ^ d})

RadixSorted(a) ==
  ForEach(1, Max({Digits(x) : x \in ToSet(a)}),
          LAMBDA b, d : CountPlaced(b, [x \in ToSet(b) |-> (x \div 10 ^ (d - 1)) % 10], 0 .. 9), a)

(* Division in C++ truncates: the bucket 0 has the values from -9 to 9.      *)
Bucket(x) == IF x >= 0 THEN x \div 10 ELSE - ((- x) \div 10)

BucketSorted(a) ==
  FoldLeft(LAMBDA b, k : b \o InsertSorted(SelectSeq(a, LAMBDA x : Bucket(x) = k)),
           <<>>, SetToSortSeq({Bucket(x) : x \in ToSet(a)}, <))

-----------------------------------------------------------------------------
(* The client calls one sort after another on an array; none takes an empty  *)
(* one.                                                                      *)
Init ==
  /\ array \in UNION {[1 .. n -> Values] : n \in 1 .. MaxLen}
  /\ order \in Orders
  /\ sorter = "none"

Sort(name, sorted) == array' = sorted /\ sorter' = name /\ UNCHANGED order

BuddleSort == Sort("buddle", BuddleSorted(array))
InsertSort == Sort("insert", InsertSorted(array))
ShellSort == Sort("shell", ShellSorted(array))
SelectSort == Sort("select", SelectSorted(array))
MergeSort == Sort("merge", MergeSorted(array))
QuickSort == Sort("quick", QuickSorted(array, 1, Len(array)))
HeapSort == Sort("heap", HeapSorted(array))

(* The sorts of integers do without the comparator, or subtract in the order *)
(* of it: they are called for the default one.                               *)
CountSort == order = "less" /\ Sort("count", CountSorted(array))
BucketSort == order = "less" /\ Sort("bucket", BucketSorted(array))
RadixSort ==
  /\ order = "less"
  /\ \A i \in DOMAIN array : array[i] >= 0
  /\ Sort("radix", RadixSorted(array))

Next ==
  \/ BuddleSort \/ InsertSort \/ ShellSort \/ SelectSort \/ MergeSort
  \/ QuickSort \/ HeapSort \/ CountSort \/ BucketSort \/ RadixSort

Spec == Init /\ [][Next]_vars

-----------------------------------------------------------------------------
Occurrences(a, x) == Cardinality({i \in DOMAIN a : a[i] = x})

Sorted(a, b) ==
  /\ \A i, j \in DOMAIN b : i < j => ~ Less(b[j], b[i])
  /\ \A x \in ToSet(a) \cup ToSet(b) : Occurrences(a, x) = Occurrences(b, x)

(* Every sort leaves the values it was given, none before a lesser one,      *)
(* whatever their number, their order, and those the comparator does not     *)
(* tell apart (algorithm/sort/*.h; test_sort.cpp prints the results).        *)
EachSortSorts == [][Sorted(array, array')]_vars

(* Values the comparator does not tell apart.                                *)
SameAs(a, x) == SelectSeq(a, LAMBDA y : ~ Less(x, y) /\ ~ Less(y, x))

KeepsOrder(a, b) == \A x \in ToSet(a) : SameAs(a, x) = SameAs(b, x)

(* The buddle, insert and merge sorts keep the order of the values that the  *)
(* comparator does not tell apart (buddle_sort.h:23, insert_sort.h:23,       *)
(* merge_sort.h:25); no other sort that takes a comparator does.             *)
StableSortsKeepOrder ==
  [][sorter' \in {"buddle", "insert", "merge"} => KeepsOrder(array, array')]_vars
=============================================================================
