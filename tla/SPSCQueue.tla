----------------------------- MODULE SPSCQueue -----------------------------
(***************************************************************************)
(* The lock-free single-producer single-consumer ring of                   *)
(* include/mzx/spsc_queue.h.  One thread calls Push, Product and           *)
(* WriteAvailable(), the other Pop, Consume and ReadAvailable(); they      *)
(* share two atomic indices and the ring of slots, and nothing else.       *)
(*                                                                         *)
(* Every access one thread can see of the other is a step of its own: the  *)
(* acquire load of the other's index, each construction, delivery and      *)
(* destruction of a slot, and the release store of one's own index.        *)
(*                                                                         *)
(* An acquire load need not return the newest value of the other thread's  *)
(* index.  It returns any value that index has held since the value this   *)
(* thread last loaded (coherence forbids going back), so p_read and c_write *)
(* are the threads' possibly stale views, refreshed by each load.          *)
(***************************************************************************)
EXTENDS Naturals, Sequences

CONSTANTS
  MaxSize,    \* the constructor's max_size
  Values,     \* what may be stored in a slot
  Raw         \* the content of a slot that holds no constructed object

ASSUME MaxSizeAssumption == MaxSize \in Nat \ {0}   \* MZX_CHECK(max_size_ > 1)
ASSUME RawAssumption == Raw \notin Values

VARIABLES
  read_index, write_index,  \* the two atomics
  slot,                     \* the ring: a value, or Raw
  alive,                    \* FALSE once the destructor has run
  p_pc,                     \* producer: "idle", "construct" or "publish"
  p_write,                  \* producer's local write_index
  p_read,                   \* the read_index the producer last loaded
  p_todo,                   \* slots left to construct in this call
  p_promise,                \* what WriteAvailable() last promised, less what was used
  c_pc,                     \* consumer: "idle", "deliver", "destroy" or "release"
  c_read,                   \* consumer's local read_index
  c_write,                  \* the write_index the consumer last loaded
  c_todo,                   \* slots left to consume in this call
  c_promise,                \* what ReadAvailable() last promised, less what was used
  out                       \* the value last handed to the consumer

shared == <<read_index, write_index, slot, alive>>
producer == <<p_pc, p_write, p_read, p_todo, p_promise>>
consumer == <<c_pc, c_read, c_write, c_todo, c_promise, out>>
vars == <<shared, producer, consumer>>

-----------------------------------------------------------------------------
(* Index arithmetic. *)

N == MaxSize + 1            \* max_size_: one slot always stays free
Index == 0 .. N - 1

NextIndex(i) == IF i + 1 >= N THEN i + 1 - N ELSE i + 1

(* Mutant: the wrapped distance forgets the slot that stays free. *)
ReadAvailableShort(w, r) == IF w >= r THEN w - r ELSE w + MaxSize - r

ReadAvailable(w, r) == IF w >= r THEN w - r ELSE w + N - r

(* Mutant: no slot stays free. *)
WriteAvailableNoGap(w, r) == IF w >= r THEN N - w + r ELSE r - w - 1

WriteAvailable(w, r) == IF w >= r THEN N - w + r - 1 ELSE r - w - 1

Least(a, b) == IF a <= b THEN a ELSE b

Less(a, b) == IF a >= b THEN a - b ELSE 0

(* The values index x has held since a load returned a, when it is now b. *)
SinceLoad(a, b) == {x \in Index : ReadAvailable(x, a) <= ReadAvailable(b, a)}

-----------------------------------------------------------------------------
Init ==
  /\ read_index = 0
  /\ write_index = 0
  /\ slot = [i \in Index |-> Raw]
  /\ alive = TRUE
  /\ p_pc = "idle"
  /\ p_write = 0
  /\ p_read = 0
  /\ p_todo = 0
  /\ p_promise = 0
  /\ c_pc = "idle"
  /\ c_read = 0
  /\ c_write = 0
  /\ c_todo = 0
  /\ c_promise = 0
  /\ out = Raw

-----------------------------------------------------------------------------
(* The producer's thread. *)

(* A call is granted n slots: it goes on to construct them. *)
GrantWrite(n) ==
  /\ p_todo' = n
  /\ p_pc' = IF n = 0 THEN "idle" ELSE "construct"
  /\ p_promise' = Less(p_promise, n)
  /\ UNCHANGED <<shared, consumer, p_write>>

(* Push up to its early return: full when the next index is read_index. *)
PushLoad(r) ==
  /\ alive
  /\ p_pc = "idle"
  /\ r \in SinceLoad(p_read, read_index)
  /\ p_read' = r
  /\ GrantWrite(IF NextIndex(write_index) = r THEN 0 ELSE 1)

(* Product up to its early return: as many slots as fit, at most count. *)
ProductLoad(r, count) ==
  /\ alive
  /\ p_pc = "idle"
  /\ r \in SinceLoad(p_read, read_index)
  /\ p_read' = r
  /\ GrantWrite(Least(count, WriteAvailable(write_index, r)))

(* The object is built in its slot, by Push's copy or by Product's callback. *)
Construct(v) ==
  /\ p_pc = "construct"
  /\ slot' = [slot EXCEPT ![p_write] = v]
  /\ p_write' = NextIndex(p_write)
  /\ p_todo' = p_todo - 1
  /\ p_pc' = IF p_todo = 1 THEN "publish" ELSE "construct"
  /\ UNCHANGED <<read_index, write_index, alive, p_read, p_promise, consumer>>

(* Mutant: a batch is published as if it were one value. *)
PublishOne ==
  /\ p_pc = "publish"
  /\ write_index' = NextIndex(write_index)
  /\ p_pc' = "idle"
  /\ UNCHANGED <<read_index, slot, alive, p_write, p_read, p_todo, p_promise, consumer>>

(* One release store publishes everything the call constructed. *)
Publish ==
  /\ p_pc = "publish"
  /\ write_index' = p_write
  /\ p_pc' = "idle"
  /\ UNCHANGED <<read_index, slot, alive, p_write, p_read, p_todo, p_promise, consumer>>

(* WriteAvailable(): what the caller is told it may push from now on. *)
AskWriteAvailable(r) ==
  /\ alive
  /\ p_pc = "idle"
  /\ r \in SinceLoad(p_read, read_index)
  /\ p_read' = r
  /\ p_promise' = WriteAvailable(write_index, r)
  /\ UNCHANGED <<shared, p_pc, p_write, p_todo, consumer>>

-----------------------------------------------------------------------------
(* The consumer's thread. *)

(* A call is granted n values: it goes on to hand them out. *)
GrantRead(n) ==
  /\ c_todo' = n
  /\ c_pc' = IF n = 0 THEN "idle" ELSE "deliver"
  /\ c_promise' = Less(c_promise, n)
  /\ UNCHANGED <<shared, producer, c_read, out>>

(* Mutant: Pop takes a queue of one value for empty. *)
PopLoadLeavesOne(w) ==
  /\ alive
  /\ c_pc = "idle"
  /\ w \in SinceLoad(c_write, write_index)
  /\ c_write' = w
  /\ GrantRead(IF w \in {read_index, NextIndex(read_index)} THEN 0 ELSE 1)

(* Pop up to its early return: empty when the two indices are equal. *)
PopLoad(w) ==
  /\ alive
  /\ c_pc = "idle"
  /\ w \in SinceLoad(c_write, write_index)
  /\ c_write' = w
  /\ GrantRead(IF w = read_index THEN 0 ELSE 1)

(* Consume up to its early return: what is there, at most count. *)
ConsumeLoad(w, count) ==
  /\ alive
  /\ c_pc = "idle"
  /\ w \in SinceLoad(c_write, write_index)
  /\ c_write' = w
  /\ GrantRead(Least(count, ReadAvailable(w, read_index)))

(* The slot is copied out by Pop, or given to Consume's callback. *)
Deliver ==
  /\ c_pc = "deliver"
  /\ out' = slot[c_read]
  /\ c_pc' = "destroy"
  /\ UNCHANGED <<shared, producer, c_read, c_write, c_todo, c_promise>>

(* Mutant: the destructor of the object is not called. *)
DestroyNothing ==
  /\ c_pc = "destroy"
  /\ c_read' = NextIndex(c_read)
  /\ c_todo' = c_todo - 1
  /\ c_pc' = IF c_todo = 1 THEN "release" ELSE "deliver"
  /\ UNCHANGED <<shared, producer, c_write, c_promise, out>>

(* The object in the slot is destroyed, and the next one is looked at. *)
Destroy ==
  /\ c_pc = "destroy"
  /\ slot' = [slot EXCEPT ![c_read] = Raw]
  /\ c_read' = NextIndex(c_read)
  /\ c_todo' = c_todo - 1
  /\ c_pc' = IF c_todo = 1 THEN "release" ELSE "deliver"
  /\ UNCHANGED <<read_index, write_index, alive, producer, c_write, c_promise, out>>

(* One release store gives the slots of the whole call back. *)
Release ==
  /\ c_pc = "release"
  /\ read_index' = c_read
  /\ c_pc' = "idle"
  /\ UNCHANGED <<write_index, slot, alive, producer, c_read, c_write, c_todo, c_promise, out>>

(* ReadAvailable(): what the caller is told it may pop from now on. *)
AskReadAvailable(w) ==
  /\ alive
  /\ c_pc = "idle"
  /\ w \in SinceLoad(c_write, write_index)
  /\ c_write' = w
  /\ c_promise' = ReadAvailable(w, read_index)
  /\ UNCHANGED <<shared, producer, c_pc, c_read, c_todo, out>>

-----------------------------------------------------------------------------
(* Mutant: the ring is freed with the objects in it. *)
DestructFreesOnly ==
  /\ alive
  /\ p_pc = "idle"
  /\ c_pc = "idle"
  /\ alive' = FALSE
  /\ UNCHANGED <<read_index, write_index, slot, producer, consumer>>

(* The destructor, run when both threads have left the queue: it pops      *)
(* until Pop says empty, then frees the ring.                              *)
Destruct ==
  /\ alive
  /\ p_pc = "idle"
  /\ c_pc = "idle"
  /\ slot' = [i \in Index |->
                IF ReadAvailable(i, read_index) < ReadAvailable(write_index, read_index)
                THEN Raw ELSE slot[i]]
  /\ read_index' = write_index
  /\ alive' = FALSE
  /\ UNCHANGED <<write_index, producer, consumer>>

-----------------------------------------------------------------------------
Counts == 1 .. MaxSize      \* a larger count behaves as MaxSize

Produce ==
  \/ \E r \in Index : PushLoad(r)
  \/ \E r \in Index, count \in Counts : ProductLoad(r, count)
  \/ \E v \in Values : Construct(v)
  \/ Publish
  \/ \E r \in Index : AskWriteAvailable(r)

Take ==
  \/ \E w \in Index : PopLoad(w)
  \/ \E w \in Index, count \in Counts : ConsumeLoad(w, count)
  \/ Deliver
  \/ Destroy
  \/ Release
  \/ \E w \in Index : AskReadAvailable(w)

Next == Produce \/ Take \/ Destruct

Spec == Init /\ [][Next]_vars

(* A thread inside a call finishes it.  No call need ever be made.          *)
Fairness ==
  /\ WF_vars(\E v \in Values : Construct(v))
  /\ WF_vars(Publish)
  /\ WF_vars(Deliver)
  /\ WF_vars(Destroy)
  /\ WF_vars(Release)

FairSpec == Spec /\ Fairness

-----------------------------------------------------------------------------
TypeOK ==
  /\ read_index \in Index /\ write_index \in Index
  /\ slot \in [Index -> Values \cup {Raw}]
  /\ alive \in BOOLEAN
  /\ p_pc \in {"idle", "construct", "publish"}
  /\ c_pc \in {"idle", "deliver", "destroy", "release"}
  /\ p_write \in Index /\ p_read \in Index
  /\ c_write \in Index /\ c_read \in Index
  /\ p_todo \in 0 .. MaxSize /\ p_promise \in 0 .. MaxSize
  /\ c_todo \in 0 .. MaxSize /\ c_promise \in 0 .. MaxSize
  /\ out \in Values \cup {Raw}

(* No slot is touched by both threads without a release and an acquire      *)
(* between them: the producer constructs only in slots whose destruction    *)
(* read_index has published, and never over a live object; the consumer     *)
(* reads and destroys only objects whose construction write_index has       *)
(* published.  spsc_queue.h:61-66, 82-89, 98-106, 121-129.                  *)
NoRacyAccess ==
  /\ p_pc = "construct" =>
       /\ slot[p_write] = Raw
       /\ ReadAvailable(p_write, read_index) >= ReadAvailable(write_index, read_index)
  /\ c_pc \in {"deliver", "destroy"} =>
       /\ slot[c_read] # Raw
       /\ ReadAvailable(c_read, read_index) < ReadAvailable(write_index, read_index)

(* Every constructed object can still be reached through the indices, and   *)
(* nothing else is constructed: no object leaks when a batch wraps around   *)
(* the ring, and none is destroyed twice.                                   *)
SlotsMatchIndices ==
  alive => \A i \in Index :
             slot[i] # Raw <=> ReadAvailable(i, c_read) < ReadAvailable(p_write, c_read)

(* The destructor's Pop loop leaves no live object behind (lines 25-32).    *)
NoLeak == ~alive => \A i \in Index : slot[i] = Raw

(* What WriteAvailable() or ReadAvailable() promised stays true however     *)
(* late the caller acts on it: a call that asks for no more than the rest   *)
(* of the promise is granted all of it (NetMaster::Send relies on this).    *)
KeepsPromises ==
  /\ \A r \in Index : PushLoad(r) => p_todo' >= Least(1, p_promise)
  /\ \A r \in Index, n \in Counts : ProductLoad(r, n) => p_todo' >= Least(n, p_promise)
  /\ \A w \in Index : PopLoad(w) => c_todo' >= Least(1, c_promise)
  /\ \A w \in Index, n \in Counts : ConsumeLoad(w, n) => c_todo' >= Least(n, c_promise)

PromisesKept == [][KeepsPromises]_vars

(* A client whose consumer thread calls Pop again and again, with the store *)
(* of a new write_index visible to it in finite time.  It is a condition on *)
(* the client: nothing in the repository polls a queue by itself.           *)
PollingConsumer == WF_vars(PopLoad(write_index))

(* Liveness: if the consumer polls, a published value is taken out of its   *)
(* slot, by a Pop or by the destructor, whatever stale values loads return  *)
(* (spsc_queue.h:77-91).                                                    *)
EveryValueLeaves ==
  PollingConsumer =>
    \A i \in Index :
      (alive /\ ReadAvailable(i, read_index) < ReadAvailable(write_index, read_index))
        ~> (slot[i] = Raw)

-----------------------------------------------------------------------------
(* The abstract queue: the published slots the consumer has not been handed *)
(* yet, in ring order.  Between Deliver and Destroy the slot at c_read has  *)
(* already been handed out.                                                 *)

Handed == IF c_pc = "destroy" THEN 1 ELSE 0

Wrap(i) == IF i >= N THEN i - N ELSE i

AbstractQueue ==
  IF alive
  THEN [k \in 1 .. (ReadAvailable(write_index, c_read) - Handed) |->
          slot[Wrap(c_read + Handed + k - 1)]]
  ELSE <<>>

Fifo == INSTANCE BoundedFifo
          WITH Capacity <- MaxSize, NoValue <- Raw, queue <- AbstractQueue, out <- out

(* The two threads, with all their stale loads and partial batches,         *)
(* implement a bounded first-in first-out queue.                            *)
ImplementsFifo == Fifo!Spec

-----------------------------------------------------------------------------
(* The inductive invariant.  Measured from the producer's view p_read, the  *)
(* six indices lie on the ring in this order and never a full turn apart.   *)

Ahead(x) == ReadAvailable(x, p_read)

RingOrder ==
  alive =>
    /\ Ahead(read_index) <= Ahead(c_read)
    /\ Ahead(c_read) <= Ahead(c_write)
    /\ Ahead(c_write) <= Ahead(write_index)
    /\ Ahead(write_index) <= Ahead(p_write)

(* Where each thread is in its call says how much it may still do. *)
CallState ==
  /\ p_pc = "idle" => p_write = write_index
  /\ p_pc = "publish" => p_write # write_index
  /\ p_pc = "construct" <=> p_todo > 0
  /\ alive => Ahead(p_write) + p_todo <= MaxSize
  /\ alive /\ c_pc = "idle" => c_read = read_index
  /\ c_pc \in {"deliver", "destroy"} <=> c_todo > 0
  /\ alive => Ahead(c_read) + c_todo <= Ahead(c_write)
  /\ ~alive => p_pc = "idle" /\ c_pc = "idle"

(* A promise never exceeds what the thread's own view still allows. *)
PromiseWithinView ==
  alive =>
    /\ Ahead(p_write) + p_todo + p_promise <= MaxSize
    /\ Ahead(c_read) + c_todo + c_promise <= Ahead(c_write)

IInv ==
  /\ TypeOK
  /\ RingOrder
  /\ CallState
  /\ SlotsMatchIndices
  /\ NoLeak
  /\ PromiseWithinView
=============================================================================
