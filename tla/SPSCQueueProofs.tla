-------------------------- MODULE SPSCQueueProofs --------------------------
(***************************************************************************)
(* Proofs about SPSCQueue for every capacity and every set of values.      *)
(*                                                                         *)
(* IInv is inductive (InitIInv, NextIInv).  Its core is RingOrder: seen    *)
(* from the producer's view of read_index, the six indices of the two      *)
(* threads never overtake one another, which is what makes every slot      *)
(* either the producer's or the consumer's and never both.  The safety     *)
(* properties the runs check follow from IInv in a state or in a step.     *)
(***************************************************************************)
EXTENDS SPSCQueue, SequenceTheorems, TLAPS

USE MaxSizeAssumption, RawAssumption

(* The empty ring satisfies the inductive invariant. *)
LEMMA InitIInv == Init => IInv
  BY DEF Init, IInv, TypeOK, RingOrder, CallState, SlotsMatchIndices, NoLeak,
         PromiseWithinView, Ahead, ReadAvailable, Index, N

(* Every step of either thread, and the destructor, preserves it. *)
LEMMA NextIInv == IInv /\ [Next]_vars => IInv'
<1> SUFFICES ASSUME IInv, [Next]_vars PROVE IInv'
  OBVIOUS
<1> USE DEF IInv, TypeOK, RingOrder, CallState, SlotsMatchIndices, NoLeak,
            PromiseWithinView, Ahead, ReadAvailable, NextIndex, Index, N,
            shared, producer, consumer
(* A new view of read_index only moves towards it: the room the view shows grows. *)
<1>1. ASSUME NEW r \in Index, PushLoad(r) PROVE IInv'
  BY <1>1 DEF PushLoad, GrantWrite, SinceLoad, Less
(* Product is granted no more slots than its view shows free. *)
<1>2. ASSUME NEW r \in Index, NEW count \in Counts, ProductLoad(r, count) PROVE IInv'
  BY <1>2 DEF ProductLoad, GrantWrite, SinceLoad, Less, Least, WriteAvailable, Counts
(* The slot constructed is the first one past the live region. *)
<1>3. ASSUME NEW v \in Values, Construct(v) PROVE IInv'
  BY <1>3 DEF Construct
(* Publishing moves write_index up to the local index. *)
<1>4. CASE Publish
  BY <1>4 DEF Publish
(* What WriteAvailable() returns is within the view it was computed from. *)
<1>5. ASSUME NEW r \in Index, AskWriteAvailable(r) PROVE IInv'
  BY <1>5 DEF AskWriteAvailable, SinceLoad, WriteAvailable
(* A new view of write_index lies between the last one and write_index. *)
<1>6. ASSUME NEW w \in Index, PopLoad(w) PROVE IInv'
  BY <1>6 DEF PopLoad, GrantRead, SinceLoad, Less
(* Consume is granted no more values than its view shows published. *)
<1>7. ASSUME NEW w \in Index, NEW count \in Counts, ConsumeLoad(w, count) PROVE IInv'
  BY <1>7 DEF ConsumeLoad, GrantRead, SinceLoad, Less, Least, Counts
(* Handing a value out changes no index. *)
<1>8. CASE Deliver
  BY <1>8 DEF Deliver
(* The slot destroyed is the first one of the live region. *)
<1>9. CASE Destroy
  BY <1>9 DEF Destroy
(* Releasing moves read_index up to the local index. *)
<1>10. CASE Release
  BY <1>10 DEF Release
(* What ReadAvailable() returns is within the view it was computed from. *)
<1>11. ASSUME NEW w \in Index, AskReadAvailable(w) PROVE IInv'
  BY <1>11 DEF AskReadAvailable, SinceLoad
(* The destructor destroys the whole live region. *)
<1>12. CASE Destruct
  BY <1>12 DEF Destruct
(* A step that changes nothing. *)
<1>13. CASE UNCHANGED vars
  BY <1>13 DEF vars
<1> QED
  BY <1>1, <1>2, <1>3, <1>4, <1>5, <1>6, <1>7, <1>8, <1>9, <1>10, <1>11, <1>12, <1>13 DEF Next, Produce, Take

(* In every reachable state the six indices are in ring order, each call is *)
(* within its grant, and the slots between c_read and p_write are exactly   *)
(* the constructed ones.                                                    *)
THEOREM IInvariance == Spec => []IInv
  BY InitIInv, NextIInv, PTL DEF Spec

(* Types. *)
THEOREM TypeCorrect == Spec => []TypeOK
<1>1. IInv => TypeOK
  BY DEF IInv
<1> QED
  BY <1>1, IInvariance, PTL

(* No slot is touched by both threads without a release and an acquire      *)
(* between them, whatever stale index values the loads return.              *)
THEOREM RaceFreedom == Spec => []NoRacyAccess
<1>1. IInv => NoRacyAccess
  BY DEF IInv, TypeOK, RingOrder, CallState, SlotsMatchIndices, NoRacyAccess,
         Ahead, ReadAvailable, Index, N
<1> QED
  BY <1>1, IInvariance, PTL

(* No constructed object is ever out of reach of the indices.               *)
THEOREM NoObjectLost == Spec => []SlotsMatchIndices
<1>1. IInv => SlotsMatchIndices
  BY DEF IInv
<1> QED
  BY <1>1, IInvariance, PTL

(* The destructor leaves no object behind: none leaks.                      *)
THEOREM NothingLeaks == Spec => []NoLeak
<1>1. IInv => NoLeak
  BY DEF IInv
<1> QED
  BY <1>1, IInvariance, PTL

(* A promise of WriteAvailable() or ReadAvailable() is kept by every later  *)
(* call of the same thread.                                                 *)
THEOREM PromiseKeeping == Spec => PromisesKept
<1>1. ASSUME IInv, NEW r \in Index, PushLoad(r) PROVE p_todo' >= Least(1, p_promise)
  BY <1>1 DEF IInv, TypeOK, RingOrder, CallState, PromiseWithinView, Ahead,
       ReadAvailable, NextIndex, Index, N, PushLoad, GrantWrite, SinceLoad, Least
<1>2. ASSUME IInv, NEW r \in Index, NEW n \in Counts, ProductLoad(r, n)
      PROVE p_todo' >= Least(n, p_promise)
  BY <1>2 DEF IInv, TypeOK, RingOrder, CallState, PromiseWithinView, Ahead,
       ReadAvailable, WriteAvailable, Index, N, ProductLoad, GrantWrite, SinceLoad,
       Least, Counts
<1>3. ASSUME IInv, NEW w \in Index, PopLoad(w) PROVE c_todo' >= Least(1, c_promise)
  BY <1>3 DEF IInv, TypeOK, RingOrder, CallState, PromiseWithinView, Ahead,
       ReadAvailable, Index, N, PopLoad, GrantRead, SinceLoad, Least
<1>4. ASSUME IInv, NEW w \in Index, NEW n \in Counts, ConsumeLoad(w, n)
      PROVE c_todo' >= Least(n, c_promise)
  BY <1>4 DEF IInv, TypeOK, RingOrder, CallState, PromiseWithinView, Ahead,
       ReadAvailable, Index, N, ConsumeLoad, GrantRead, SinceLoad, Least, Counts
<1>5. IInv /\ [Next]_vars => [KeepsPromises]_vars
  BY <1>1, <1>2, <1>3, <1>4 DEF KeepsPromises
<1> QED
  BY <1>5, IInvariance, PTL DEF Spec, PromisesKept

-----------------------------------------------------------------------------
(* The abstract queue's contents, as the prover needs them: its length and *)
(* its elements.                                                           *)
LEMMA QueueContents ==
  ASSUME IInv, alive
  PROVE  /\ AbstractQueue \in Seq(Values)
         /\ Len(AbstractQueue) = ReadAvailable(write_index, c_read) - Handed
         /\ \A k \in 1 .. Len(AbstractQueue) :
              AbstractQueue[k] = slot[Wrap(c_read + Handed + k - 1)]
<1> DEFINE n == ReadAvailable(write_index, c_read) - Handed
<1>1. n \in 0 .. MaxSize
  BY DEF IInv, TypeOK, RingOrder, CallState, Ahead, ReadAvailable, Handed, Index, N
<1>2. ASSUME NEW k \in 1 .. n PROVE slot[Wrap(c_read + Handed + k - 1)] \in Values
  BY <1>2 DEF IInv, TypeOK, RingOrder, CallState, SlotsMatchIndices, Ahead,
              ReadAvailable, Handed, Wrap, Index, N
<1>3. AbstractQueue = [k \in 1 .. n |-> slot[Wrap(c_read + Handed + k - 1)]]
  BY DEF AbstractQueue
<1> QED
  BY <1>1, <1>2, <1>3

(* Construct works outside the published part of the ring. *)
LEMMA ConstructIsInternal ==
  ASSUME IInv, NEW v \in Values, Construct(v)
  PROVE  UNCHANGED <<AbstractQueue, out>>
<1>1. ASSUME NEW k \in 1 .. (ReadAvailable(write_index, c_read) - Handed), alive
      PROVE  Wrap(c_read + Handed + k - 1) # p_write
  BY <1>1 DEF IInv, TypeOK, RingOrder, CallState, Ahead, ReadAvailable, Handed,
              Wrap, Index, N, Construct
<1>2. Handed' = Handed /\ UNCHANGED <<alive, c_read, write_index, out>>
  BY DEF Construct, Handed, consumer
<1>3. ASSUME NEW k \in 1 .. (ReadAvailable(write_index, c_read) - Handed), alive
      PROVE  slot'[Wrap(c_read + Handed + k - 1)] = slot[Wrap(c_read + Handed + k - 1)]
  BY <1>1, <1>3 DEF Construct, IInv, TypeOK
<1> QED
  BY <1>2, <1>3 DEF AbstractQueue, ReadAvailable

(* Destroy: the slot was already handed out, so the queue starts after it. *)
LEMMA DestroyIsInternal ==
  ASSUME IInv, Destroy
  PROVE  UNCHANGED <<AbstractQueue, out>>
<1> DEFINE n == ReadAvailable(write_index, c_read) - Handed
<1>1. alive /\ alive' /\ out' = out
  BY DEF IInv, CallState, Destroy
<1>2. Handed = 1 /\ Handed' = 0
  BY DEF Destroy, Handed
<1>3. (ReadAvailable(write_index, c_read) - Handed)' = n
  BY <1>2 DEF IInv, TypeOK, RingOrder, CallState, Ahead, ReadAvailable, NextIndex,
              Index, N, Destroy, producer
<1>4. ASSUME NEW k \in 1 .. n
      PROVE  slot'[Wrap((c_read + Handed)' + k - 1)] = slot[Wrap(c_read + Handed + k - 1)]
  <2>1. Wrap(c_read + Handed + k - 1) \in Index \ {c_read}
    BY <1>2 DEF IInv, TypeOK, RingOrder, CallState, Ahead, ReadAvailable, Wrap, Index, N,
                Destroy
  <2>2. Wrap((c_read + Handed)' + k - 1) = Wrap(c_read + Handed + k - 1)
    BY <1>2 DEF IInv, TypeOK, RingOrder, CallState, Ahead, ReadAvailable, NextIndex, Wrap,
                Index, N, Destroy
  <2> QED
    BY <1>2, <2>1, <2>2 DEF IInv, TypeOK, Destroy, Index, N
<1> QED
  BY <1>1, <1>3, <1>4 DEF AbstractQueue

(* Deliver hands out the head of the abstract queue. *)
LEMMA DeliverTakes ==
  ASSUME IInv, Deliver
  PROVE  Fifo!Take
<1>1. alive /\ alive' /\ Handed = 0 /\ Handed' = 1
  BY DEF IInv, CallState, Deliver, Handed, shared
<1>2. Len(AbstractQueue) = ReadAvailable(write_index, c_read) /\ Len(AbstractQueue) > 0
  BY <1>1, QueueContents DEF IInv, TypeOK, RingOrder, CallState, Ahead, ReadAvailable,
                             Index, N, Deliver
<1>3. AbstractQueue \in Seq(Values) /\ AbstractQueue # <<>>
  BY <1>1, <1>2, QueueContents
<1>4. out' = Head(AbstractQueue)
  <2>1. AbstractQueue[1] = slot[Wrap(c_read)]
    BY <1>1, <1>2, <1>3, QueueContents DEF IInv, TypeOK, Index, N
  <2>2. Wrap(c_read) = c_read
    BY DEF IInv, TypeOK, Wrap, Index, N
  <2> QED
    BY <1>3, <2>1, <2>2 DEF Deliver
<1>5. AbstractQueue' = Tail(AbstractQueue)
  <2> DEFINE n == Len(AbstractQueue) - 1
  <2>1. n \in Nat /\ Len(AbstractQueue) = n + 1
    BY <1>2, <1>3
  <2>2. AbstractQueue' = [k \in 1 .. n |-> slot[Wrap(c_read + 1 + k - 1)]]
    BY <1>1, <1>2 DEF AbstractQueue, Deliver, shared
  <2>3. ASSUME NEW k \in 1 .. n
        PROVE  AbstractQueue'[k] = AbstractQueue[k + 1]
    <3>1. k + 1 \in 1 .. Len(AbstractQueue)
      BY <2>1
    <3>2. AbstractQueue[k + 1] = slot[Wrap(c_read + 0 + (k + 1) - 1)]
      BY <1>1, <3>1, QueueContents
    <3>3. c_read + 0 + (k + 1) - 1 = c_read + 1 + k - 1
      BY DEF IInv, TypeOK, Index
    <3> QED
      BY <2>2, <3>2, <3>3
  <2>4. /\ Tail(AbstractQueue) \in Seq(Values)
        /\ Len(Tail(AbstractQueue)) = n
        /\ \A k \in 1 .. n : Tail(AbstractQueue)[k] = AbstractQueue[k + 1]
    BY <1>3, HeadTailProperties
  <2>5. AbstractQueue' \in Seq(Values) /\ Len(AbstractQueue') = n
    <3>1. ASSUME NEW k \in 1 .. n PROVE AbstractQueue'[k] \in Values
      BY <1>3, <2>1, <2>3
    <3> HIDE DEF n
    <3> QED
      BY <2>1, <2>2, <3>1
  <2> QED
    BY <2>3, <2>4, <2>5, SeqEqual
<1> QED
  BY <1>3, <1>4, <1>5 DEF Fifo!Take

(* Publish appends the batch the call constructed, all of it at once. *)
LEMMA PublishPuts ==
  ASSUME IInv, Publish
  PROVE  Fifo!Put
<1> DEFINE m == ReadAvailable(p_write, write_index)
           n == Len(AbstractQueue)
           batch == [k \in 1 .. m |-> slot[Wrap(write_index + k - 1)]]
<1>1. alive /\ alive' /\ Handed' = Handed /\ c_read' = c_read /\ slot' = slot /\ out' = out
  BY DEF IInv, CallState, Publish, Handed, consumer
<1>2. /\ AbstractQueue \in Seq(Values)
      /\ n = ReadAvailable(write_index, c_read) - Handed
      /\ \A k \in 1 .. n : AbstractQueue[k] = slot[Wrap(c_read + Handed + k - 1)]
  BY <1>1, QueueContents
<1>3. /\ n \in Nat
      /\ m \in 1 .. MaxSize
      /\ n + m <= MaxSize
      /\ ReadAvailable(p_write, c_read) - Handed = n + m
  BY <1>1, <1>2 DEF IInv, TypeOK, RingOrder, CallState, Ahead, ReadAvailable, Handed,
                    Index, N, Publish
<1>4. AbstractQueue' = [k \in 1 .. n + m |-> slot[Wrap(c_read + Handed + k - 1)]]
  <2>1. (ReadAvailable(write_index, c_read) - Handed)' = n + m
    BY <1>1, <1>3 DEF Publish, ReadAvailable
  <2> QED
    BY <1>1, <2>1 DEF AbstractQueue
<1>5. ASSUME NEW k \in 1 .. m PROVE batch[k] \in Values
  <2>1. Wrap(write_index + k - 1) \in Index /\ slot[Wrap(write_index + k - 1)] # Raw
    BY <1>1 DEF IInv, TypeOK, RingOrder, CallState, SlotsMatchIndices, Ahead,
                ReadAvailable, Wrap, Index, N
  <2> QED
    BY <2>1 DEF IInv, TypeOK
<1>6. batch \in [1 .. m -> Values] /\ batch \in Seq(Values) /\ Len(batch) = m
  <2> HIDE DEF m
  <2> QED
    BY <1>3, <1>5
<1>7. batch \in Fifo!Batches(MaxSize)
  BY <1>3, <1>6 DEF Fifo!Batches
<1>8. AbstractQueue' = AbstractQueue \o batch
  <2>1. /\ AbstractQueue \o batch \in Seq(Values)
        /\ Len(AbstractQueue \o batch) = n + m
        /\ \A k \in 1 .. n + m : (AbstractQueue \o batch)[k] =
             IF k <= n THEN AbstractQueue[k] ELSE batch[k - n]
    <3> HIDE DEF batch, m
    <3> QED
      BY <1>2, <1>6, ConcatProperties, ZenonT(60)
  <2>2. ASSUME NEW k \in 1 .. n + m
        PROVE  (AbstractQueue \o batch)[k] = slot[Wrap(c_read + Handed + k - 1)]
    <3>1. CASE k <= n
      BY <1>2, <1>3, <2>1, <3>1
    <3>2. CASE k > n
      <4>1. k - n \in 1 .. m
        BY <1>3, <3>2
      <4>2. Wrap(write_index + (k - n) - 1) = Wrap(c_read + Handed + k - 1)
        BY <1>1, <1>2, <1>3, <3>2
           DEF IInv, TypeOK, RingOrder, CallState, Ahead, ReadAvailable, Handed, Wrap, Index, N
      <4>3. batch[k - n] = slot[Wrap(write_index + (k - n) - 1)]
        <5> HIDE DEF m
        <5> QED
          BY <4>1
      <4>4. (AbstractQueue \o batch)[k] = batch[k - n]
        <5> HIDE DEF batch, m
        <5> QED
          BY <1>3, <2>1, <3>2
      <4> QED
        BY <4>2, <4>3, <4>4
    <3> QED
      BY <1>3, <3>1, <3>2
  <2>3. AbstractQueue' \in Seq(Values) /\ Len(AbstractQueue') = n + m
    <3>1. ASSUME NEW k \in 1 .. n + m
          PROVE  slot[Wrap(c_read + Handed + k - 1)] \in Values
      <4> HIDE DEF batch, m
      <4> QED
        BY <1>3, <2>1, <2>2, SMTT(30)
    <3> HIDE DEF m, n
    <3> QED
      BY <1>3, <1>4, <3>1
  <2>4. ASSUME NEW k \in 1 .. n + m PROVE AbstractQueue'[k] = (AbstractQueue \o batch)[k]
    <3> HIDE DEF batch, m, n
    <3> QED
      BY <1>4, <2>2
  <2> HIDE DEF batch, m
  <2> QED
    BY <2>1, <2>3, <2>4, SeqEqual
<1> HIDE DEF batch, m
<1> QED
  BY <1>1, <1>2, <1>3, <1>6, <1>7, <1>8 DEF Fifo!Put

(* What the loads, the asks and Release leave alone is all that the         *)
(* abstract queue is made of: they are steps inside it.                     *)
LEMMA OthersAreInternal ==
  ASSUME IInv,
         \/ UNCHANGED <<alive, slot, write_index, c_read, c_pc, out>>
         \/ /\ UNCHANGED <<alive, slot, write_index, c_read, out>>
            /\ c_pc \in {"idle", "release"}
            /\ c_pc' \in {"idle", "deliver"}
  PROVE  UNCHANGED <<AbstractQueue, out>>
<1>1. Handed' = Handed /\ UNCHANGED <<alive, slot, write_index, c_read, out>>
  BY DEF Handed
<1> QED
  BY <1>1 DEF AbstractQueue, ReadAvailable

(* The queue implements the bounded FIFO: every step of either thread is a  *)
(* step of the abstract queue or leaves it unchanged.                       *)
THEOREM Refinement == Spec => ImplementsFifo
<1>1. Init => Fifo!Init
  BY DEF Init, Fifo!Init, AbstractQueue, ReadAvailable, Handed
<1>2. IInv /\ [Next]_vars => [Fifo!Next]_Fifo!vars
  <2> SUFFICES ASSUME IInv, [Next]_vars PROVE [Fifo!Next]_Fifo!vars
    OBVIOUS
  <2> USE DEF Fifo!Next, Fifo!vars, shared, producer, consumer
  <2>1. ASSUME NEW r \in Index, PushLoad(r) PROVE [Fifo!Next]_Fifo!vars
    BY <2>1, OthersAreInternal DEF PushLoad, GrantWrite
  <2>2. ASSUME NEW r \in Index, NEW count \in Counts, ProductLoad(r, count)
        PROVE  [Fifo!Next]_Fifo!vars
    BY <2>2, OthersAreInternal DEF ProductLoad, GrantWrite
  <2>3. ASSUME NEW v \in Values, Construct(v) PROVE [Fifo!Next]_Fifo!vars
    BY <2>3, ConstructIsInternal
  <2>4. CASE Publish
    BY <2>4, PublishPuts
  <2>5. ASSUME NEW r \in Index, AskWriteAvailable(r) PROVE [Fifo!Next]_Fifo!vars
    BY <2>5, OthersAreInternal DEF AskWriteAvailable
  <2>6. ASSUME NEW w \in Index, PopLoad(w) PROVE [Fifo!Next]_Fifo!vars
    BY <2>6, OthersAreInternal DEF PopLoad, GrantRead
  <2>7. ASSUME NEW w \in Index, NEW count \in Counts, ConsumeLoad(w, count)
        PROVE  [Fifo!Next]_Fifo!vars
    BY <2>7, OthersAreInternal DEF ConsumeLoad, GrantRead
  <2>8. CASE Deliver
    BY <2>8, DeliverTakes
  <2>9. CASE Destroy
    BY <2>9, DestroyIsInternal
  <2>10. CASE Release
    BY <2>10, OthersAreInternal DEF Release
  <2>11. ASSUME NEW w \in Index, AskReadAvailable(w) PROVE [Fifo!Next]_Fifo!vars
    BY <2>11, OthersAreInternal DEF AskReadAvailable
  <2>12. CASE Destruct
    BY <2>12 DEF Destruct, AbstractQueue, Fifo!Close
  <2>13. CASE UNCHANGED vars
    BY <2>13, OthersAreInternal DEF vars
  <2> QED
    BY <2>1, <2>2, <2>3, <2>4, <2>5, <2>6, <2>7, <2>8, <2>9, <2>10, <2>11, <2>12, <2>13
       DEF Next, Produce, Take
<1> QED
  BY <1>1, <1>2, IInvariance, PTL DEF Spec, ImplementsFifo, Fifo!Spec
=============================================================================
