---------------------------- MODULE BoundedFifo ----------------------------
(***************************************************************************)
(* What a single-producer single-consumer queue promises its two threads:  *)
(* values come out in the order they went in, each once, and the queue     *)
(* never holds more than Capacity of them.  The producer may add a whole   *)
(* batch at once; the consumer is handed one value at a time.              *)
(***************************************************************************)
EXTENDS Naturals, Sequences

CONSTANTS
  Capacity,   \* how many values the queue may hold
  Values,     \* the values that pass through it
  NoValue     \* nothing has been handed to the consumer yet

VARIABLES
  queue,      \* the values published and not yet handed out, oldest first
  out         \* the value last handed to the consumer

vars == <<queue, out>>

(* The nonempty sequences of at most n values. *)
Batches(n) == UNION {[1..k -> Values] : k \in 1..n}

Init ==
  /\ queue = <<>>
  /\ out = NoValue

(* The producer's batch becomes visible all at once. *)
Put ==
  \E batch \in Batches(Capacity) :
    /\ Len(queue) + Len(batch) <= Capacity
    /\ queue' = queue \o batch
    /\ UNCHANGED out

(* The consumer is handed the oldest value. *)
Take ==
  /\ queue # <<>>
  /\ out' = Head(queue)
  /\ queue' = Tail(queue)

(* The queue is destroyed with whatever is left in it. *)
Close ==
  /\ queue' = <<>>
  /\ UNCHANGED out

Next == Put \/ Take \/ Close

Spec == Init /\ [][Next]_vars
=============================================================================
