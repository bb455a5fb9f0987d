---------------------------- MODULE TimerManager ----------------------------
(***************************************************************************)
(* The hierarchical timer wheel of src/timer_manager.cpp: SetTimer,        *)
(* DelTimer, Update with its cascade, and the callbacks Update runs, which *)
(* may call the manager again.                                             *)
(*                                                                         *)
(* The manager is single-threaded.  What is interleaved is the client: at  *)
(* top level, and inside every callback, it may set and delete timers and  *)
(* call Update.  stack holds one frame per Update in progress, so that a   *)
(* nested Update is an ordinary step.                                      *)
(***************************************************************************)
EXTENDS Integers, LinkedList, SequencesExt

CONSTANTS
  Size,        \* TIMER_WHEEL_SIZE: the slots of each wheel, finest first
  Span,        \* 2^TIMER_WHEEL_OFFSET: the ticks a slot of each wheel spans
  IdMod,       \* 2^TIMER_ID_COUNT_BIT: the reuse counts an id can hold
  StartTimes,  \* arguments of Init
  Delays, Intervals,            \* arguments of SetTimer at top level
  CallbackDelays, CallbackIntervals,  \* ... and from inside a callback
  Jumps,       \* how far Update's argument may be ahead of cur_time_
  MaxTime,     \* bound: the latest time Update is called with
  MaxNodes,    \* bound: the length of node_list_
  MaxDepth,    \* bound: Updates nested in callbacks
  StrayTime    \* bound: the same, once the client has strayed

(* A wheel turns once in the span of a slot of the next.  In the code both   *)
(* are powers of two, so that its shifts and masks are \div and %.           *)
ASSUME WheelsAssumption ==
  /\ Size \in Seq(Nat \ {0, 1}) /\ Len(Size) > 1
  /\ Span \in Seq(Nat \ {0}) /\ Len(Span) = Len(Size)
  /\ Span[1] = 1
  /\ \A i \in 1 .. Len(Size) - 1 : Span[i + 1] = Size[i] * Span[i]
ASSUME BoundsAssumption ==
  /\ IdMod \in Nat \ {0, 1}
  /\ MaxNodes \in Nat /\ MaxDepth \in Nat /\ MaxTime \in Nat /\ StrayTime \in Nat
  /\ StartTimes \cup Jumps \subseteq Nat
  /\ Delays \cup Intervals \cup CallbackDelays \cup CallbackIntervals \subseteq Nat

VARIABLES
  up,          \* between Init and Uninit
  cur_time,    \* cur_time_: the next tick to be run
  next_time,   \* next_time_: the tick Update stops at
  node,        \* node_list_: the TimerNodes, by index
  free_list,   \* free_list_: indices of unused nodes, front first
  wheel,       \* wheel_list_: a list of node indices per slot
  stack,       \* the Updates in progress, innermost last
  strayed      \* not in the code: a callback has called Update, or set a timer
               \* after deleting its own

vars == <<up, cur_time, next_time, node, free_list, wheel, stack, strayed>>

-----------------------------------------------------------------------------
(* The wheels. *)

Levels == 1 .. Len(Size)

(* The slot of wheel i that time t falls in: (t >> OFFSET[i]) & MASK[i]. *)
SlotAt(i, t) == <<i, (t \div Span[i]) % Size[i]>>

Slots == UNION {{i} \X (0 .. Size[i] - 1) : i \in Levels}

(* Mutant: a delay of exactly a wheel's span is put in that wheel. *)
CoveringOneTooFar(delay) == {i \in Levels : delay \div Span[i] <= Size[i]}

(* The wheels whose span covers a delay. *)
Covering(delay) == {i \in Levels : delay \div Span[i] < Size[i]}

(* Where InsertTimerNodeToWheel puts a timer that expires at e: now if it is *)
(* overdue, else in the finest wheel that reaches e, else in the slot of the *)
(* coarsest wheel that comes up last.                                        *)
Place(e) ==
  CASE e <= cur_time -> SlotAt(1, cur_time)
    [] e > cur_time /\ Covering(e - cur_time) # {} -> SlotAt(Min(Covering(e - cur_time)), e)
    [] OTHER -> LET i == Len(Size)
                IN SlotAt(i, cur_time + (Size[i] - 1) * Span[i])

(* list_link.Erase() takes a node out of whatever list it is in. *)
Erase(w, n) == [s \in Slots |-> Unlinked(w[s], {n})]

InsertTimerNodeToWheel(w, n, e) == [Erase(w, n) EXCEPT ![Place(e)] = Append(@, n)]

Later(a, b) == IF a >= b THEN a ELSE b

-----------------------------------------------------------------------------
(* A TimerNode.  due is no part of the code: it is the tick at which the   *)
(* timer's next callback was promised when it was set or re-armed.         *)
TimerNode ==
  [count : 0 .. IdMod - 1, expire_time : Int, interval : Nat, is_using : BOOLEAN, due : Int]

(* A frame of Update: where it is, the wheel being cascaded or the slot    *)
(* being drained, and the node whose callback runs, with its id count.     *)
Frame(at, place, n, c) == [at |-> at, place |-> place, node |-> n, count |-> c]

Top == Last(stack)

Become(f) == stack' = [stack EXCEPT ![Len(stack)] = f]

At(where) == stack # <<>> /\ Top.at = where

(* The client runs at top level or in the innermost callback. *)
ClientRuns == up /\ (stack = <<>> \/ At("callback"))

InCallback == stack # <<>>

-----------------------------------------------------------------------------
Init ==
  /\ up = TRUE
  /\ cur_time \in {t + 1 : t \in StartTimes}
  /\ next_time = cur_time
  /\ node = <<>>
  /\ free_list = <<>>
  /\ wheel = [s \in Slots |-> <<>>]
  /\ stack = <<>>
  /\ strayed = FALSE

(* Uninit, then Init again: every node is deleted. *)
Uninit ==
  /\ up
  /\ stack = <<>>
  /\ up' = FALSE
  /\ node' = <<>>
  /\ free_list' = <<>>
  /\ wheel' = [s \in Slots |-> <<>>]
  /\ strayed' = FALSE
  /\ UNCHANGED <<cur_time, next_time, stack>>

InitAgain(t) ==
  /\ ~up
  /\ up' = TRUE
  /\ cur_time' = t + 1
  /\ next_time' = t + 1
  /\ UNCHANGED <<node, free_list, wheel, stack, strayed>>

-----------------------------------------------------------------------------
(* The callback that runs has deleted its own timer. *)
DeletedItself == InCallback /\ ~node[Top.node].is_using

(* The reuse count in the id of a node taken from the free list wraps. *)
NextCount(c) == (c + 1) % IdMod

(* The node SetTimer takes: the front of the free list, or a new one. *)
TakenNode == IF free_list # <<>> THEN Head(free_list) ELSE Len(node) + 1

Armed(c, delay, interval) ==
  [count |-> c, expire_time |-> cur_time + delay - 1, interval |-> interval,
   is_using |-> TRUE, due |-> Later(cur_time + delay - 1, cur_time)]

SetTimer(delay, interval) ==
  /\ ClientRuns
  /\ \/ /\ free_list # <<>>
        /\ node' = [node EXCEPT ![TakenNode] = Armed(NextCount(@.count), delay, interval)]
        /\ free_list' = Tail(free_list)
     \/ /\ free_list = <<>>
        /\ Len(node) < MaxNodes
        /\ node' = Append(node, Armed(0, delay, interval))
        /\ UNCHANGED free_list
  /\ wheel' = InsertTimerNodeToWheel(wheel, TakenNode, cur_time + delay - 1)
  /\ strayed' = (strayed \/ DeletedItself)
  /\ UNCHANGED <<up, cur_time, next_time, stack>>

(* Mutant: the node is not unlinked from its wheel. *)
MoveTimerNodeStillLinked(n) ==
  /\ node' = [node EXCEPT ![n] = [count |-> @.count, expire_time |-> 0, interval |-> 0,
                                  is_using |-> FALSE, due |-> 0]]
  /\ free_list' = Append(free_list, n)
  /\ UNCHANGED wheel

(* The node goes to the back of the free list, its id count kept. *)
MoveTimerNodeToFreeList(n) ==
  /\ node' = [node EXCEPT ![n] = [count |-> @.count, expire_time |-> 0, interval |-> 0,
                                  is_using |-> FALSE, due |-> 0]]
  /\ wheel' = Erase(wheel, n)
  /\ free_list' = Append(free_list, n)

(* FindUsingTimerNode: the node an id names, if that timer is in use. *)
Found(n, c) == n \in DOMAIN node /\ node[n].count = c /\ node[n].is_using

DelTimer(n, c) ==
  /\ ClientRuns
  /\ Found(n, c)
  /\ MoveTimerNodeToFreeList(n)
  /\ UNCHANGED <<up, cur_time, next_time, stack, strayed>>

-----------------------------------------------------------------------------
(* Update. *)

(* A call that has something to do: cur_time is not before cur_time_. *)
Update(t) ==
  /\ ClientRuns
  /\ t >= cur_time
  /\ Len(stack) < MaxDepth
  /\ next_time' = t + 1
  /\ stack' = Append(stack, Frame("tick", 0, 0, 0))
  /\ strayed' = (strayed \/ InCallback)
  /\ UNCHANGED <<up, cur_time, node, free_list, wheel>>

(* Mutants: the clock moves before the slot is taken, or not at all. *)
StartDrainAfterClock ==
  /\ Become(Frame("drain", SlotAt(1, cur_time + 1), 0, 0))
  /\ cur_time' = cur_time + 1

StartDrainClockStands ==
  /\ Become(Frame("drain", SlotAt(1, cur_time), 0, 0))
  /\ UNCHANGED cur_time

(* The slot of the tick is fixed and the clock moves on to the next tick. *)
StartDrain ==
  /\ Become(Frame("drain", SlotAt(1, cur_time), 0, 0))
  /\ cur_time' = cur_time + 1

(* The loop head: the finest wheel has turned once, so cascade first; or   *)
(* drain the tick's slot; or return.                                       *)
Tick ==
  /\ At("tick")
  /\ \/ /\ cur_time < next_time
        /\ cur_time % Size[1] = 0
        /\ Become(Frame("cascade", 2, 0, 0))
        /\ UNCHANGED cur_time
     \/ /\ cur_time < next_time
        /\ cur_time % Size[1] # 0
        /\ StartDrain
     \/ /\ cur_time >= next_time
        /\ stack' = Front(stack)
        /\ UNCHANGED cur_time
  /\ UNCHANGED <<up, next_time, node, free_list, wheel, strayed>>

(* TimerWheelCascade, one node at a time: the slot of wheel i that comes up *)
(* is emptied into finer slots; if it is slot 0, wheel i + 1 follows.       *)
Cascade ==
  /\ At("cascade")
  /\ LET i == Top.place IN
     \/ /\ i \in Levels
        /\ LET s == SlotAt(i, cur_time) IN
           \/ /\ wheel[s] # <<>>
              /\ LET n == Head(wheel[s]) IN
                 wheel' = InsertTimerNodeToWheel(wheel, n, node[n].expire_time)
              /\ UNCHANGED <<cur_time, stack>>
           \/ /\ wheel[s] = <<>>
              /\ IF s[2] = 0
                 THEN Become(Frame("cascade", i + 1, 0, 0)) /\ UNCHANGED cur_time
                 ELSE StartDrain
              /\ UNCHANGED wheel
     \/ /\ i \notin Levels
        /\ StartDrain
        /\ UNCHANGED wheel
  /\ UNCHANGED <<up, next_time, node, free_list, strayed>>

(* The front of the slot is popped and its callback called. *)
Fire ==
  /\ At("drain")
  /\ wheel[Top.place] # <<>>
  /\ LET n == Head(wheel[Top.place]) IN
     /\ wheel' = Erase(wheel, n)
     /\ Become(Frame("callback", Top.place, n, node[n].count))
  /\ UNCHANGED <<up, cur_time, next_time, node, free_list, strayed>>

(* The slot is empty: the tick is over. *)
DrainDone ==
  /\ At("drain")
  /\ wheel[Top.place] = <<>>
  /\ Become(Frame("tick", 0, 0, 0))
  /\ UNCHANGED <<up, cur_time, next_time, node, free_list, wheel, strayed>>

(* Mutant: whether the callback deleted the timer is not looked at. *)
CallbackReturnsUnchecked ==
  /\ At("callback")
  /\ MoveTimerNodeToFreeList(Top.node)
  /\ Become(Frame("drain", Top.place, 0, 0))
  /\ UNCHANGED <<up, cur_time, next_time, strayed>>

(* The callback is back.  A node no longer in use was deleted meanwhile; a *)
(* periodic one is re-armed from the current tick; any other is freed.     *)
CallbackReturns ==
  /\ At("callback")
  /\ LET n == Top.node
         e == cur_time + node[n].interval
     IN \/ /\ ~node[n].is_using
           /\ UNCHANGED <<node, free_list, wheel>>
        \/ /\ node[n].is_using
           /\ node[n].interval > 0
           /\ node' = [node EXCEPT ![n].expire_time = e,
                                   ![n].due = IF node[n].count = Top.count THEN e ELSE @]
           /\ wheel' = InsertTimerNodeToWheel(wheel, n, e)
           /\ UNCHANGED free_list
        \/ /\ node[n].is_using
           /\ node[n].interval = 0
           /\ MoveTimerNodeToFreeList(n)
  /\ Become(Frame("drain", Top.place, 0, 0))
  /\ UNCHANGED <<up, cur_time, next_time, strayed>>

-----------------------------------------------------------------------------
Client ==
  \/ \E d \in Delays, i \in Intervals : ~InCallback /\ SetTimer(d, i)
  \/ \E d \in CallbackDelays, i \in CallbackIntervals : InCallback /\ SetTimer(d, i)
  \/ \E n \in 1 .. MaxNodes, c \in 0 .. IdMod - 1 : DelTimer(n, c)
  \/ \E j \in Jumps :
       /\ cur_time + j <= IF strayed \/ InCallback THEN StrayTime ELSE MaxTime
       /\ Update(cur_time + j)
  \/ Uninit
  \/ \E t \in StartTimes : InitAgain(t)

RunUpdate == Tick \/ Cascade \/ Fire \/ DrainDone \/ CallbackReturns

Next == Client \/ RunUpdate

Spec == Init /\ [][Next]_vars

(* Update runs to its end and a callback returns; nobody has to call it. *)
FairSpec == Spec /\ WF_vars(RunUpdate)

-----------------------------------------------------------------------------
Lists == {free_list} \cup {wheel[s] : s \in Slots}

(* The intrusive lists stay consistent whatever the callbacks do, nested    *)
(* Updates and reuse of their own node included: every node is linked at    *)
(* most once, the free list holds exactly the nodes not in use, and a node  *)
(* in use is in a wheel unless its own callback is running (Update lines    *)
(* 234-250 against DelTimer and SetTimer).                                  *)
EachNodeOnce ==
  /\ \A l \in Lists : IsInjective(l)
  /\ \A n \in DOMAIN node :
       /\ Cardinality({s \in Slots : Contains(wheel[s], n)}) <= 1
       /\ Contains(free_list, n) <=> ~node[n].is_using
       /\ Contains(free_list, n) => \A s \in Slots : ~Contains(wheel[s], n)
       /\ \/ \E l \in Lists : Contains(l, n)
          \/ \E k \in DOMAIN stack : stack[k].at = "callback" /\ stack[k].node = n

(* A timer's callback runs in the tick it was promised for: never early,    *)
(* never late, through every cascade and with every delay and interval.     *)
(* This and the properties below are promised to a client that has not      *)
(* strayed.                                                                 *)
FiresWhenDue == [][ Fire /\ ~strayed => node[Head(wheel[Top.place])].due = cur_time - 1 ]_vars

(* When no Update is in progress nothing that was due is still waiting.     *)
NothingOverdue ==
  up /\ stack = <<>> /\ ~strayed =>
    \A n \in DOMAIN node : node[n].is_using => node[n].due >= cur_time

(* A timer stays armed, under its id, until it is deleted by that id or its *)
(* own callback has run: no other timer's callback, no cascade and no reuse *)
(* of its node takes it away.                                               *)
DisarmsOnlyItsOwn ==
  \A n \in DOMAIN node :
    node[n].is_using =>
      \/ n \in DOMAIN node' /\ node'[n].is_using /\ node'[n].count = node[n].count
      \/ DelTimer(n, node[n].count)
      \/ CallbackReturns /\ Top.node = n /\ Top.count = node[n].count
      \/ Uninit

ArmedUntilDone == [][~strayed => DisarmsOnlyItsOwn]_vars

(* Liveness: Update returns, whatever timers its callbacks set and delete.  *)
UpdateReturns == (stack # <<>>) ~> (stack = <<>> \/ strayed)
=============================================================================
