---------------------------- MODULE EventManager ----------------------------
(***************************************************************************)
(* Event and EventManager of include/mzx/event.h, with the reference       *)
(* counted list node of data_structure/list_safe_node.h that lets a        *)
(* listener remove any listener, itself included, while Invoke is walking  *)
(* the list.                                                               *)
(*                                                                         *)
(* Everything runs in one thread.  The interleaving is re-entrancy: inside *)
(* a listener the client may add and remove listeners and events and       *)
(* invoke again, so stack holds one frame per Invoke in progress.          *)
(*                                                                         *)
(* Memory is explicit.  Listener nodes, listener infos and Event objects   *)
(* come from finite pools, and what has been freed is handed out again.    *)
(***************************************************************************)
EXTENDS LinkedList, SequencesExt

CONSTANTS
  Types,        \* the event types, EventManager's keys
  Events,       \* addresses of Event objects
  Nodes,        \* addresses of ListenerNodes
  Infos,        \* addresses of ListenerInfos, each holding one closure
  Identifiers,  \* caller-chosen identifiers of listeners
  None,         \* no event, no info, the end of a list
  MaxDepth      \* bound: Invokes nested in listeners

ASSUME DepthAssumption == MaxDepth \in Nat
ASSUME NoneAssumption ==
  /\ None \notin Types \cup Events \cup Nodes \cup Infos \cup Identifiers
  /\ Infos \cap Identifiers = {}

VARIABLES
  event_list,   \* EventManager::event_list_: the Event of each type, or None
  list,         \* Event::listener_list_ of each Event: its nodes, in order
  index,        \* Event::listener_index_ of each Event: pairs of id and node
  node,         \* the ListenerNodes: raw_data_ (None once detached), id, ref_count_
  stack         \* the Invokes in progress, innermost last

vars == <<event_list, list, index, node, stack>>

Ids == Identifiers \cup Infos

ListenerNode == [info : Infos \cup {None}, id : Ids \cup {None}, ref : Nat]

Freed == [info |-> None, id |-> None, ref |-> 0]

(* An Invoke: the shared_ptr to its Event, the node it stands at, whether it *)
(* is about to visit that node or is inside its listener or has to leave it. *)
(* owed and seen are no part of the code: the listeners that were attached   *)
(* when the Invoke began and are still, and those it has called.             *)
Frame(e, n, where, owed, seen) ==
  [event |-> e, node |-> n, at |-> where, owed |-> owed, seen |-> seen]

Top == Last(stack)

Become(f) == stack' = [stack EXCEPT ![Len(stack)] = f]

At(where) == stack # <<>> /\ Top.at = where

(* The client runs at top level or in the innermost listener. *)
ClientRuns == stack = <<>> \/ At("call")

(* An Event lives while the manager or an Invoke in progress holds it. *)
EventAlive(e) ==
  \/ \E t \in Types : event_list[t] = e
  \/ \E k \in DOMAIN stack : stack[k].event = e

Attached(n) == node[n].info # None

-----------------------------------------------------------------------------
Init ==
  /\ event_list = [t \in Types |-> None]
  /\ list = [e \in Events |-> <<>>]
  /\ index = [e \in Events |-> {}]
  /\ node = [n \in Nodes |-> Freed]
  /\ stack = <<>>

-----------------------------------------------------------------------------
IdWithoutDefault(identifier, i) == identifier   \* Mutant: no default id.

(* Without an identifier the id is the address of the info. *)
IdOf(identifier, i) == IF identifier = None THEN i ELSE identifier

(* AddListener: a new info and a new node at the end of the type's list, the *)
(* Event made first if the type has none.                                    *)
AddListener(t, identifier) ==
  /\ ClientRuns
  /\ \E e \in Events, n \in Nodes, i \in Infos :
       LET id == IdOf(identifier, i) IN
       /\ IF event_list[t] = None THEN ~EventAlive(e) ELSE event_list[t] = e
       /\ node[n].ref = 0
       /\ \A m \in Nodes : node[m].info # i
       /\ event_list' = [event_list EXCEPT ![t] = e]
       /\ node' = [node EXCEPT ![n] = [info |-> i, id |-> id, ref |-> 1]]
       /\ list' = [list EXCEPT ![e] = Append(@, n)]
       /\ index' = [index EXCEPT ![e] = @ \cup {<<id, n>>}]
  /\ UNCHANGED stack

DereferencedNever(r) == r   \* Mutant: DecrRef does nothing.

(* DecrRef(): a node with no reference left deletes itself. *)
Dereferenced(r) == IF r.ref = 1 THEN Freed ELSE [r EXCEPT !.ref = @ - 1]

(* Detach() of every node in S: the info is deleted and the list's own      *)
(* reference dropped.  A node with no reference left deletes itself, which  *)
(* unlinks it; a node some Invoke stands at stays linked until it leaves.   *)
Detach(S) ==
  /\ node' = [n \in Nodes |->
                IF n \in S /\ Attached(n)
                THEN Dereferenced([node[n] EXCEPT !.info = None])
                ELSE node[n]]
  /\ list' = [e \in Events |-> Unlinked(list[e], {n \in Nodes : node'[n].ref = 0})]
  /\ stack' = [k \in DOMAIN stack |->
                [stack[k] EXCEPT !.owed = @ \ S, !.seen = @ \ S]]

(* Mutant: the listener stays in the index. *)
RemoveListenerKeepsIndex(t, id) ==
  /\ ClientRuns
  /\ event_list[t] # None
  /\ Detach({n \in Nodes : <<id, n>> \in index[event_list[t]]})
  /\ UNCHANGED <<event_list, index>>

(* Every listener of the type that bears the id is detached. *)
RemoveListener(t, id) ==
  /\ ClientRuns
  /\ event_list[t] # None
  /\ LET e == event_list[t]
         S == {n \in Nodes : <<id, n>> \in index[e]}
     IN /\ Detach(S)
        /\ index' = [index EXCEPT ![e] = @ \ ({id} \X S)]
  /\ UNCHANGED event_list

(* The Events of the types in T lose all their listeners and the manager.   *)
RemoveEvents(T) ==
  LET E == {event_list[t] : t \in T} \ {None} IN
  /\ Detach(UNION {ToSet(list[e]) : e \in E})
  /\ index' = [e \in Events |-> IF e \in E THEN {} ELSE index[e]]
  /\ event_list' = [t \in Types |-> IF t \in T THEN None ELSE event_list[t]]

RemoveEvent(t) == ClientRuns /\ event_list[t] # None /\ RemoveEvents({t})

RemoveAllEvent == ClientRuns /\ RemoveEvents(Types)

-----------------------------------------------------------------------------
(* Invoke. *)

Invoke(t) ==
  /\ ClientRuns
  /\ event_list[t] # None
  /\ Len(stack) < MaxDepth
  /\ LET e == event_list[t] IN
     stack' = Append(stack, Frame(e, FirstOf(list[e], None), "visit",
                                  {n \in ToSet(list[e]) : Attached(n)}, {}))
  /\ UNCHANGED <<event_list, list, index, node>>

(* Mutants: no reference is taken; Get() is not tested. *)
VisitUnreferenced ==
  /\ At("visit")
  /\ Top.node # None
  /\ IF Attached(Top.node)
     THEN Become([Top EXCEPT !.at = "call", !.seen = @ \cup {Top.node}])
     ELSE Become([Top EXCEPT !.at = "leave"])
  /\ UNCHANGED <<event_list, list, index, node>>

VisitUntested ==
  /\ At("visit")
  /\ Top.node # None
  /\ node' = [node EXCEPT ![Top.node].ref = @ + 1]
  /\ Become([Top EXCEPT !.at = "call", !.seen = @ \cup {Top.node}])
  /\ UNCHANGED <<event_list, list, index>>

(* The node is referenced, and its listener called if it is still attached. *)
Visit ==
  /\ At("visit")
  /\ Top.node # None
  /\ node' = [node EXCEPT ![Top.node].ref = @ + 1]
  /\ IF Attached(Top.node)
     THEN Become([Top EXCEPT !.at = "call", !.seen = @ \cup {Top.node}])
     ELSE Become([Top EXCEPT !.at = "leave"])
  /\ UNCHANGED <<event_list, list, index>>

ListenerReturns ==
  /\ At("call")
  /\ Become([Top EXCEPT !.at = "leave"])
  /\ UNCHANGED <<event_list, list, index, node>>

(* On to the next node; the reference to this one goes, and perhaps the     *)
(* node with it.                                                            *)
Leave ==
  /\ At("leave")
  /\ LET n == Top.node
         e == Top.event
     IN /\ Become([Top EXCEPT !.node = NextOf(list[e], n, None), !.at = "visit"])
        /\ node' = [node EXCEPT ![n] = Dereferenced(@)]
        /\ list' = [list EXCEPT ![e] = IF node'[n].ref = 0 THEN Unlinked(@, {n}) ELSE @]
  /\ UNCHANGED <<event_list, index>>

(* The end of the list: Invoke drops its shared_ptr and returns.  If it was *)
(* the last, ~Event removes whatever listeners are left.                    *)
InvokeReturns ==
  /\ At("visit")
  /\ Top.node = None
  /\ LET e == Top.event IN
     IF \/ \E t \in Types : event_list[t] = e
        \/ \E k \in 1 .. Len(stack) - 1 : stack[k].event = e
     THEN UNCHANGED <<list, index, node>>
     ELSE /\ node' = [n \in Nodes |-> IF Contains(list[e], n) THEN Freed ELSE node[n]]
          /\ list' = [list EXCEPT ![e] = <<>>]
          /\ index' = [index EXCEPT ![e] = {}]
  /\ stack' = Front(stack)
  /\ UNCHANGED event_list

-----------------------------------------------------------------------------
Client ==
  \/ \E t \in Types, identifier \in Identifiers \cup {None} : AddListener(t, identifier)
  \/ \E t \in Types, id \in Ids : RemoveListener(t, id)
  \/ \E t \in Types : RemoveEvent(t)
  \/ RemoveAllEvent
  \/ \E t \in Types : Invoke(t)

RunInvoke == Visit \/ ListenerReturns \/ Leave \/ InvokeReturns

Next == Client \/ RunInvoke

Spec == Init /\ [][Next]_vars


-----------------------------------------------------------------------------
TypeOK ==
  /\ event_list \in [Types -> Events \cup {None}]
  /\ list \in [Events -> Seq(Nodes)]
  /\ index \in [Events -> SUBSET (Ids \X Nodes)]
  /\ node \in [Nodes -> ListenerNode]
  /\ Len(stack) <= MaxDepth

(* The Invokes that hold a reference to node n. *)
Holders(n) == {k \in DOMAIN stack : stack[k].at \in {"call", "leave"} /\ stack[k].node = n}

(* ref_count_ is exact: one for the list while the listener is attached and *)
(* one for every Invoke standing at the node.  So no node is freed under an *)
(* Invoke and none is kept for ever (list_safe_node.h:29-51).               *)
RefCountExact ==
  \A n \in Nodes : node[n].ref = Cardinality(Holders(n)) + (IF Attached(n) THEN 1 ELSE 0)

(* Every node alive is linked in the list of one Event that is alive, and   *)
(* the index of that Event holds it exactly while it is attached: a removed *)
(* listener cannot be found again, an attached one always can, and the ids  *)
(* and the lists of two Events never mix.                                   *)
IndexMatchesLists ==
  /\ \A n \in Nodes : node[n].ref > 0 <=> \E e \in Events : Contains(list[e], n)
  /\ \A e \in Events :
       /\ IsInjective(list[e])
       /\ index[e] = {<<node[n].id, n>> : n \in {m \in ToSet(list[e]) : Attached(m)}}
       /\ list[e] # <<>> => EventAlive(e)
  /\ \A e, f \in Events : e # f => ToSet(list[e]) \cap ToSet(list[f]) = {}

(* Where an Invoke stands is always a linked node of its own Event, however *)
(* many listeners, Events and nested Invokes came and went meanwhile.       *)
NoDanglingNode ==
  \A k \in DOMAIN stack :
    stack[k].node # None => Contains(list[stack[k].event], stack[k].node)

(* An Invoke that has reached the end has called every listener that was    *)
(* attached all the while.                                                  *)
NobodySkipped ==
  \A k \in DOMAIN stack : stack[k].node = None => stack[k].owed \subseteq stack[k].seen

(* An Invoke calls no listener a second time and never a removed one.       *)
CallsOnlyOnce ==
  [][ Visit /\ Top'.at = "call" =>
        Attached(Top.node) /\ Top.node \notin Top.seen ]_vars

(* What test/test_event.cpp:28-31 relies on: a running listener can still   *)
(* use its captures after it has removed itself.                            *)
ClosureOutlivesCall ==
  \A k \in DOMAIN stack : stack[k].at = "call" => Attached(stack[k].node)
=============================================================================
