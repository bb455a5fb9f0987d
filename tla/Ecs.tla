-------------------------------- MODULE Ecs --------------------------------
(***************************************************************************)
(* EntityManager, Entity and Component of ecs.h and ecs.cpp.               *)
(*                                                                         *)
(* Everything runs in one thread.  Each operation that fires one of the    *)
(* four events, or calls back for each entity or component, is cut at that *)
(* point: there the client runs and may call any operation again.  stack   *)
(* holds one frame for every operation in progress.  How an event finds    *)
(* its listeners is module EventManager's matter.                          *)
(*                                                                         *)
(* Memory is explicit: entities, their list nodes and components come from *)
(* finite pools, and what has been freed is handed out again.              *)
(***************************************************************************)
EXTENDS LinkedList, SequencesExt

CONSTANTS
  Entities,    \* addresses of Entity objects, which are also their ids
  Nodes,       \* addresses of EntityNodes
  Components,  \* addresses of Component objects
  ClassCount,  \* ComponentBase::ClassIndexCount()
  None,        \* the null pointer, and the end of a list
  MaxDepth     \* bound: operations in progress at a time

ASSUME ClassAssumption == ClassCount \in Nat
ASSUME DepthAssumption == MaxDepth \in Nat
ASSUME NoneAssumption == None \notin Entities \cup Nodes \cup Components

VARIABLES
  live,            \* the Entity objects allocated
  component_list,  \* Entity::component_list_ of each entity
  class,           \* ClassIndex() of the components allocated, 0 for the others
  owned,           \* the components the client owns since it detached them
  entities,        \* EntityManager::entities_: the node of each id, or None
  entity_list,     \* EntityManager::entity_list_: the nodes, in order
  node,            \* the EntityNodes: raw_data_ (None once detached), ref_count_
  stack            \* the operations in progress, innermost last

memory == <<live, component_list, class, owned>>
registry == <<entities, entity_list, node>>
vars == <<memory, registry, stack>>

Classes == 1 .. ClassCount

NoComponents == [k \in Classes |-> None]

(* A frame: the operation; the entity, node or component it holds on to; how *)
(* far it got in component_list_; what it does next ("client" when a         *)
(* listener or callback runs).  owed, seen and late are no part of the code: *)
(* the nodes a ForeachEntity owes a call and those it has called; the        *)
(* components added to an entity after its removal began.                    *)
Frame(op, e, n, c) ==
  [op |-> op, e |-> e, n |-> n, c |-> c, i |-> 1, at |-> "client",
   owed |-> {}, seen |-> {}, late |-> {}]

Top == Last(stack)

In(op, at) == stack # <<>> /\ Top.op = op /\ Top.at = at

ClientRuns == stack = <<>> \/ (stack # <<>> /\ Top.at = "client")

Push(f) == Len(stack) < MaxDepth /\ stack' = Append(stack, f)

Become(f) == stack' = [stack EXCEPT ![Len(stack)] = f]

Return == stack' = Front(stack)

Registered(e) == entities[e] # None

(* An operation on e that reads its component_list_ after the client ran.    *)
InUse(e) ==
  \E k \in DOMAIN stack :
    /\ stack[k].op \in {"AddComponent", "RemoveAllComponent", "ForeachComponent"}
    /\ stack[k].e = e

Destructing(e) == \E k \in DOMAIN stack : stack[k].e = e /\ stack[k].at = "delete"

-----------------------------------------------------------------------------
Init ==
  /\ live = {}
  /\ component_list = [e \in Entities |-> NoComponents]
  /\ class = [c \in Components |-> 0]
  /\ owned = {}
  /\ entities = [e \in Entities |-> None]
  /\ entity_list = <<>>
  /\ node = [n \in Nodes |-> [entity |-> None, ref |-> 0]]
  /\ stack = <<>>

-----------------------------------------------------------------------------
(* List nodes: IncrRef, DecrRef, Detach. *)

Referenced(r) == [r EXCEPT !.ref = @ + 1]

DereferencedNever(r) == r   \* Mutant: DecrRef does nothing.

Dereferenced(r) == [r EXCEPT !.ref = @ - 1]

Detached(r) == Dereferenced([r EXCEPT !.entity = None])

(* The node n becomes r; without a reference left it unlinks itself. *)
Store(n, r) ==
  /\ node' = [node EXCEPT ![n] = r]
  /\ entity_list' = IF r.ref = 0 THEN Unlinked(entity_list, {n}) ELSE entity_list

(* Some ForeachEntity no longer owes node n a call. *)
Unowed(s, n) ==
  [k \in DOMAIN s |-> [s[k] EXCEPT !.owed = @ \ {n}, !.seen = @ \ {n}]]

FirstNode == FirstOf(entity_list, None)

(* node->Next(), None for End(). *)
NextNode(n) == NextOf(entity_list, n, None)

-----------------------------------------------------------------------------
(* Components. *)

(* Mutant: the class index counts from one. *)
AllocateClassOneUp(c, k) == class' = [class EXCEPT ![c] = k + 1]

(* A new component of class k at address c. *)
AllocateClass(c, k) == class' = [class EXCEPT ![c] = k]

(* The component goes into its place, and component_add_event_ is fired. *)
OnAddComponent(e, c, k) ==
  /\ ClientRuns
  /\ e \in live /\ ~Destructing(e)
  /\ component_list[e][k] = None
  /\ component_list' = [component_list EXCEPT ![e][k] = c]
  /\ Len(stack) < MaxDepth
  /\ stack' = Append([j \in DOMAIN stack |->
                        IF stack[j].op = "Remove" /\ stack[j].e = e
                        THEN [stack[j] EXCEPT !.late = @ \cup {c}] ELSE stack[j]],
                     Frame("AddComponent", e, None, c))

AddComponent(e, k) ==
  /\ \E c \in Components :
       class[c] = 0 /\ AllocateClass(c, k) /\ OnAddComponent(e, c, k)
  /\ UNCHANGED <<live, owned, registry>>

CopyComponent(e, image) == class[image] # 0 /\ AddComponent(e, class[image])

AttachComponent(e, c) ==
  /\ c \in owned
  /\ OnAddComponent(e, c, class[c])
  /\ owned' = owned \ {c}
  /\ UNCHANGED <<live, class, registry>>

(* component_list_ is read once more for the result: e must still be there. *)
AddComponentReturns ==
  /\ In("AddComponent", "client")
  /\ Return
  /\ UNCHANGED <<memory, registry>>

(* RemoveComponent, DetachComponent: the component leaves its place, and     *)
(* component_remove_event_ is fired.                                         *)
TakeComponent(op, e, k) ==
  /\ ClientRuns
  /\ e \in live
  /\ component_list[e][k] # None
  /\ component_list' = [component_list EXCEPT ![e][k] = None]
  /\ Push(Frame(op, None, None, component_list[e][k]))
  /\ UNCHANGED <<live, class, owned, registry>>

RemoveComponent(e, k) == TakeComponent("RemoveComponent", e, k)

RemoveComponentReturns ==
  /\ In("RemoveComponent", "client")
  /\ class' = [class EXCEPT ![Top.c] = 0]
  /\ Return
  /\ UNCHANGED <<live, component_list, owned, registry>>

DetachComponent(e, k) == TakeComponent("DetachComponent", e, k)

DetachComponentReturns ==
  /\ In("DetachComponent", "client")
  /\ owned' = owned \cup {Top.c}
  /\ Return
  /\ UNCHANGED <<live, component_list, class, registry>>

(* The client deletes a component it owns. *)
DeleteOwned(c) ==
  /\ ClientRuns
  /\ c \in owned
  /\ owned' = owned \ {c}
  /\ class' = [class EXCEPT ![c] = 0]
  /\ UNCHANGED <<live, component_list, registry, stack>>

Sweep(e) == [Frame("RemoveAllComponent", e, None, None) EXCEPT !.at = "scan"]

RemoveAllComponent(e) ==
  /\ ClientRuns
  /\ e \in live
  /\ Push(Sweep(e))
  /\ UNCHANGED <<memory, registry>>

(* The next component found is taken out and announced. *)
SweepComponent ==
  /\ In("RemoveAllComponent", "scan")
  /\ \E k \in Top.i .. ClassCount :
       /\ component_list[Top.e][k] # None
       /\ \A j \in Top.i .. k - 1 : component_list[Top.e][j] = None
       /\ component_list' = [component_list EXCEPT ![Top.e][k] = None]
       /\ Become([Top EXCEPT !.i = k + 1, !.c = component_list[Top.e][k], !.at = "client"])
  /\ UNCHANGED <<live, class, owned, registry>>

DeleteSwept ==
  /\ In("RemoveAllComponent", "client")
  /\ class' = [class EXCEPT ![Top.c] = 0]
  /\ Become([Top EXCEPT !.c = None, !.at = "scan"])
  /\ UNCHANGED <<live, component_list, owned, registry>>

RemoveAllComponentReturns ==
  /\ In("RemoveAllComponent", "scan")
  /\ \A k \in Top.i .. ClassCount : component_list[Top.e][k] = None
  /\ Return
  /\ UNCHANGED <<memory, registry>>

(* ForeachComponent: a call for each component from place i on. *)
ComponentFrom(e, i) == {k \in i .. ClassCount : component_list[e][k] # None}

ForeachComponent(e) ==
  /\ ClientRuns
  /\ e \in live
  /\ \E k \in ComponentFrom(e, 1) :
       /\ \A j \in ComponentFrom(e, 1) : k <= j
       /\ Push([Frame("ForeachComponent", e, None, None) EXCEPT !.i = k + 1])
  /\ UNCHANGED <<memory, registry>>

NextComponent ==
  /\ In("ForeachComponent", "client")
  /\ \E k \in ComponentFrom(Top.e, Top.i) :
       /\ \A j \in ComponentFrom(Top.e, Top.i) : k <= j
       /\ Become([Top EXCEPT !.i = k + 1])
  /\ UNCHANGED <<memory, registry>>

(* The callback answered no, or there is no component left. *)
ForeachComponentReturns ==
  /\ In("ForeachComponent", "client")
  /\ Return
  /\ UNCHANGED <<memory, registry>>

-----------------------------------------------------------------------------
(* Entities. *)

(* A new entity and its node are registered and linked, and                  *)
(* entity_add_event_ is fired with a reference to the node held.             *)
AddEntity ==
  /\ ClientRuns
  /\ \E e \in Entities \ live, n \in Nodes :
       /\ node[n].ref = 0
       /\ live' = live \cup {e}
       /\ entities' = [entities EXCEPT ![e] = n]
       /\ entity_list' = Append(entity_list, n)
       /\ node' = [node EXCEPT ![n] = Referenced([entity |-> e, ref |-> 1])]
       /\ Push(Frame("AddEntity", None, n, None))
  /\ UNCHANGED <<component_list, class, owned>>

AddEntityReturns ==
  /\ In("AddEntity", "client")
  /\ Store(Top.n, Dereferenced(node[Top.n]))
  /\ Return
  /\ UNCHANGED <<memory, entities>>

(* What RemoveEntity and RemoveAllEntity do with an entity they detached:    *)
(* all its components go, entity_remove_event_ is fired, it is deleted.      *)
Removal(e) == [Frame("Remove", e, None, None) EXCEPT !.at = "announce"]

(* Mutant: the components are left to the destructor. *)
RemovalStepsUnswept(e) == <<Removal(e)>>

RemovalSteps(e) == <<Removal(e), Sweep(e)>>

(* Mutant: the id stays in entities_. *)
RemoveEntityKeepsId(e) ==
  /\ ClientRuns
  /\ Registered(e) /\ ~InUse(e)
  /\ node[entities[e]].entity # None
  /\ Len(stack) + 2 <= MaxDepth
  /\ Store(entities[e], Detached(node[entities[e]]))
  /\ stack' = Unowed(stack, entities[e]) \o RemovalSteps(e)
  /\ UNCHANGED <<memory, entities>>

RemoveEntity(e) ==
  /\ ClientRuns
  /\ Registered(e) /\ ~InUse(e)
  /\ Len(stack) + 2 <= MaxDepth
  /\ entities' = [entities EXCEPT ![e] = None]
  /\ Store(entities[e], Detached(node[entities[e]]))
  /\ stack' = Unowed(stack, entities[e]) \o RemovalSteps(e)
  /\ UNCHANGED memory

(* Mutant: the entity is deleted before its removal is announced. *)
AnnounceDeleted ==
  /\ In("Remove", "announce")
  /\ live' = live \ {Top.e}
  /\ Become([Top EXCEPT !.at = "client"])
  /\ UNCHANGED <<component_list, class, owned, registry>>

(* entity_remove_event_ is fired. *)
Announce ==
  /\ In("Remove", "announce")
  /\ Become([Top EXCEPT !.at = "client"])
  /\ UNCHANGED <<memory, registry>>

(* Mutant: ~Entity does not remove the components. *)
DestructEntityUnswept ==
  /\ In("Remove", "client")
  /\ Become([Top EXCEPT !.at = "delete"])
  /\ UNCHANGED <<memory, registry>>

(* ~Entity removes what components there are again. *)
DestructEntity ==
  /\ In("Remove", "client")
  /\ stack' = Append(Front(stack), [Top EXCEPT !.at = "delete"]) \o <<Sweep(Top.e)>>
  /\ UNCHANGED <<memory, registry>>

DeleteEntity ==
  /\ In("Remove", "delete")
  /\ live' = live \ {Top.e}
  /\ component_list' = [component_list EXCEPT ![Top.e] = NoComponents]
  /\ Return
  /\ UNCHANGED <<class, owned, registry>>

(* RemoveAllEntity and ForeachEntity walk the list alike: the node they come *)
(* to is referenced, and left for its successor when they are done with it.  *)
RemoveAllEntity ==
  /\ ClientRuns
  /\ \A e \in Entities : Registered(e) => ~InUse(e)
  /\ Len(stack) + 3 <= MaxDepth
  /\ Push([Frame("RemoveAllEntity", None, FirstNode, None) EXCEPT !.at = "visit"])
  /\ UNCHANGED <<memory, registry>>

RemoveVisited ==
  /\ In("RemoveAllEntity", "visit")
  /\ Top.n # None
  /\ LET n == Top.n
         e == node[n].entity
         left == Append(Front(stack), [Top EXCEPT !.at = "leave"])
     IN IF e = None
        THEN Store(n, Referenced(node[n])) /\ stack' = left /\ UNCHANGED entities
        ELSE /\ Store(n, Detached(Referenced(node[n])))
             /\ entities' = [entities EXCEPT ![e] = None]
             /\ stack' = Unowed(left, n) \o RemovalSteps(e)
  /\ UNCHANGED memory

ForeachEntity ==
  /\ ClientRuns
  /\ Push([Frame("ForeachEntity", None, FirstNode, None)
             EXCEPT !.at = "visit",
                    !.owed = {n \in Nodes : node[n].entity # None}])
  /\ UNCHANGED <<memory, registry>>

(* Mutant: no reference is taken. *)
CallVisitedUnreferenced ==
  /\ In("ForeachEntity", "visit")
  /\ Top.n # None
  /\ IF node[Top.n].entity = None
     THEN Become([Top EXCEPT !.at = "leave"])
     ELSE Become([Top EXCEPT !.at = "client", !.seen = @ \cup {Top.n}])
  /\ UNCHANGED <<memory, registry>>

(* The callback is called if the node still has its entity. *)
CallVisited ==
  /\ In("ForeachEntity", "visit")
  /\ Top.n # None
  /\ Store(Top.n, Referenced(node[Top.n]))
  /\ IF node[Top.n].entity = None
     THEN Become([Top EXCEPT !.at = "leave"])
     ELSE Become([Top EXCEPT !.at = "client", !.seen = @ \cup {Top.n}])
  /\ UNCHANGED <<memory, entities>>

CallbackSaysOn ==
  /\ In("ForeachEntity", "client")
  /\ Become([Top EXCEPT !.at = "leave"])
  /\ UNCHANGED <<memory, registry>>

(* The callback says no more: the reference goes and ForeachEntity returns. *)
CallbackSaysStop ==
  /\ In("ForeachEntity", "client")
  /\ Store(Top.n, Dereferenced(node[Top.n]))
  /\ Return
  /\ UNCHANGED <<memory, entities>>

Leave ==
  /\ stack # <<>> /\ Top.at = "leave"
  /\ Become([Top EXCEPT !.n = NextNode(Top.n), !.at = "visit"])
  /\ Store(Top.n, Dereferenced(node[Top.n]))
  /\ UNCHANGED <<memory, entities>>

WalkReturns ==
  /\ stack # <<>> /\ Top.at = "visit" /\ Top.n = None
  /\ Return
  /\ UNCHANGED <<memory, registry>>

-----------------------------------------------------------------------------
Client ==
  \/ AddEntity \/ RemoveAllEntity \/ ForeachEntity
  \/ \E e \in Entities : RemoveEntity(e) \/ RemoveAllComponent(e) \/ ForeachComponent(e)
  \/ \E e \in Entities, k \in Classes :
       AddComponent(e, k) \/ RemoveComponent(e, k) \/ DetachComponent(e, k)
  \/ \E e \in Entities, c \in Components : CopyComponent(e, c) \/ AttachComponent(e, c)
  \/ \E c \in Components : DeleteOwned(c)

Continue ==
  \/ AddComponentReturns \/ RemoveComponentReturns \/ DetachComponentReturns
  \/ SweepComponent \/ DeleteSwept \/ RemoveAllComponentReturns
  \/ NextComponent \/ ForeachComponentReturns
  \/ AddEntityReturns \/ Announce \/ DestructEntity \/ DeleteEntity
  \/ RemoveVisited \/ CallVisited \/ CallbackSaysOn \/ CallbackSaysStop
  \/ Leave \/ WalkReturns

Next == Client \/ Continue

Spec == Init /\ [][Next]_vars

-----------------------------------------------------------------------------
TypeOK ==
  /\ live \subseteq Entities
  /\ component_list \in [Entities -> [Classes -> Components \cup {None}]]
  /\ class \in [Components -> 0 .. ClassCount]
  /\ owned \subseteq Components
  /\ entities \in [Entities -> Nodes \cup {None}]
  /\ entity_list \in Seq(Nodes)
  /\ node \in [Nodes -> [entity : Entities \cup {None}, ref : Nat]]
  /\ Len(stack) <= MaxDepth
Attached(n) == node[n].entity # None

(* The operations that hold a reference to node n. *)
Holders(n) ==
  {k \in DOMAIN stack :
     /\ stack[k].n = n
     /\ \/ stack[k].op \in {"AddEntity", "ForeachEntity"} /\ stack[k].at # "visit"
        \/ stack[k].op = "RemoveAllEntity" /\ stack[k].at = "leave"}

(* The reference count of every entity node is one for its entity while it  *)
(* has one and one for each operation standing at it, whatever the          *)
(* listeners removed in between (ecs.cpp:73-76, 100-114, 120-131): no node  *)
(* is freed too early and none stays for ever.                              *)
RefCountExact ==
  \A n \in Nodes : node[n].ref = Cardinality(Holders(n)) + (IF Attached(n) THEN 1 ELSE 0)

(* A walk stands at a node still linked, or at the end (ecs.cpp:112, 129).   *)
NoDanglingNode ==
  \A k \in DOMAIN stack : stack[k].n # None => Contains(entity_list, stack[k].n)

(* GetEntity and the walks see the same entities, in any callback: entities_ *)
(* and entity_list_ agree, and an id never leads to another entity that got  *)
(* the address of a removed one.                                             *)
RegistryAgrees ==
  /\ \A n \in Nodes : node[n].ref > 0 <=> Contains(entity_list, n)
  /\ IsInjective(entity_list)
  /\ \A e \in Entities, n \in Nodes : entities[e] = n <=> node[n].entity = e

(* Every Entity allocated is either registered or in the hands of exactly    *)
(* one removal that will delete it, and operations go on only with           *)
(* entities that still exist: none leaks, none is deleted twice.             *)
NoEntityLost ==
  /\ \A e \in Entities :
       LET removals == {k \in DOMAIN stack : stack[k].op = "Remove" /\ stack[k].e = e}
       IN Cardinality(removals) + (IF Registered(e) THEN 1 ELSE 0)
            = (IF e \in live THEN 1 ELSE 0)
  /\ \A k \in DOMAIN stack : stack[k].e # None => stack[k].e \in live

(* Every Component allocated has one owner: its place in an entity, the      *)
(* operation that took it out and will delete or return it, or the client.   *)
(* So none leaks and none is deleted twice, even if listeners add components *)
(* to the entity being removed (ecs.cpp:150-172).                            *)
NoComponentLost ==
  \A c \in Components :
    LET places == {p \in live \X Classes : component_list[p[1]][p[2]] = c}
        takers == {k \in DOMAIN stack : stack[k].c = c /\ stack[k].op # "AddComponent"}
    IN /\ Cardinality(places) + Cardinality(takers) + (IF c \in owned THEN 1 ELSE 0)
            = (IF class[c] # 0 THEN 1 ELSE 0)
       /\ \A p \in places : p[2] = class[c]

(* Once an entity's removal has been announced the only components still     *)
(* removed from it are those listeners added during the removal: whoever     *)
(* hears entity_remove_event has heard of every other component's removal    *)
(* (ecs.cpp:92-94).                                                          *)
RemovalIsFinal ==
  \A k \in DOMAIN stack :
    stack[k].op = "Remove" /\ stack[k].at \in {"client", "delete"} =>
      \A i \in Classes : LET c == component_list[stack[k].e][i]
                         IN c # None => c \in stack[k].late

(* A ForeachEntity that has come to the end of the list has called back for  *)
(* each entity that was there all the while.                                 *)
NobodySkipped ==
  \A k \in DOMAIN stack :
    stack[k].op = "ForeachEntity" /\ stack[k].n = None => stack[k].owed \subseteq stack[k].seen
=============================================================================
