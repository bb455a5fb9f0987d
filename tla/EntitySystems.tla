--------------------------- MODULE EntitySystems ---------------------------
(***************************************************************************)
(* EntitySystemManager of ecs.h: a table of systems by class index and a   *)
(* list in which UpdateAll runs them.                                      *)
(*                                                                         *)
(* One thread; the client runs inside a system's constructor, destructor   *)
(* and _Update, and may call the manager there.  stack holds one frame for *)
(* each operation in progress.  Addresses are handed out again once freed. *)
(***************************************************************************)
EXTENDS LinkedList, SequencesExt

CONSTANTS
  Classes,   \* the system classes T
  Systems,   \* addresses of system objects
  Nodes,     \* addresses of SystemNodes
  None,      \* the null pointer, the end of the list
  MaxDepth   \* bound: operations in progress at a time

ASSUME DepthAssumption == MaxDepth \in Nat
ASSUME NoneAssumption == None \notin Classes \cup Systems \cup Nodes

VARIABLES
  systems,      \* systems_: the node of each class, or None
  system_list,  \* system_list_: the nodes, in order
  node,         \* the SystemNodes: raw_data_ (None once detached), ref_count_
  class,        \* ClassIndex() of the systems allocated, None for the others
  stack         \* the operations in progress, innermost last

manager == <<systems, system_list, node, class>>
vars == <<manager, stack>>

(* A frame: the operation, the class it adds, the system it runs or deletes, *)
(* the node it stands at, and what it does next ("client" inside code of the *)
(* system).  owed and seen are no part of the code: the nodes that had their *)
(* system when the walk began and since, and those whose system it ran.      *)
Frame(op, k, s, n) ==
  [op |-> op, class |-> k, system |-> s, n |-> n, at |-> "client", owed |-> {}, seen |-> {}]

Top == Last(stack)

In(op, at) == stack # <<>> /\ Top.op = op /\ Top.at = at

ClientRuns == stack = <<>> \/ (stack # <<>> /\ Top.at = "client")

Push(f) == Len(stack) < MaxDepth /\ stack' = Append(stack, f)

Become(f) == stack' = [stack EXCEPT ![Len(stack)] = f]

Return == stack' = Front(stack)

Attached(n) == node[n].system # None

Registered == {n \in Nodes : Attached(n)}

-----------------------------------------------------------------------------
Init ==
  /\ systems = [k \in Classes |-> None]
  /\ system_list = <<>>
  /\ node = [n \in Nodes |-> [system |-> None, ref |-> 0]]
  /\ class = [s \in Systems |-> None]
  /\ stack = <<>>

Referenced(r) == [r EXCEPT !.ref = @ + 1]

Dereferenced(r) == [r EXCEPT !.ref = @ - 1]

Detached(r) == Dereferenced([r EXCEPT !.system = None])

(* The node n becomes r; without a reference left it unlinks itself. *)
Store(n, r) ==
  /\ node' = [node EXCEPT ![n] = r]
  /\ system_list' = IF r.ref = 0 THEN Unlinked(system_list, {n}) ELSE system_list

Unowed(s, n) ==
  [k \in DOMAIN s |-> [s[k] EXCEPT !.owed = @ \ {n}, !.seen = @ \ {n}]]

FirstNode == FirstOf(system_list, None)

(* node->Next(), None for End(). *)
NextNode(n) == NextOf(system_list, n, None)

-----------------------------------------------------------------------------
(* Bound: there are addresses left for all systems under construction. *)
PoolsSuffice ==
  LET constructing == Cardinality({j \in DOMAIN stack : stack[j].op = "AddSystem"})
  IN /\ constructing < Cardinality({s \in Systems : class[s] = None})
     /\ constructing < Cardinality({n \in Nodes : node[n].ref = 0})

(* AddSystem<T>: no T is registered; its constructor runs first.  A          *)
(* constructor does not add another system of its own class.                 *)
AddSystem(k) ==
  /\ ClientRuns
  /\ systems[k] = None
  /\ \A j \in DOMAIN stack : stack[j].class # k
  /\ PoolsSuffice
  /\ Push(Frame("AddSystem", k, None, None))
  /\ UNCHANGED manager

(* The constructor has returned. *)
AddSystemReturns ==
  /\ In("AddSystem", "client")
  /\ \E s \in Systems, n \in Nodes :
       /\ class[s] = None
       /\ node[n].ref = 0
       /\ class' = [class EXCEPT ![s] = Top.class]
       /\ node' = [node EXCEPT ![n] = [system |-> s, ref |-> 1]]
       /\ system_list' = Append(system_list, n)
       /\ systems' = [systems EXCEPT ![Top.class] = n]
  /\ Return

(* The system leaves the table and its node; then its destructor runs. *)
RemoveSystem(k) ==
  /\ ClientRuns
  /\ systems[k] # None
  /\ Len(stack) < MaxDepth
  /\ systems' = [systems EXCEPT ![k] = None]
  /\ LET n == systems[k]
     IN /\ Store(n, Detached(node[n]))
        /\ stack' = Append(Unowed(stack, n), Frame("RemoveSystem", None, node[n].system, None))
  /\ UNCHANGED class

RemoveSystemReturns ==
  /\ In("RemoveSystem", "client")
  /\ class' = [class EXCEPT ![Top.system] = None]
  /\ Return
  /\ UNCHANGED <<systems, system_list, node>>

Walk(op) == [Frame(op, None, None, FirstNode) EXCEPT !.at = "visit", !.owed = Registered]

RemoveAllSystem == ClientRuns /\ Push(Walk("RemoveAllSystem")) /\ UNCHANGED manager

(* Mutant: the system's class keeps its entry in the table. *)
RemoveVisitedKeepsEntry ==
  /\ In("RemoveAllSystem", "visit") /\ Top.n # None
  /\ LET n == Top.n
         s == node[n].system
     IN IF s = None
        THEN Store(n, Referenced(node[n])) /\ Become([Top EXCEPT !.at = "leave"])
        ELSE /\ Store(n, Detached(Referenced(node[n])))
             /\ stack' = Unowed(Append(Front(stack), [Top EXCEPT !.system = s, !.at = "client"]), n)
  /\ UNCHANGED <<systems, class>>

(* The node come to is referenced and loses its system, whose destructor runs. *)
RemoveVisited ==
  /\ In("RemoveAllSystem", "visit") /\ Top.n # None
  /\ LET n == Top.n
         s == node[n].system
     IN IF s = None
        THEN /\ Store(n, Referenced(node[n]))
             /\ Become([Top EXCEPT !.at = "leave"])
             /\ UNCHANGED systems
        ELSE /\ Store(n, Detached(Referenced(node[n])))
             /\ systems' = [systems EXCEPT ![class[s]] = None]
             /\ stack' = Unowed(Append(Front(stack), [Top EXCEPT !.system = s, !.at = "client"]), n)
  /\ UNCHANGED class

DestructorReturns ==
  /\ In("RemoveAllSystem", "client")
  /\ class' = [class EXCEPT ![Top.system] = None]
  /\ Become([Top EXCEPT !.system = None, !.at = "leave"])
  /\ UNCHANGED <<systems, system_list, node>>

(* Update<T>: no reference to the node is taken, and none is needed after    *)
(* _Update.                                                                  *)
Update(k) ==
  /\ ClientRuns
  /\ systems[k] # None
  /\ Attached(systems[k])
  /\ Push(Frame("Update", None, None, None))
  /\ UNCHANGED manager

UpdateReturns == In("Update", "client") /\ Return /\ UNCHANGED manager

UpdateAll == ClientRuns /\ Push(Walk("UpdateAll")) /\ UNCHANGED manager

(* Mutant: no reference is taken. *)
UpdateVisitedUnreferenced ==
  /\ In("UpdateAll", "visit") /\ Top.n # None
  /\ Become([Top EXCEPT !.at = IF Attached(Top.n) THEN "client" ELSE "leave",
                        !.seen = IF Attached(Top.n) THEN @ \cup {Top.n} ELSE @])
  /\ UNCHANGED manager

(* The node come to is referenced, and its system updated if it has one. *)
UpdateVisited ==
  /\ In("UpdateAll", "visit") /\ Top.n # None
  /\ Store(Top.n, Referenced(node[Top.n]))
  /\ Become([Top EXCEPT !.at = IF Attached(Top.n) THEN "client" ELSE "leave",
                        !.seen = IF Attached(Top.n) THEN @ \cup {Top.n} ELSE @])
  /\ UNCHANGED <<systems, class>>

UpdateVisitedReturns ==
  /\ In("UpdateAll", "client")
  /\ Become([Top EXCEPT !.at = "leave"])
  /\ UNCHANGED manager

Leave ==
  /\ stack # <<>> /\ Top.at = "leave"
  /\ Become([Top EXCEPT !.n = NextNode(Top.n), !.at = "visit"])
  /\ Store(Top.n, Dereferenced(node[Top.n]))
  /\ UNCHANGED <<systems, class>>

WalkReturns ==
  /\ stack # <<>> /\ Top.at = "visit" /\ Top.n = None
  /\ Return
  /\ UNCHANGED manager

-----------------------------------------------------------------------------
Next ==
  \/ \E k \in Classes : AddSystem(k) \/ RemoveSystem(k) \/ Update(k)
  \/ RemoveAllSystem \/ UpdateAll
  \/ AddSystemReturns \/ RemoveSystemReturns \/ RemoveVisited \/ DestructorReturns
  \/ UpdateReturns \/ UpdateVisited \/ UpdateVisitedReturns \/ Leave \/ WalkReturns

Spec == Init /\ [][Next]_vars

-----------------------------------------------------------------------------
(* The walks in progress that hold a reference to node n. *)
Holders(n) == {k \in DOMAIN stack : stack[k].n = n /\ stack[k].at # "visit"}

(* The reference count of a system node is exact, a node is linked while it *)
(* is referenced, and a walk stands at a linked node, although systems      *)
(* remove each other, and themselves, while they are updated (ecs.h:388-398).*)
NodesSafe ==
  /\ \A n \in Nodes :
       /\ node[n].ref = Cardinality(Holders(n)) + (IF Attached(n) THEN 1 ELSE 0)
       /\ node[n].ref > 0 <=> Contains(system_list, n)
  /\ \A k \in DOMAIN stack : stack[k].n # None => Contains(system_list, stack[k].n)

(* The table has an entry for exactly the systems that the list has, under   *)
(* their own class, and each system allocated is in both or is being deleted *)
(* once (ecs.h:341-343, 356-357, 365-369).                                   *)
TableAgrees ==
  /\ \A k \in Classes, n \in Nodes :
       systems[k] = n <=> Attached(n) /\ class[node[n].system] = k
  /\ \A s \in Systems :
       LET holders == {n \in Nodes : node[n].system = s}
           deleters == {k \in DOMAIN stack : stack[k].system = s}
       IN Cardinality(holders) + Cardinality(deleters) = (IF class[s] # None THEN 1 ELSE 0)

(* At its end UpdateAll has run every system that was there all the while,   *)
(* and RemoveAllSystem has left none that was there when it began.           *)
WalkCompletes ==
  \A k \in DOMAIN stack :
    /\ stack[k].op = "UpdateAll" /\ stack[k].n = None => stack[k].owed \subseteq stack[k].seen
    /\ stack[k].op = "RemoveAllSystem" /\ stack[k].at = "visit" /\ stack[k].n = None =>
         stack[k].owed = {}
=============================================================================
