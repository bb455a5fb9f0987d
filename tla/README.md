# A TLA+ model of mzx

mzx is a small C++ framework: containers, an event system, an
entity-component system, a timer wheel, threads, and an unfinished network
layer of worker threads that talk to a master thread over lock-free queues.
This directory holds TLA+ modules for its stateful parts, TLC configurations
that model-check them, and theorems that the TLA+ proof system TLAPS checks.
Paths below are relative to the repository.

## Inventory

| Component | State it keeps | Operations | Interacts with | What is hard |
|---|---|---|---|---|
| SPSC queue, `include/mzx/spsc_queue.h` | ring of slots, two atomic indices | Push, Product, Pop, Consume, ReadAvailable, WriteAvailable, destructor | master and worker threads of the network layer | lock-free interleavings, stale loads, wrap-around, batches |
| Timer manager, `src/timer_manager.cpp` | clock, wheels of slots, node table, free list | Init, Uninit, SetTimer, DelTimer, LeftTime, Update | callbacks that call it again; the intrusive list | cascade arithmetic, callbacks that delete and re-set timers during the drain, node reuse, nested Update |
| Events, `include/mzx/event.h`, `data_structure/list_safe_node.h` | per type a list of reference-counted listener nodes and an index by id | AddListener, RemoveListener, RemoveEvent, RemoveAllEvent, Invoke | ECS, simple events | re-entrancy: listeners that change the list under one or several walks; memory reuse |
| Simple events, `simple_event.h` | none of its own | typed wrappers of the above | events | - |
| Entities, components, systems, `ecs.h`, `ecs.cpp` | entity map and list, component table per entity, system table and list | Add/Remove/Foreach of each, Update, UpdateAll | events (four per manager), safe nodes | listeners that remove what an operation is working on |
| Red-black tree, `data_structure/rbtree.*` | the tree | Insert, Erase, Find, LowerBound, UpperBound | - | rebalancing cases, bounds at the ends |
| Intrusive list, `data_structure/list.*` | links inside the nodes | Insert, Erase, push and pop | timers, events, ECS | linking a node twice |
| Network master and workers, `net/` | four SPSC queues per worker, buffers in circulation, connection slots, stop flag | AddAcceptor, AddPeerConnector, Send, Disconnect, Update; HandleInputEvent, Run, Wakeup | SPSC queue, sockets | buffers lost on error paths, stale connection ids, wake-up and shutdown |
| Connection ids, `net/net_define.h` | bit fields of a 64-bit integer | build, parse, next | network | overlapping fields, wrap of the increment |
| Threads, `thread.cpp` | joinable flag, thread handle | Start, Join, Cancel, clean-up | command line | end of the thread against Join |
| Command line, `system/cmd_line.cpp` | command map, queued lines, reader thread | Regist, Unregist, Start, Stop, Execute | threads, a mutex | queueing while Execute runs handlers |
| Signals, `system/signal.cpp` | handler map | Hook, Unhook | OS | handler against Hook |
| Sorting, `algorithm/sort/*.h` | none | ten sorts | - | boundaries, comparators |
| Strings, UTF-8, logging, errors, dates, random numbers, conversions, templates, macros | none or the OS's | pure helpers and I/O | - | out of scope, see below |

What makes the components correct:

- *SPSC queue*: a bounded FIFO for its two threads; each slot belongs to one
  thread at a time; no object leaks; availability once reported stays.
- *Timer manager*: a timer runs in the tick it is due, once per period, until
  it is deleted; every node is in one list; Update ends.
- *Events*: every listener attached throughout an Invoke is called once, a
  removed one never; no node or Event is used after it is freed; none leaks.
- *ECS*: no entity, component or system is used after it is freed; each
  removal is announced once; walks survive removals.
- *Red-black tree*: the set of keys a reference set would hold, in search
  order and balanced; the bounds agree with the set.
- *Network*: buffers are conserved and owned by one side at a time; events
  never reach a reused connection; queued input is handled; shutdown ends.
- *Connection ids*: fields do not overlap, parse inverts build, next changes
  only the increment.
- *Threads and command line*: once a thread counts as not joinable it no
  longer uses the object; each line is executed once, in order.
- *Sorts*: the result is the sorted permutation of the range.

`PROJECT.json` lists every component with its status and, under `hazards`,
the lines where each of these goes wrong most easily.

## Modules

| Module | What it is |
|---|---|
| `BoundedFifo` | abstract specification: batches go in at once, values come out in order |
| `SPSCQueue` | the lock-free ring; refines `BoundedFifo` |
| `LinkedList` | the intrusive list as a sequence: its ends, successors, order and unlinking |
| `TimerManager` | the timer wheel with its client and callbacks |
| `EventManager` | events, listeners and re-entrant Invoke over reused memory |
| `Ecs` | entities and components, re-entrant through the four events |
| `EntitySystems` | the table and list of systems, re-entrant through their code |
| `SortedNodes` | abstract specification: nodes in the order of their keys |
| `RBTree` | the red-black tree with its rebalancing loops; refines `SortedNodes` |
| `Thread` | a Thread object and the POSIX threads it creates |
| `CmdLine` | the command line: main thread and reader; extends `Thread` |
| `Sorts` | the ten sorting algorithms as operators |
| `NetConnectionId` | the bit fields of connection ids |
| `Net` | the network master and its workers, over queues as `BoundedFifo` promises them; extends `NetConnectionId` |
| `MC...` | one for each, the instances for TLC |
| `SPSCQueueProofs`, `TimerManagerProofs`, `EventManagerProofs`, `EcsProofs`, `EntitySystemsProofs`, `RBTreeProofs`, `CmdLineProofs`, `NetProofs` | theorems about the module of that name, with TLAPS proofs |

Some definitions have a mutated form next to them, marked *Mutant*: a plausible
slip in that piece of code. No specification uses them. Substituted for the
original, each makes TLC report the property named for it in `PROJECT.json`,
which is how we know the property depends on that piece of code.

### SPSCQueue

Two processes, the producing and the consuming thread. Each call is split at
every access the other thread can observe:

| Code | Actions |
|---|---|
| Push | `PushLoad`, `Construct`, `Publish` |
| Product | `ProductLoad`, `Construct` per slot, one `Publish` |
| Pop | `PopLoad`, `Deliver`, `Destroy`, `Release` |
| Consume | `ConsumeLoad`, then `Deliver` and `Destroy` per value, one `Release` |
| WriteAvailable(), ReadAvailable() | `AskWriteAvailable`, `AskReadAvailable` |
| ~SPSCQueue | `Destruct` |

`p_pc`, `p_write`, `p_todo` and their consumer counterparts are the locals of
the running call. An acquire load need not see the newest index: it returns any
value the index has held since the one this thread last loaded
(`SinceLoad`). That is what C++ allows for one writer and one reader per
index (coherence on each atomic, acquire/release between them). A slot is
`Raw` while no object lives in it, so a construction over a live object and a
read of a dead one are visible. `p_promise` and `c_promise` are not in the
code: they remember what an availability query last answered, less what was
granted since.

As committed the template does not instantiate: line 85 calls `tmp.T()`,
line 103 assigns `*tmp`, line 116 passes two arguments to a function of three,
and `Data()` casts with `static_cast`. The model follows the reading these
lines leave no doubt about (placement construction, copy from the slot, the
three-argument overload).

Fairness (`FairSpec`): a thread inside a call goes on. Nobody need call
anything. `EveryValueLeaves` is conditional: if the consumer thread calls Pop
again and again and at some time sees the newest index (`PollingConsumer`; C++
requires stores to become visible in finite time), every published value leaves
its slot. Polling is a condition on the client, which nothing in the repository
meets by itself: `NetWorker::Run` sleeps in `epoll_wait` without a timeout and
pops no queue, and `NetMaster::Update` is one call of its client.

### TimerManager

`stack` has one frame per Update in progress, saying where it is: at the loop
head (`Tick`), in `TimerWheelCascade` (`Cascade`, one node per step), draining
the slot of the tick (`Fire`, `DrainDone`) or inside a callback. At top level
and inside the innermost callback the client may call `SetTimer`, `DelTimer`
and `Update`. The geometry is given by two constants, `Size`, the slots of each
wheel (`TIMER_WHEEL_SIZE`), and `Span`, the ticks one slot of a wheel spans;
`WheelsAssumption` says that the finest slot spans one tick and every other as
much as one turn of the next finer wheel, which the code gets by shifting. Slots and the free list are sequences of node indices, so list
order is the code's. `due` is not in the code: it is the tick for which the
next callback was promised.

Two things the model brought out:

1. A timer whose remaining time equals `TIMER_WHEEL_SIZE[0] - 1` ticks when it
   is placed during a drain (a periodic timer of interval 255, or a delay of
   256 set from a callback) goes into the slot being drained and runs at once;
   the periodic one keeps Update from returning. Run `timer_full_turn` shows
   it; the constants of `timer_manager` leave that one distance out of what
   callbacks and re-arming use.
2. A callback that deletes its own timer and then sets another may be given
   the same node. When the callback returns, Update finds the node in use and
   frees or re-arms it: the new timer is lost or its first delay replaced. A
   callback that calls Update runs the ticks after it in the middle of the
   drain. `strayed` records that a client has done either; `FiresWhenDue`,
   `NothingOverdue`, `ArmedUntilDone` and `UpdateReturns` are promised until
   then, `EachNodeOnce` always. `StrayTime` bounds when clients may stray.

A periodic timer runs every `interval + 1` ticks (line 244 against line 165);
`due` follows the code there. Fairness: an Update in progress runs on and a
callback returns.

### EventManager

A frame per Invoke in progress says at which node it stands and whether it is
about to visit the node, inside its listener, or leaving. `Visit` takes the
reference and tests `Get()`; `Leave` reads `Next()` and drops the reference.
Nodes, infos and Events are addresses from small sets and are handed out again
once freed, so use after free would meet a stranger. `owed` and `seen` are not
in the code: the listeners attached since the Invoke began, and those it
called. The removals are one step each, since no listener runs inside them
(destructors of closures that call back into the manager are not modelled).

Run `event_closure` shows that the closure of a listener is destroyed while it
runs when it removes itself, which the repository's own test does.

### Ecs and EntitySystems

Each operation is cut where it hands over to client code: where it fires an
event (`ComponentAddEvent` and so on), calls back, or runs a system. `stack`
has a frame per operation in progress; `at = "client"` says that client code
runs inside it, which may call any operation again. What `RemoveEntity` and
`RemoveAllEntity` share is a frame `Remove` of its own: components swept, the
removal announced, `~Entity` sweeping once more, the object freed. How an event
finds its listeners is left to `EventManager`, so all listeners of one event
are one stretch of client code. Addresses are handed out again once freed; an
entity's id is its address, as in the code.

The model assumes two things of the client, because the code does not survive
without them: no listener removes an entity on which `AddComponent`,
`RemoveAllComponent` or `ForeachComponent` is in progress further out (they read
the entity's component list afterwards), and none adds a component to an entity
while `~Entity` runs (it would leak). Adding components to an entity that is
being removed is allowed before that; `late` remembers which they are, and
`RemovalIsFinal` says that the destructor finds no others. In `EntitySystems` a
constructor does not add another system of its own class; a system may delete
itself in its own update.

### RBTree

Linking a node in or out is one step, each iteration of a rebalancing loop
another. The code spells each case out for left and right; the model has it
once, for a side `s` and its opposite. Walks down and up the tree are functions
of the node they start from, defined by recursion on the links. The order promised by `SortedNodes` holds in every state, also
between two rotations; balance and the answers to queries hold between
operations. The members of an erased node are dropped, because nothing but
`IsLinked` reads them before the node is inserted again (`Clear` is never
called, so an erased node still says it is linked).

Two defects came out, and a constant stands for each:

1. `RBTreeNode::Erase` of a node with two children looks for the successor in
   the left subtree (`rbtree.cpp:228-240`: `tmp` is the left child, never empty
   there). The result is a cycle or a tree out of order. With
   `InnerErases = TRUE` the run `rbtree` fails after three insertions and one
   erase; the run has it `FALSE`. Erasing a node with at most one child goes
   through every case of the rebalancing loop. `Erase(key)` must then meet no
   such node on its way either: `EraseKey` lets it run when the key is the least
   in the tree, for any number of nodes (each is the first of the tree when its
   turn comes and has no left child), or when at most one node has the key.
2. `UpperBound` of a key below all keys is the end instead of the first node,
   and `Erase(key)` then erases the whole tree. Run `rbtree_bounds` shows it;
   `LowErases = FALSE` keeps it out of `rbtree`.

### Thread and CmdLine

`Thread` gives the actions of `Start`, `Join` and `Cancel`, of the clean-up
handler and of the end of the thread; the module that extends it supplies the
body. `posix` follows each POSIX thread from its body through the clean-up
handler (which clears `joinable_`) to its end. `Join` tests `joinable_` and then
blocks, two steps. `CmdLine` supplies the reader as the body and the main thread
as the controller. The reader may be cancelled only where it passes a
cancellation point, which it does not between taking a line and queueing it.
`executing` has the lines left of each `Execute` in progress, because a callback
may call `Execute` again, and `running` the word whose callback each is in: its
own, the default one, or none. A callback may register and unregister others,
start and stop the reader. `done` is not in the code. `Waiting` puts the lines
not yet run in the order in which they will be.

What is assumed: `Stop` is not called before `Start` or twice for one thread
(`pthread_cancel` of no thread is undefined), and a callback does not replace or
erase itself while it runs. Fairness: both threads go on. Cancellation gets
strong fairness because the reader leaves its cancellation points with every
line it takes, and passes `CheckCancelPoint` in every round of its loop.
Nothing obliges input to come, the main thread to call anything or a callback
to return.

### Sorts

Each algorithm is an operator from an array to the array it leaves; loops are
folds, with a recursive operator where the bounds of a loop move. What several
of them have in common is stated once: the insertion into a chain of positions
(`Inserted`, with gap 1 in InsertSort) and the counting placement (`CountPlaced`,
by value in CountSort, by digit in RadixSort). The comparator is one of three;
`"tens"` does not tell all values apart, so that the order of equals can be
observed. The sorts of integers run with the default comparator only: BucketSort
uses another inside its buckets but not between them, RadixSort ignores it, and
CountSort sizes its counter by a difference taken in its order. Values have two
digits, so that `p *= 10` in RadixSort stays in its type.

### Net and NetConnectionId

The layer is unfinished and does not compile as committed (the constructor of
`NetWorker` takes no index, `InitNetConnectionID` is called with two arguments,
`HandleInputEvent` has no caller, four member functions are declared only, and
the event callbacks are stubs). `Net` models what is there, and takes the rest
for what its name and its callers ask: `GetOutputEvent` and `AddOutputEvent`
take from and add to the output queue, `FreeInputBuffer` empties a buffer and
frees it, the worker's `Disconnect` closes a connector (`CloseConnector`, which
empties it, `Cleared`, and calls `FreeNetConnector`), an acceptor event takes a
free connector, a connector event writes a buffer or closes. These are marked
external in `PROJECT.json`. `NoCrossTalk` rests on this reading of `Disconnect`:
the write list of a closed connection does not outlive it.

The master's thread is one actor, cut where it touches what a worker also
touches: `Send` (room seen), `SendTakes`, `SendPushes`; `AddAcceptor` and
`TellAcceptor` for each worker; `Uninit` with `UninitStops`, `UninitWakes`,
`UninitJoins` and `DeleteWorker` for each worker. `Update` needs no position of
its own: it may pass any worker by, and its callbacks may make every call but
`Uninit`, so each step `HandleOutputEvent` is Update getting to one event. The
thread of a worker is `Run`, place by place, with `HandleInputEvent` at the end
of a round that chooses to call it; it handles no more events than
`ReadAvailable` found, which may be fewer than there are.

`Uninit` deletes the queues of a worker, and the destructor deletes them again
(`net_worker.cpp:113`). That is undefined, so no property is about it: `freed`
counts the deletions, and `UninitEnds` speaks of stop flag, wake-up and join only.

`in_queue`, `in_free` and `out_queue` are sequences. That is what `SPSCQueue` is
proved to implement (`Refinement`); that room or an element once seen stays is
`PromiseKeeping`, so `SendPushes` needs no stale view, and where a queue is
tried without having been asked (`TellAcceptor`, `SendTakes`) it may fail with
room left. `stop_flag_` is relaxed; the model relies on the system calls on the
event descriptor to order its store before its load.

`data` and `number` are the history that `NoCrossTalk` compares: the connection
a client meant, and the one a connector serves. Clients send to and disconnect
whatever they once heard of. How many values the index and the increment have
are constants, `Indexes` and `Increments`: 2^32 and 2^16 in the code, two and
four for TLC. `NetAssumption` keeps the increment from wrapping (65536 reuses of
one connector) and workers below 256, because the type is shifted by 56 bits, into
the worker's field, whereas the comment in `net_define.h:12` gives twelve bits
to the worker.

What the model brought out, besides: buffers sent to peer connectors are never
freed (`dropped`); the queues of a worker are deleted twice (`freed`), since its
destructor repeats `Uninit`; nothing wakes a worker for an input event; the
socket of a peer connector is read from the wrong member of the event
(`net_worker.cpp:349`); `NetMaster::conf_` is never set, so `Send` checks
against the default size. Only the first two have state in the model.

Fairness: `Uninit` goes on, and the thread of a worker goes on unless it sleeps.
No socket need ever be ready and the client need not call anything.

## Runs

| Run | Instance | Shows |
|---|---|---|
| `spsc_queue` | 4 slots, 2 values | safety, refinement, and liveness for a consumer that polls. No bound besides the constants: the state space is closed. Four slots give batches of up to three, every wrap-around and every stale view; the proofs cover all sizes |
| `timer_manager` | wheels of 4, 2 and 2 slots, 2 timers, ticks 3 to 20, Updates two deep and straying up to tick 7 | due times, no lost timer, Update returns, list consistency whatever callbacks do. One turn of all wheels is 16 ticks, so every slot is cascaded and the overflow delay of 17 is parked beyond the coarsest wheel and placed again; jumps of 5 run several ticks in one Update |
| `timer_full_turn` | wheels of 4 and 2, one periodic timer | violation: a timer runs a full turn early |
| `event_manager` | 2 types, 3 listeners, Invokes three deep | reference counts, list and index, walks. Four Event addresses suffice for two registered and two orphaned Events; symmetry over the addresses is sound because the code never compares or orders them and only safety is checked |
| `event_closure` | 2 listeners | violation: a closure is destroyed while it runs |
| `ecs` | 2 entity addresses, 3 nodes, 2 components, 2 classes, 4 operations deep | ownership of entities, components and nodes, the registry, order of removals. Four frames hold a removal with its sweep inside a walk and one operation in its listener; two components of two classes give every content of a component list; a third node outlives its entity under a walk. Symmetry is sound because addresses are only compared for equality and only invariants are checked |
| `entity_systems` | 2 classes, 4 addresses each, 4 operations deep | table against list, references, complete walks. Four addresses allow two systems registered and two being deleted or built |
| `rbtree` | 8 nodes, three with one key | every tree reachable, all rebalancing cases: eight nodes give black height three, so a double black climbs. `Erase(key)` takes up to three nodes one by one, with rebalancing between them |
| `rbtree_bounds` | the same | violation: `LowerBound` to `UpperBound` of a key that is not there |
| `cmd_line` | 3 lines, 2 POSIX threads, Executes two deep | the thread flag, every line once, Stop returns. Two threads let a second one be started while the first, ended by itself, is not reclaimed; three lines leave one in the inner Execute, one in the outer and one in the queue |
| `sorts` | arrays of up to 6 of 5 values, 3 comparators | all ten sorts on every such array, and on what another sort left. Six positions make a heap of three levels, gaps of 3 and 1, and halves of odd length; the values include negative ones and two that differ in the units only |
| `net` | 2 workers with one connector, one buffer and queues of one each; 2 connections, one acceptor, one peer connector | each buffer in one place (those dropped for a peer connector count as one), no cross talk, Uninit ends. Every queue and free list is full and empty in turn; with one connector the second connection always reuses the first one's, while events for the first are queued or in hand. With one event in a queue no round handles two. Larger queues multiply the states; 2 buffers and 2 events with one worker pass as well |

Only `spsc_queue` turns deadlock checking off: after the destructor the queue
really stops.

## Proofs

The proofs hold for every value of the constants: any number of nodes, objects,
classes, threads, values or nested operations, any capacity, any wheels. They
rest on the assumptions the modules state (an address is not the null pointer,
a bound is a number) and on nothing else, except where said. In each module
`IInv` is the inductive invariant, `NextIInv` (or one lemma per action) shows
that every step keeps it, `IInvariance` that it holds in every state, and the
other theorems follow from it in a state or in one step. TLC checked each
`IInv` on the run's instance before it was proved; only the invariant of
`RBTreeProofs`, which asserts that some measures exist, is not one TLC can
evaluate. The lemmas about stacks and linked lists are repeated at the head of
each module that uses them.

**`SPSCQueueProofs`**, with `MaxSizeAssumption` (the constructor's check) and
`RawAssumption` (a live object is not the absence of one).

- None of the safety properties is inductive by itself: whether a slot is free
  depends on how far the producer's stale view may lag. `IInv` measures
  everything from that view. `RingOrder` says that from `p_read` on around the
  ring come `read_index`, `c_read`, `c_write`, `write_index` and `p_write`, in
  this order and less than a turn in all; `CallState` bounds what each call may
  still do; `SlotsMatchIndices` says the live slots are those from `c_read` to
  `p_write`. `NextIInv` is linear arithmetic once the distances are expanded.
- `RaceFreedom`, `NoObjectLost`, `NothingLeaks`, `PromiseKeeping`.
- `Refinement`, `Spec => Fifo!Spec`, where the abstract queue is the sequence
  of published slots not yet handed out. `Publish` appends the whole batch,
  `Deliver` takes the head, `Destruct` closes; every other step is internal.

**`TimerManagerProofs`**, for wheels of any number and size that satisfy
`WheelsAssumption`.

- `SInv` holds whatever clients do: `LinksOK` says that a node not in use is on
  the free list, one in use is in exactly one slot or its callback runs;
  `CountsOK` that without straying the callback that runs belongs to the timer
  its node still holds. From it `NodesStayLinked` and `ArmedStaysArmed`.
- `IInv` adds `Timing`. A node in a slot of the finest wheel is due less than a
  turn ahead, at the tick that drains this slot. A node in a coarser wheel has
  a time, not later than it is due, at which its slot is cascaded and to which
  the clock has not yet come. Placing a node and cascading a slot keep this,
  with the arithmetic of the wheels stated as lemmas. From it `NobodyIsLate`
  and `CallbacksOnTime`.
- These last two are theorems about clients that satisfy `NoFullTurn`: in
  callbacks no delay of a full turn of the finest wheel, and no interval one
  tick short of it. That is exactly the case in which the code does fire early
  (run `timer_full_turn`); all other delays are covered, longer ones included.

**`EventManagerProofs`**.

- The reference counts need the lists (a node that goes with its Event must not
  be held), the lists need the walks (a node whose listener is gone stays
  linked while a walk holds it), and what a walk has called needs the order of
  the list. `IInv` has `InListOrder` for the last: what a walk owes comes at or
  after its place, what it has called before it.
- `CountsExact`, `ListsIndexed`, `WalksStayLinked`, `EveryListenerCalled`,
  `TypeCorrect`, and the action property `NoSecondCall`.

**`EcsProofs`**.

- `IInv` has one part for each kind of state. `FramesOK`: what each operation
  holds on to, where it can stand, and what can run inside what. `NodesOK`:
  counts, list, registry, and what a walk stands at and owes. `EntityPlaces`:
  an entity allocated is registered or being removed, what was begun before a
  removal does not use its entity, and what was begun before a
  `RemoveAllEntity` uses nothing registered. `ComponentPlaces`: a component is
  in the place of its class in one entity, or the client's, or in the hands of
  one operation. `Swept`: a place that the sweep of a removal has passed holds
  only components added since, and none once `~Entity` has passed it.
- Lemmas about the shape of a step (an operation begins, returns or goes on)
  say which parts of `IInv` it cannot disturb, so that the lemma of an action is
  about the parts it can.
- `CountsExact`, `WalksStayLinked`, `RegistryStaysRight`, `EntitiesOwnedOnce`,
  `ComponentsOwnedOnce`, `RemovalsSwept`, `EveryEntityCalled`, `TypeCorrect`:
  every invariant of the run `ecs`. What the model assumes of clients (above)
  is assumed here too, as guards of the actions.

**`EntitySystemsProofs`**. The same argument about the nodes; beyond it
`SystemPlaces` (a system is in the table, or one destructor runs for it) and
`Adding` (the `AddSystem`s in progress are of distinct classes that are not in
the table). `NodesStaySafe`, `TableStaysRight`, `WalksComplete`: every
invariant of the run.

**`CmdLineProofs`**. `ThreadInv` relates `joinable_` to what each POSIX thread
may still do, and is kept by every action of `Thread` and `CmdLine`:
`JoinableExact`. For `LinesOnce` the property itself is inductive with the
types of the lines: the lines of `Waiting` are in the order of reading, and are
just those read and not yet done.

**`NetProofs`**, with `FieldsAssumption` (the fields of an id have values) and
`NetAssumption`. The latter bounds the connections accepted between `Init` and
`Uninit` by the number of increments, so that no connector is reused until its
increment wraps. `NoCrossTalk` needs that: after a wrap an id would lead to
another worker.

- `BuffersConserved` is almost inductive. `Stored` adds that no buffer is twice
  in the free list, in a queue or in what a connector has to write, `CallOK`
  that the room `Send` has seen is still there when it pushes (only the master
  pushes), and `ConnectorsOK` that a connector not in use has nothing to write.
- `NoCrossTalk` needs an account of ids. Those a connector ever has are
  `SlotId` of its worker and slot; `NextSlotId` shows, by the arithmetic of the
  bit fields, that counting the increment up leads from one to the next, so they
  only grow. An id on its way with the number of the connection the client meant
  is `Named`: it is less than the one its connector now has, or it is the same
  and the connector serves that connection. `Meant`, `Told`, `KnownOK` and
  `CallOK` say so of every id in a queue, in a worker's hand, told to the client
  or in its call. `Kept` is what every step does to a connector, and keeps all
  of that (`NamedKept`).
- The lemmas `Worker...` say what a kind of step does to one worker, as a
  relation between its record, queues and buffers before and after; those named
  `...Keeps` apply them to the actions. `BuffersAreConserved`,
  `ConnectionsAreKeptApart`.

**`RBTreeProofs`**, for any number of nodes and any keys, equal ones included.

- A walk up or down has no bound in the state, and the provers cannot do
  induction over it. The invariant speaks of neighbours only, in terms of three
  measures that are not in the code: `rank`, the place of each node in the
  order; `edge`, the first and the last place under each node; `height`, the
  black nodes on a way down from it. `Inv` says that such measures exist.
  `Ordered` says that the places are those from 1 to `length`, each taken once,
  that the keys do not fall from one place to the next, and that the child on a
  side takes just the places between the node's own and its edge. `Phase` says
  how the heights of children add up: everywhere in a tree at rest (`Calm`);
  with one red node perhaps under another in Insert's loop (`Rising`); with one
  black node missing on one side of `parent` in Erase's loop (`Lacking`).
- Each rotation is shown to move one child across and to swap two nodes, from
  the setters one by one. So the places stay and one node's edges change; what
  the heights lose or gain is linear arithmetic over at most five nodes. Each
  case of a loop, on either side, is a lemma: it ends `Calm`, or `Rising` or
  `Lacking` one level up. Insert and Erase shift the places behind the node up
  and down by one (`GrownRank`, `ShrunkRank`).
- What a walk returns is found from the counterexample at the least or greatest
  place or with the fewest places under it, which well-foundedness of the
  numbers gives without induction on the tree: `Next` returns the node one
  place on, the search for a key falls off between the last node not above it
  and the first one above it, `InOrder` lists the nodes by place.
- `TreeBalanced`, `TreeAnswers`: both invariants of the run `rbtree`.
  `TreeImplementsList`: the refinement of `SortedNodes`. A list of the nodes by
  their places is unique, so a loop that keeps the places keeps the list.
- These are theorems about clients for which `InnerErases` and `LowErases` are
  false, as in the run: none erases a node with two children, or a key below
  all keys. In these two cases the code does break the tree or the promise
  (above). An erase by the least key may take any number of nodes: `FromFirst`
  says that they are the first of the order, and `FirstGoes` that what is left
  of them still is when one has gone.

What stays with TLC, and why:

- the liveness properties (`EveryValueLeaves`, `UpdateReturns`, `StopEnds`,
  `UninitEnds`): the provers have no support for fairness;
- `Sorts`: what the loops of a sort compute for every array needs induction
  over data, which the provers cannot do here;
- that `timer_full_turn`, `event_closure` and `rbtree_bounds` find what they
  find: these are statements the code does not keep.

## Plan

In this order; each stage lists its modules, what they compose and what is
worth proving.

1. *Done*: SPSC queue with proofs, timer manager, events.
2. *Done*: `Ecs`, `EntitySystems`, `RBTree` over `SortedNodes`, `Thread` and
   `CmdLine`, `Sorts`.
3. *Done*: `Net` over queues as `BoundedFifo` promises them, `NetConnectionId`.
4. *Done*: the safety properties of `EventManager`, `EntitySystems`, `Ecs`,
   `Thread` and `CmdLine` as theorems, for any number of objects and any
   nesting.
5. *Done*: list consistency of `TimerManager`, and due times for any wheels.
6. *Done*: `BuffersConserved` and `NoCrossTalk` for any number of workers,
   connectors and buffers.
7. *Done*: for `RBTree`, balance, the answers to queries and the refinement of
   `SortedNodes`, for any number of nodes.
8. *Left*: the receiving half of the network layer, once the code has it; a
   repaired `RBTreeNode::Erase`, for which `InnerErases` could be true.

## Not modelled

Sockets, epoll, logging, files, dates, random numbers: wrappers of the system
with no state of the program's own. Templates, macros, vectors and conversions:
no behaviour over time. In the network layer: received data and the output
buffers (`GetFreeOutputBuffer` returns `nullptr` whatever it pops, so no
`kRecv` event is ever built), initialisation that fails half way. Allocation failure and exceptions thrown by callbacks:
the code has no path for them. Simple events forward to `EventManager` and add
nothing to it.
