-------------------------------- MODULE Net --------------------------------
(***************************************************************************)
(* The network layer: NetMaster of net/net_master.cpp, which one thread    *)
(* uses, and its NetWorkers of net/net_worker.cpp, a thread each.  They    *)
(* talk over bounded queues with one producer and one consumer (module     *)
(* BoundedFifo, which SPSCQueue implements): input events and the output   *)
(* events, and the free list of the buffers that carry what is sent.       *)
(* A load of a queue index may be stale, so a queue may be taken for full  *)
(* or empty when it no longer is; room once seen stays.                    *)
(*                                                                         *)
(* The layer is unfinished.  What the code declares or leaves as a stub,   *)
(* the event callbacks of the worker above all, is external: it does what  *)
(* its name and its callers ask for.  Nothing calls HandleInputEvent yet;  *)
(* here a worker may call it in any round of its loop.                     *)
(***************************************************************************)
EXTENDS NetConnectionId, SequencesExt, FiniteSets

CONSTANTS
  WorkerCount,
  ConnectorCount,  \* connectors of a worker
  Buffers,         \* input buffers of a worker
  InputEvents,     \* input_event_count: the capacity of in_queue
  OutputEvents,    \* output_event_count
  MaxAcceptors,    \* bound: acceptors the client adds
  MaxPeers,        \* bound: peer connectors
  MaxConnections,  \* bound: connections accepted between Init and Uninit
  None

Workers == 0 .. WorkerCount - 1
Slots == 0 .. ConnectorCount - 1

(* No increment wraps into the worker's field, and no index is too large. *)
ASSUME NetAssumption ==
  /\ WorkerCount \in 1 .. 255 /\ ConnectorCount \in 1 .. Indexes
  /\ InputEvents \in Nat \ {0} /\ OutputEvents \in Nat \ {0}
  /\ MaxAcceptors \in 0 .. Indexes /\ MaxPeers \in 0 .. Indexes
  /\ MaxConnections \in 0 .. Increments - 1
  /\ IsFiniteSet(Buffers) /\ None \notin Buffers

VARIABLES
  up,          \* between the master's Init and Uninit
  acceptors,   \* acceptor_list_ of the master: the ids
  peers,       \* peer_connector_list_ of the master: the ids
  call,        \* the call of the master in progress
  known,       \* what the client was told: accepted connections, as [id, number]
  in_queue,    \* per worker: input_event_list_
  in_free,     \* per worker: input_buffer_free_list_
  out_queue,   \* per worker: output_event_list_
  data,        \* per worker: what its buffers hold: the number of the connection
               \*   the client meant, or 0
  worker,      \* per worker: what its thread does, and its lists
  stop,        \* per worker: stop_flag_
  wakeup,      \* per worker: the event descriptor has something to read
  freed,       \* per worker: how often the queues have been deleted
  dropped,     \* per worker: buffers SendTo forgot
  accepted     \* not in the code: connections accepted so far

master_vars == <<up, acceptors, peers, call, known>>
queue_vars == <<in_queue, in_free, out_queue>>
stop_vars == <<stop, wakeup, freed>>
vars == <<master_vars, queue_vars, stop_vars, data, worker, dropped, accepted>>

-----------------------------------------------------------------------------
Event(type, id, buffer) == [type |-> type, id |-> id, buffer |-> buffer]

NoCall == [op |-> "none", w |-> 0, id |-> 0, number |-> 0, buffer |-> None]

Put(queue, w, e) == [queue EXCEPT ![w] = Append(@, e)]

HasRoom(w) == Len(in_queue[w]) < InputEvents

(* A worker before its thread has done anything; number counts connections.  *)
NewWorker(w) ==
  [at        |-> "test",
   event     |-> None,
   todo      |-> 0,
   acceptors |-> <<>>,
   peers     |-> <<>>,
   connector |-> [i \in Slots |-> [id |-> InitNetConnectionID(kConnector, w, i),
                                   number |-> 0, handler |-> kNetConnectionIDInvalid,
                                   write |-> <<>>]],
   free      |-> [i \in 1 .. ConnectorCount |-> i - 1]]

(* The master is constructed; its workers are not. *)
Init ==
  /\ up = FALSE
  /\ acceptors = <<>> /\ peers = <<>>
  /\ call = NoCall
  /\ known = {}
  /\ in_queue = [w \in Workers |-> <<>>]
  /\ in_free = [w \in Workers |-> <<>>]
  /\ out_queue = [w \in Workers |-> <<>>]
  /\ data = [w \in Workers |-> [b \in Buffers |-> 0]]
  /\ worker = [w \in Workers |-> [NewWorker(w) EXCEPT !.at = "ended"]]
  /\ stop = [w \in Workers |-> FALSE]
  /\ wakeup = [w \in Workers |-> FALSE]
  /\ freed = [w \in Workers |-> 0]
  /\ dropped = [w \in Workers |-> {}]
  /\ accepted = 0

-----------------------------------------------------------------------------
(* The master's thread: the client. *)

ClientRuns == up /\ call.op = "none"

(* Init of the master and of all workers succeeds. *)
MasterInit ==
  /\ ~up /\ call.op = "none"
  /\ up' = TRUE
  /\ in_free' = [w \in Workers |-> SetToSeq(Buffers)]
  /\ worker' = [w \in Workers |-> NewWorker(w)]
  /\ stop' = [w \in Workers |-> FALSE]
  /\ freed' = [w \in Workers |-> 0]
  /\ UNCHANGED <<acceptors, peers, call, known, in_queue, out_queue, data, wakeup,
                 dropped, accepted>>

AddAcceptor ==
  /\ ClientRuns
  /\ Len(acceptors) < MaxAcceptors
  /\ LET id == InitNetConnectionID(kAcceptor, 0, Len(acceptors))
     IN /\ acceptors' = Append(acceptors, id)
        /\ call' = [NoCall EXCEPT !.op = "accept", !.id = id]
  /\ UNCHANGED <<up, peers, known, queue_vars, stop_vars, data, worker, dropped,
                 accepted>>

(* The event goes to each worker in turn; one without room goes without it. *)
TellAcceptor ==
  /\ call.op = "accept"
  /\ \/ /\ HasRoom(call.w)
        /\ in_queue' = Put(in_queue, call.w, Event("accept", call.id, None))
     \/ UNCHANGED in_queue
  /\ call' = IF call.w + 1 \in Workers THEN [call EXCEPT !.w = @ + 1] ELSE NoCall
  /\ UNCHANGED <<up, acceptors, peers, known, in_free, out_queue, stop_vars, data,
                 worker, dropped, accepted>>

(* The worker of the peer connector at a position from 0. *)
PeerWorker(index) == index % WorkerCount

AddPeerConnector ==
  /\ ClientRuns
  /\ Len(peers) < MaxPeers
  /\ LET id == InitNetConnectionID(kPeerConnector, 0, Len(peers))
         w  == PeerWorker(Len(peers))
     IN /\ HasRoom(w)
        /\ peers' = Append(peers, id)
        /\ in_queue' = Put(in_queue, w, Event("peer", id, None))
  /\ UNCHANGED <<up, acceptors, call, known, in_free, out_queue, stop_vars, data,
                 worker, dropped, accepted>>

(* The worker that Send and Disconnect turn to. *)
WorkerOf(id) ==
  IF ParseNetConnectionType(id) = kConnector THEN ParseNetWorkerIndex(id)
  ELSE PeerWorker(ParseNetConnectionIndex(id))

(* Where a client may send: accepted connections it heard of, if closed by    *)
(* now, and its peer connectors, numbered 0.                                 *)
Targets == known \cup {[id |-> id, number |-> 0] : id \in Range(peers)}

(* Mutant: the room is not asked for. *)
SendUnasked(c) ==
  /\ ClientRuns
  /\ call' = [NoCall EXCEPT !.op = "send", !.w = WorkerOf(c.id), !.id = c.id,
                            !.number = c.number]
  /\ UNCHANGED <<up, acceptors, peers, known, queue_vars, stop_vars, data, worker,
                 dropped, accepted>>

(* Send goes on when it has seen room for its event; c is a target. *)
Send(c) ==
  /\ ClientRuns
  /\ HasRoom(WorkerOf(c.id))
  /\ call' = [NoCall EXCEPT !.op = "send", !.w = WorkerOf(c.id), !.id = c.id,
                            !.number = c.number]
  /\ UNCHANGED <<up, acceptors, peers, known, queue_vars, stop_vars, data, worker,
                 dropped, accepted>>

(* It takes a free buffer and fills it, or finds none and returns. *)
SendTakes ==
  /\ call.op = "send"
  /\ \/ /\ in_free[call.w] # <<>>
        /\ LET b == Head(in_free[call.w]) IN
           /\ in_free' = [in_free EXCEPT ![call.w] = Tail(@)]
           /\ data' = [data EXCEPT ![call.w][b] = call.number]
           /\ call' = [call EXCEPT !.op = "push", !.buffer = b]
     \/ call' = NoCall /\ UNCHANGED <<in_free, data>>
  /\ UNCHANGED <<up, acceptors, peers, known, in_queue, out_queue, stop_vars, worker,
                 dropped, accepted>>

(* If AddInputEvent fails Send returns, and nobody has the buffer. *)
SendPushes ==
  /\ call.op = "push"
  /\ in_queue' = IF HasRoom(call.w)
                 THEN Put(in_queue, call.w, Event("send", call.id, call.buffer))
                 ELSE in_queue
  /\ call' = NoCall
  /\ UNCHANGED <<up, acceptors, peers, known, in_free, out_queue, stop_vars, data,
                 worker, dropped, accepted>>

Disconnect(c) ==
  /\ ClientRuns
  /\ ParseNetConnectionType(c.id) = kConnector
  /\ HasRoom(WorkerOf(c.id))
  /\ in_queue' = Put(in_queue, WorkerOf(c.id), Event("disconnect", c.id, None))
  /\ UNCHANGED <<master_vars, in_free, out_queue, stop_vars, data, worker, dropped,
                 accepted>>

-----------------------------------------------------------------------------
(* Update of the master takes output events of each worker in turn and runs  *)
(* callbacks of the client, which may make any call but Uninit, Update too.  *)
(* A worker's turn ends when its queue is taken for empty or handle_count    *)
(* events have been handled, so Update may pass any worker by: a step stands *)
(* for Update, nested or not, getting to an event of worker w, and what      *)
(* callbacks do for calls between two such steps.                            *)

(* The acceptor or peer connector an output event names is there. *)
HasHandler(id) ==
  CASE ParseNetConnectionType(id) = kAcceptor -> Contains(acceptors, id)
    [] ParseNetConnectionType(id) = kPeerConnector -> Contains(peers, id)
    [] OTHER -> FALSE

(* GetOutputEvent, declared only: the first event leaves the queue. *)
GetOutputEvent(w) ==
  /\ out_queue[w] # <<>>
  /\ out_queue' = [out_queue EXCEPT ![w] = Tail(@)]

(* The client learns of an accepted connection in the callback. *)
HandleOutputEvent(w) ==
  /\ ClientRuns
  /\ GetOutputEvent(w)
  /\ LET e == Head(out_queue[w])
         learns == /\ HasHandler(e.handler) /\ e.type = "connected"
                   /\ ParseNetConnectionType(e.id) = kConnector
     IN known' = IF learns THEN known \cup {[id |-> e.id, number |-> e.number]} ELSE known
  /\ UNCHANGED <<up, acceptors, peers, call, in_queue, in_free, stop_vars, data, worker,
                 dropped, accepted>>

-----------------------------------------------------------------------------
(* Uninit of the master: for each worker Uninit, then its destructor, which  *)
(* calls Uninit again.                                                       *)

Uninit ==
  /\ ClientRuns
  /\ call' = [NoCall EXCEPT !.op = "stop"]
  /\ UNCHANGED <<up, acceptors, peers, known, queue_vars, stop_vars, data, worker,
                 dropped, accepted>>

UninitStops ==
  /\ call.op = "stop"
  /\ stop' = [stop EXCEPT ![call.w] = TRUE]
  /\ call' = [call EXCEPT !.op = "wake"]
  /\ UNCHANGED <<up, acceptors, peers, known, queue_vars, wakeup, freed, data, worker,
                 dropped, accepted>>

WakeupNobody(w) == UNCHANGED wakeup   \* Mutant: nothing is written.

Wakeup(w) == wakeup' = [wakeup EXCEPT ![w] = TRUE]

UninitWakes ==
  /\ call.op = "wake"
  /\ Wakeup(call.w)
  /\ call' = [call EXCEPT !.op = "join"]
  /\ UNCHANGED <<up, acceptors, peers, known, queue_vars, stop, freed, data, worker,
                 dropped, accepted>>

(* The thread has ended: the descriptors are closed, the queues deleted. *)
UninitJoins ==
  /\ call.op = "join"
  /\ worker[call.w].at = "ended"
  /\ freed' = [freed EXCEPT ![call.w] = @ + 1]
  /\ wakeup' = [wakeup EXCEPT ![call.w] = FALSE]
  /\ call' = [call EXCEPT !.op = "delete"]
  /\ UNCHANGED <<up, acceptors, peers, known, queue_vars, stop, data, worker, dropped,
                 accepted>>

(* In the destructor there is nothing to wake and to join; the queues are    *)
(* deleted once more, which is undefined in the code: freed counts it, and   *)
(* all goes on.  After the last worker the lists are cleared.                *)
DeleteWorker ==
  /\ call.op = "delete"
  /\ freed' = [freed EXCEPT ![call.w] = @ + 1]
  /\ \/ /\ call.w + 1 \in Workers
        /\ call' = [NoCall EXCEPT !.op = "stop", !.w = call.w + 1]
        /\ UNCHANGED <<up, acceptors, peers, known, queue_vars, data, worker, dropped,
                       accepted>>
     \/ /\ call.w + 1 \notin Workers
        /\ call' = NoCall
        /\ up' = FALSE
        /\ acceptors' = <<>> /\ peers' = <<>> /\ known' = {}
        /\ in_queue' = [w \in Workers |-> <<>>]
        /\ in_free' = [w \in Workers |-> <<>>]
        /\ out_queue' = [w \in Workers |-> <<>>]
        /\ data' = [w \in Workers |-> [b \in Buffers |-> 0]]
        /\ worker' = [w \in Workers |-> [NewWorker(w) EXCEPT !.at = "ended"]]
        /\ dropped' = [w \in Workers |-> {}]
        /\ accepted' = 0
  /\ UNCHANGED <<stop, wakeup>>

-----------------------------------------------------------------------------
(* The thread of worker w.  A round of Run: the test of stop_flag_ ("test"), *)
(* epoll_wait ("wait"), OnWakeup ("woken"), the callbacks of the handlers    *)
(* ("events") and, maybe, HandleInputEvent at the end ("input" before an     *)
(* event is popped, "handle" with one in hand).                              *)

At(w, place) == worker[w].at = place

Goes(w, place) == worker' = [worker EXCEPT ![w].at = place]

(* The flag is stored before the wake-up is written and loaded after it is   *)
(* read: the system calls keep that order.                                   *)
LoopTest(w) ==
  /\ At(w, "test")
  /\ Goes(w, IF stop[w] THEN "ended" ELSE "wait")
  /\ UNCHANGED <<master_vars, queue_vars, stop_vars, data, dropped, accepted>>

EpollWait(w) ==
  /\ At(w, "wait") /\ wakeup[w]
  /\ Goes(w, "woken")
  /\ UNCHANGED <<master_vars, queue_vars, stop_vars, data, dropped, accepted>>

(* A socket is ready, or a signal arrived. *)
EpollEvents(w) ==
  /\ At(w, "wait")
  /\ Goes(w, "events")
  /\ UNCHANGED <<master_vars, queue_vars, stop_vars, data, dropped, accepted>>

OnWakeup(w) ==
  /\ At(w, "woken")
  /\ Goes(w, "events")
  /\ wakeup' = [wakeup EXCEPT ![w] = FALSE]
  /\ UNCHANGED <<master_vars, queue_vars, stop, freed, data, dropped, accepted>>

RoundEnds(w) ==
  /\ At(w, "events")
  /\ Goes(w, "test")
  /\ UNCHANGED <<master_vars, queue_vars, stop_vars, data, dropped, accepted>>

(* It handles as many events as ReadAvailable finds, which may miss the      *)
(* newest; with none it is no more than the end of the round.                *)
HandleInputEvent(w) ==
  /\ At(w, "events")
  /\ \E size \in 1 .. Len(in_queue[w]) :
       worker' = [worker EXCEPT ![w].at = "input", ![w].todo = size]
  /\ UNCHANGED <<master_vars, queue_vars, stop_vars, data, dropped, accepted>>

PopInput(w) ==
  /\ At(w, "input")
  /\ worker' = [worker EXCEPT ![w].at = "handle", ![w].todo = @ - 1,
                              ![w].event = Head(in_queue[w])]
  /\ in_queue' = [in_queue EXCEPT ![w] = Tail(@)]
  /\ UNCHANGED <<master_vars, in_free, out_queue, stop_vars, data, dropped, accepted>>

-----------------------------------------------------------------------------
(* What the worker does with the event in hand. *)

Handles(w, type) == At(w, "handle") /\ worker[w].event.type = type

Handled(w) ==
  [worker[w] EXCEPT !.at = IF worker[w].todo = 0 THEN "test" ELSE "input", !.event = None]

(* FreeInputBuffer, declared only: buffers are emptied and free again. *)
FreeInputBuffers(w, list) ==
  /\ in_free' = [in_free EXCEPT ![w] = @ \o list]
  /\ data' = [data EXCEPT ![w] = [b \in Buffers |-> IF b \in Range(list) THEN 0
                                                    ELSE @[b]]]

(* The connector of an id, if it still is that connection's. *)
HasConnector(w, id) == worker[w].connector[ParseNetConnectionIndex(id)].id = id

(* A buffer for a closed connection is free again; one for a peer connector  *)
(* is forgotten.                                                             *)
SendTo(w) ==
  /\ Handles(w, "send")
  /\ LET e == worker[w].event
         i == ParseNetConnectionIndex(e.id)
     IN \/ /\ ParseNetConnectionType(e.id) = kConnector /\ HasConnector(w, e.id)
           /\ worker' = [worker EXCEPT ![w] =
                [Handled(w) EXCEPT !.connector[i].write = Append(@, e.buffer)]]
           /\ UNCHANGED <<in_free, data, dropped>>
        \/ /\ ParseNetConnectionType(e.id) = kConnector /\ ~HasConnector(w, e.id)
           /\ worker' = [worker EXCEPT ![w] = Handled(w)]
           /\ FreeInputBuffers(w, <<e.buffer>>)
           /\ UNCHANGED dropped
        \/ /\ ParseNetConnectionType(e.id) = kPeerConnector
           /\ worker' = [worker EXCEPT ![w] = Handled(w)]
           /\ dropped' = [dropped EXCEPT ![w] = @ \cup {e.buffer}]
           /\ UNCHANGED <<in_free, data>>
  /\ UNCHANGED <<master_vars, in_queue, out_queue, stop_vars, accepted>>

(* A list with the id at its index: grown with invalid ids as far as needed, *)
(* and unchanged where there is an id.                                       *)
WithId(list, id) ==
  LET index == ParseNetConnectionIndex(id) + 1
      grown == [i \in 1 .. (IF Len(list) < index THEN index ELSE Len(list)) |->
                 IF i \in DOMAIN list THEN list[i] ELSE kNetConnectionIDInvalid]
  IN IF grown[index] # kNetConnectionIDInvalid THEN grown
     ELSE [grown EXCEPT ![index] = id]

Accept(w) ==
  /\ Handles(w, "accept")
  /\ worker' = [worker EXCEPT ![w] =
       [Handled(w) EXCEPT !.acceptors = WithId(@, worker[w].event.id)]]
  /\ UNCHANGED <<master_vars, queue_vars, stop_vars, data, dropped, accepted>>

(* Without a socket nothing gets the id; if Connect fails all goes on. *)
PeerConnect(w) ==
  /\ Handles(w, "peer")
  /\ \/ worker' = [worker EXCEPT ![w] =
          [Handled(w) EXCEPT !.peers = WithId(@, worker[w].event.id)]]
     \/ worker' = [worker EXCEPT ![w] = Handled(w)]
  /\ UNCHANGED <<master_vars, queue_vars, stop_vars, data, dropped, accepted>>

(* The connector at a slot of worker record r gets its next id and is free. *)
FreeNetConnector(r, i) ==
  [r EXCEPT !.connector[i].id = NextNetConnectionID(@), !.free = Append(@, i)]

(* The part of Disconnect, declared only, that empties a connector: the      *)
(* connection is over and nothing is left to write to it.                    *)
Cleared(r, i) ==
  [r EXCEPT !.connector[i] = [@ EXCEPT !.number = 0, !.handler = kNetConnectionIDInvalid,
                                       !.write = <<>>]]

(* AddOutputEvent: without room the master never hears of it. *)
AddOutputEvent(w, type, c) ==
  out_queue' = IF Len(out_queue[w]) < OutputEvents
               THEN Put(out_queue, w, [type |-> type, id |-> c.id, number |-> c.number,
                                       handler |-> c.handler])
               ELSE out_queue

(* Closing a connector, in worker record r, frees what it had to write. *)
CloseConnector(w, r, i) ==
  /\ worker' = [worker EXCEPT ![w] = FreeNetConnector(Cleared(r, i), i)]
  /\ FreeInputBuffers(w, r.connector[i].write)
  /\ AddOutputEvent(w, "disconnected", r.connector[i])

WorkerDisconnect(w) ==
  /\ Handles(w, "disconnect")
  /\ IF HasConnector(w, worker[w].event.id)
     THEN CloseConnector(w, Handled(w), ParseNetConnectionIndex(worker[w].event.id))
     ELSE /\ worker' = [worker EXCEPT ![w] = Handled(w)]
          /\ UNCHANGED <<in_free, out_queue, data>>
  /\ UNCHANGED <<master_vars, in_queue, stop_vars, dropped, accepted>>

-----------------------------------------------------------------------------
(* What the callbacks of the handlers are for: OnAcceptorEvents,             *)
(* OnPeerConnectorEvents and OnConnectorEvents, which the code leaves empty. *)

(* The next free connector takes a connection of an acceptor. *)
AcceptConnection(w) ==
  /\ At(w, "events") /\ worker[w].free # <<>> /\ accepted < MaxConnections
  /\ \E handler \in Range(worker[w].acceptors) \ {kNetConnectionIDInvalid} :
       LET i == Head(worker[w].free)
           c == [worker[w].connector[i] EXCEPT !.number = accepted + 1,
                                               !.handler = handler]
       IN /\ worker' = [worker EXCEPT ![w].free = Tail(@), ![w].connector[i] = c]
          /\ AddOutputEvent(w, "connected", c)
  /\ accepted' = accepted + 1
  /\ UNCHANGED <<master_vars, in_queue, in_free, stop_vars, data, dropped>>

(* A buffer has been written to its connection. *)
ConnectorWrites(w, i) ==
  /\ At(w, "events") /\ worker[w].connector[i].write # <<>>
  /\ worker' = [worker EXCEPT ![w].connector[i].write = Tail(@)]
  /\ FreeInputBuffers(w, <<Head(worker[w].connector[i].write)>>)
  /\ UNCHANGED <<master_vars, in_queue, out_queue, stop_vars, dropped, accepted>>

ConnectorCloses(w, i) ==
  /\ At(w, "events") /\ worker[w].connector[i].handler # kNetConnectionIDInvalid
  /\ CloseConnector(w, worker[w], i)
  /\ UNCHANGED <<master_vars, in_queue, stop_vars, dropped, accepted>>

-----------------------------------------------------------------------------
ClientCalls ==
  \/ MasterInit \/ AddAcceptor \/ AddPeerConnector \/ Uninit
  \/ \E c \in Targets : Send(c) \/ Disconnect(c)
  \/ \E w \in Workers : HandleOutputEvent(w)

MasterGoesOn ==
  \/ TellAcceptor \/ SendTakes \/ SendPushes
  \/ UninitStops \/ UninitWakes \/ UninitJoins \/ DeleteWorker

(* What the thread of a worker does unless it sleeps. *)
WorkerGoesOn(w) ==
  \/ LoopTest(w) \/ EpollWait(w) \/ OnWakeup(w) \/ RoundEnds(w)
  \/ PopInput(w)
  \/ SendTo(w) \/ Accept(w) \/ PeerConnect(w) \/ WorkerDisconnect(w)

WorkerMay(w) ==
  \/ EpollEvents(w) \/ HandleInputEvent(w) \/ AcceptConnection(w)
  \/ \E i \in Slots : ConnectorWrites(w, i) \/ ConnectorCloses(w, i)

Next ==
  \/ ClientCalls \/ MasterGoesOn
  \/ \E w \in Workers : WorkerGoesOn(w) \/ WorkerMay(w)

Spec == Init /\ [][Next]_vars

(* The master's thread runs on once in Uninit, and a worker's thread unless  *)
(* it sleeps.  No socket need ever be ready, nor the client call anything.   *)
Fairness ==
  /\ WF_vars(UninitStops \/ UninitWakes \/ UninitJoins \/ DeleteWorker)
  /\ \A w \in Workers : WF_vars(WorkerGoesOn(w))

FairSpec == Spec /\ Fairness

-----------------------------------------------------------------------------
(* Properties *)

(* The buffers of worker w, place by place. *)
BuffersOf(queue) == {e.buffer : e \in {e \in Range(queue) : e.type = "send"}}

Places(w) ==
  <<Range(in_free[w]),
    IF call.op = "push" /\ call.w = w THEN {call.buffer} ELSE {},
    BuffersOf(in_queue[w]),
    IF At(w, "handle") THEN {worker[w].event.buffer} \ {None} ELSE {},
    UNION {Range(worker[w].connector[i].write) : i \in Slots},
    dropped[w]>>

(* Send, SendTo, FreeInputBuffer: while the workers are there each input     *)
(* buffer is in exactly one place: free, in a client's call, on its way to   *)
(* the worker, in a connector's write list, or among the buffers SendTo      *)
(* drops for want of a peer connector (net_worker.cpp:250), which never come *)
(* back.  No other path loses one, and no two calls fill the same.           *)
BuffersConserved ==
  up => \A w \in Workers :
    LET places == Places(w) IN
      /\ UNION Range(places) = Buffers
      /\ \A p, q \in DOMAIN places : p < q => places[p] \cap places[q] = {}

(* GetConnector, FreeNetConnector: what a connector has to write was sent to *)
(* the connection it serves, though the client may send to connections that  *)
(* have closed and whose connector serves another by now.                    *)
NoCrossTalk ==
  \A w \in Workers : \A i \in Slots :
    \A b \in Range(worker[w].connector[i].write) :
      data[w][b] = worker[w].connector[i].number

(* Uninit and Run: stop flag, wake-up and join come to an end whatever the   *)
(* workers are doing, asleep without a timeout included.  What the second    *)
(* delete of the queues then does (net_worker.cpp:113) is undefined, and no  *)
(* part of this: here it only counts in freed.                               *)
UninitEnds == call.op \in {"stop", "wake", "join", "delete"} ~> ~up
=============================================================================
