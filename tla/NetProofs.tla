----------------------------- MODULE NetProofs -----------------------------
(***************************************************************************)
(* Proofs about Net, for any number of workers, connectors and buffers:    *)
(* no input buffer is lost or in two places, and what a connector writes   *)
(* was sent to the connection that it serves.                              *)
(*                                                                         *)
(* The second rests on the ids.  Those that a connector ever has are       *)
(* SlotId of its worker and its slot; they only grow, and each connection  *)
(* has one of its own as long as no increment wraps.  An id that is on its *)
(* way, with a number the client meant, is Named: it is that of the        *)
(* connection with this number, or an id the connector no longer has.      *)
(***************************************************************************)
EXTENDS Net, SequenceTheorems, FiniteSetTheorems, TLAPS

(* The id of the connector at slot i of worker w when it has been freed k    *)
(* times.                                                                    *)
SlotId(w, i, k) == w * WorkerUnit + (k * Indexes + i)

Times == 0 .. Increments - 1

Numbers == 0 .. MaxConnections

PeerId(p) == InitNetConnectionID(kPeerConnector, 0, p)

InUse(x) == x.handler # kNetConnectionIDInvalid

-----------------------------------------------------------------------------
(* Types *)

InputEvent == [type: {"send", "accept", "peer", "disconnect"}, id: Nat,
               buffer: Buffers \cup {None}]

OutputEvent == [type: {"connected", "disconnected"}, id: Nat, number: Numbers, handler: Nat]

Connector == [id: Nat, number: Numbers, handler: Nat, write: Seq(Buffers)]

Worker ==
  [at: {"test", "wait", "woken", "events", "input", "handle", "ended"},
   event: InputEvent \cup {None}, todo: Nat, acceptors: Seq(Nat), peers: Seq(Nat),
   connector: [Slots -> Connector], free: Seq(Slots)]

Call ==
  [op: {"none", "accept", "send", "push", "stop", "wake", "join", "delete"},
   w: Workers, id: Nat, number: Numbers, buffer: Buffers \cup {None}]

TypeOK ==
  /\ up \in BOOLEAN
  /\ acceptors \in Seq(Nat) /\ peers \in Seq(Nat)
  /\ call \in Call
  /\ known \in SUBSET [id: Nat, number: Numbers]
  /\ in_queue \in [Workers -> Seq(InputEvent)]
  /\ in_free \in [Workers -> Seq(Buffers)]
  /\ out_queue \in [Workers -> Seq(OutputEvent)]
  /\ data \in [Workers -> [Buffers -> Nat]]
  /\ worker \in [Workers -> Worker]
  /\ dropped \in [Workers -> SUBSET Buffers]
  /\ accepted \in Nat /\ accepted <= MaxConnections

-----------------------------------------------------------------------------
(* What is true of a worker that is there: f its free buffers, c the call in *)
(* progress, q its input events, r its record, l the buffers SendTo forgot,  *)
(* d the data of the buffers, o its output events, n how many connections    *)
(* have been accepted.                                                       *)

(* An id and the number of the connection it was meant for. *)
Named(w, r, id, number) ==
  \E i \in Slots, k \in Times :
    /\ id = SlotId(w, i, k)
    /\ id <= r.connector[i].id
    /\ id = r.connector[i].id => InUse(r.connector[i]) /\ r.connector[i].number = number

IsPeerId(id) == \E p \in 0 .. MaxPeers - 1 : id = PeerId(p)

(* The buffer that Send has taken for worker w. *)
Taken(w, c) == IF c.op = "push" /\ c.w = w THEN {c.buffer} ELSE {}

(* The buffer in the worker's hand. *)
InHand(r) == IF r.at = "handle" THEN {r.event.buffer} \ {None} ELSE {}

(* The buffers that connectors have to write. *)
Writes(r) == UNION {Range(r.connector[i].write) : i \in Slots}

(* Buffers are in one place each. *)
InOnePlace(a, b, c, d, e, f) ==
  /\ \A x \in Buffers : x \in a \/ x \in b \/ x \in c \/ x \in d \/ x \in e \/ x \in f
  /\ \A x \in a : /\ x \in Buffers /\ x \notin b /\ x \notin c
                   /\ x \notin d /\ x \notin e /\ x \notin f
  /\ \A x \in b : x \in Buffers /\ x \notin c /\ x \notin d /\ x \notin e /\ x \notin f
  /\ \A x \in c : x \in Buffers /\ x \notin d /\ x \notin e /\ x \notin f
  /\ \A x \in d : x \in Buffers /\ x \notin e /\ x \notin f
  /\ \A x \in e : x \in Buffers /\ x \notin f
  /\ \A x \in f : x \in Buffers

(* No two send events of an input queue have the same buffer. *)
SentOnce(q) ==
  \A j, k \in DOMAIN q : q[j].type = "send" /\ q[k].type = "send" /\ j # k =>
                           q[j].buffer # q[k].buffer

WrittenOnce(r) ==
  /\ \A i \in Slots : IsInjective(r.connector[i].write)
  /\ \A i, j \in Slots : i # j =>
       Range(r.connector[i].write) \cap Range(r.connector[j].write) = {}

Stored(w, f, c, q, r, l) ==
  /\ InOnePlace(Range(f), Taken(w, c), BuffersOf(q), InHand(r), Writes(r), l)
  /\ IsInjective(f) /\ SentOnce(q) /\ WrittenOnce(r)

(* A connector has been freed or is in use no more often than connections    *)
(* have been accepted.                                                       *)
ConnectorOK(w, i, x, n) ==
  /\ \E k \in Times : x.id = SlotId(w, i, k) /\ k + (IF InUse(x) THEN 1 ELSE 0) <= n
  /\ ~ InUse(x) => x.write = <<>>

ConnectorsOK(w, r, n) ==
  /\ \A i \in Slots : ConnectorOK(w, i, r.connector[i], n)
  /\ IsInjective(r.free)
  /\ \A k \in DOMAIN r.free : ~ InUse(r.connector[r.free[k]])

Meant(w, r, e, d) ==
  /\ e.type = "send" <=> e.buffer # None
  /\ e.type = "send" => Named(w, r, e.id, d[e.buffer]) \/ IsPeerId(e.id)
  /\ e.type = "disconnect" => \E number \in Numbers : Named(w, r, e.id, number)

EventsOK(w, q, r, d) ==
  /\ \A k \in DOMAIN q : Meant(w, r, q[k], d)
  /\ r.at = "handle" => r.event \in InputEvent /\ Meant(w, r, r.event, d) /\ r.todo <= Len(q)
  /\ r.at = "input" => r.todo > 0 /\ r.todo <= Len(q)

Told(w, o, r) ==
  \A k \in DOMAIN o : o[k].type = "connected" => Named(w, r, o[k].id, o[k].number)

Serves(r, d) ==
  \A i \in Slots : \A b \in Range(r.connector[i].write) : d[b] = r.connector[i].number

WorkerOK(w, f, c, q, r, l, d, o, n) ==
  /\ Stored(w, f, c, q, r, l)
  /\ ConnectorsOK(w, r, n)
  /\ EventsOK(w, q, r, d)
  /\ Told(w, o, r)
  /\ Serves(r, d)

-----------------------------------------------------------------------------
(* The inductive invariant *)

CallOK ==
  /\ call.op \in {"send", "push"} =>
       /\ Len(in_queue[call.w]) < InputEvents
       /\ \/ Named(call.w, worker[call.w], call.id, call.number)
          \/ IsPeerId(call.id)
  /\ call.op = "push" => call.buffer \in Buffers /\ data[call.w][call.buffer] = call.number

KnownOK ==
  \A x \in known : \E w \in Workers : Named(w, worker[w], x.id, x.number)

PeersOK ==
  /\ Len(peers) <= MaxPeers
  /\ \A k \in DOMAIN peers : peers[k] = PeerId(k - 1)

UpOK ==
  /\ CallOK /\ KnownOK /\ PeersOK
  /\ \A w \in Workers : WorkerOK(w, in_free[w], call, in_queue[w], worker[w],
                                 dropped[w], data[w], out_queue[w], accepted)

DownOK ==
  /\ peers = <<>> /\ call.op = "none" /\ known = {} /\ accepted = 0
  /\ \A w \in Workers :
       /\ in_queue[w] = <<>> /\ out_queue[w] = <<>> /\ dropped[w] = {}
       /\ worker[w].at = "ended"
       /\ \A i \in Slots : worker[w].connector[i].write = <<>>

IInv == TypeOK /\ (up => UpOK) /\ (~up => DownOK)
-----------------------------------------------------------------------------
(* Ids *)

(* The fields have values, and so has what the worker's lowest bit stands    *)
(* for.                                                                      *)
LEMMA Fields ==
  /\ Indexes \in Nat \ {0} /\ Increments \in Nat \ {0}
  /\ WorkerUnit \in Nat \ {0} /\ Indexes <= WorkerUnit
<1>1. Indexes \in Nat \ {0} /\ Increments \in Nat \ {0}
  BY FieldsAssumption
<1>2. Increments * Indexes \in Nat \ {0} /\ 1 * Indexes <= Increments * Indexes
  BY <1>1
<1> QED
  BY <1>1, <1>2 DEF WorkerUnit

(* A number and what is left of it when it is divided.                       *)
LEMMA Divided ==
  ASSUME NEW d \in Nat \ {0}, NEW q \in Nat, NEW r \in Nat, r < d
  PROVE  (q * d + r) \div d = q /\ (q * d + r) % d = r
<1>1. PICK n \in Nat : n = q * d + r
  <2>1. q * d \in Nat
    OBVIOUS
  <2> QED
    BY <2>1
<1>2. PICK p \in Int : p = n \div d
  OBVIOUS
<1>3. PICK m \in Int : m = n % d
  OBVIOUS
<1>4. n = d * p + m /\ 0 <= m /\ m < d
  BY <1>2, <1>3
<1>5. p = q
  <2>1. ASSUME p < q PROVE FALSE
    <3>1. p + 1 <= q
      BY <2>1
    <3>2. (p + 1) * d <= q * d
      BY <3>1
    <3>3. (p + 1) * d = d * p + d
      OBVIOUS
    <3> QED
      BY <1>1, <1>4, <3>2, <3>3
  <2>2. ASSUME q < p PROVE FALSE
    <3>1. q + 1 <= p
      BY <2>2
    <3>2. (q + 1) * d <= p * d
      BY <3>1
    <3>3. (q + 1) * d = q * d + d
      OBVIOUS
    <3> QED
      BY <1>1, <1>4, <3>2, <3>3
  <2> QED
    BY <2>1, <2>2
<1>6. m = r
  <2>1. d * p = q * d
    BY <1>5
  <2> QED
    BY <2>1, <1>1, <1>4
<1> QED
  BY <1>1, <1>2, <1>3, <1>5, <1>6

(* The part of a SlotId below the worker.                                    *)
LEMMA SlotPart ==
  ASSUME NEW i \in Slots, NEW k \in Times
  PROVE  k * Indexes + i \in Nat /\ k * Indexes + i < WorkerUnit
         /\ i \in Nat /\ i < Indexes /\ k \in Nat
<1>1. i \in Nat /\ i < Indexes /\ k \in Nat /\ k + 1 <= Increments
  BY Fields, NetAssumption DEF Slots, Times
<1>2. (k + 1) * Indexes <= Increments * Indexes
  BY <1>1, Fields
<1>3. (k + 1) * Indexes = k * Indexes + Indexes /\ k * Indexes \in Nat
  BY <1>1, Fields
<1> QED
  BY <1>1, <1>2, <1>3, Fields DEF WorkerUnit

(* Parsing a SlotId gives what it was made of.                               *)
LEMMA ParsedSlotId ==
  ASSUME NEW w \in Workers, NEW i \in Slots, NEW k \in Times
  PROVE  /\ SlotId(w, i, k) \in Nat
         /\ ParseNetConnectionType(SlotId(w, i, k)) = kConnector
         /\ ParseNetWorkerIndex(SlotId(w, i, k)) = w
         /\ ParseNetConnectionIndex(SlotId(w, i, k)) = i
<1>1. PICK low \in Nat : low = k * Indexes + i
  BY SlotPart
<1>2. low < WorkerUnit /\ i \in Nat /\ i < Indexes /\ k \in Nat
  BY <1>1, SlotPart
<1>3. w \in Nat /\ w <= 254
  BY NetAssumption DEF Workers
<1>4. PICK unit \in Nat \ {0} : unit = WorkerUnit
  BY Fields
<1>5. PICK id : id = SlotId(w, i, k)
  OBVIOUS
<1>6. id = w * unit + low
  BY <1>1, <1>4, <1>5 DEF SlotId
<1>7. w * unit \in Nat /\ w * unit <= 254 * unit
  BY <1>3, <1>4
<1>8. id \in Nat
  BY <1>6, <1>7
<1>9. ParseNetConnectionType(id) = kConnector
  <2>1. id < unit * 256
    BY <1>2, <1>4, <1>6, <1>7
  <2>2. PICK d \in Nat \ {0} : d = unit * 256
    BY <1>4
  <2>3. (0 * d + id) \div d = 0
    BY <2>1, <2>2, <1>8, Divided
  <2>4. 0 * d + id = id
    BY <1>8, <2>2
  <2> QED
    BY <2>2, <2>3, <2>4, <1>4 DEF ParseNetConnectionType, kConnector
<1>10. ParseNetWorkerIndex(id) = w
  <2>1. id \div unit = w
    BY <1>2, <1>3, <1>4, <1>6, Divided
  <2>2. w % 4096 = w
    BY <1>3
  <2> QED
    BY <2>1, <2>2, <1>4 DEF ParseNetWorkerIndex
<1>11. ParseNetConnectionIndex(id) = i
  <2>1. PICK q \in Nat : q = w * Increments + k
    BY <1>2, <1>3, Fields
  <2>2. id = q * Indexes + i
    <3>1. w * (Increments * Indexes) = (w * Increments) * Indexes
      BY <1>3, Fields
    <3>2. (w * Increments + k) * Indexes = (w * Increments) * Indexes + k * Indexes
      BY <1>2, <1>3, Fields
    <3>3. w * (Increments * Indexes) \in Nat /\ k * Indexes \in Nat
      BY <1>2, <1>3, Fields
    <3> QED
      BY <2>1, <3>1, <3>2, <3>3, <1>1, <1>2, <1>4, <1>6 DEF WorkerUnit
  <2>3. (q * Indexes + i) % Indexes = i
    BY <2>1, <1>2, Fields, Divided
  <2> QED
    BY <2>2, <2>3 DEF ParseNetConnectionIndex
<1> QED
  BY <1>5, <1>8, <1>9, <1>10, <1>11

(* A peer connector's id is not that of a connector.                         *)
LEMMA ParsedPeerId ==
  ASSUME NEW p \in 0 .. MaxPeers - 1
  PROVE  /\ PeerId(p) \in Nat
         /\ ParseNetConnectionType(PeerId(p)) = kPeerConnector
         /\ ParseNetConnectionIndex(PeerId(p)) = p
<1>1. p \in Nat /\ p < Indexes
  BY NetAssumption, Fields
<1>2. PICK unit \in Nat \ {0} : unit = WorkerUnit
  BY Fields
<1>3. PICK d \in Nat \ {0} : d = unit * 256
  BY <1>2
<1>4. PeerId(p) = 1 * d + p
  BY <1>1, <1>2, <1>3 DEF PeerId, InitNetConnectionID, kPeerConnector
<1>5. p < d
  BY <1>1, <1>2, <1>3, Fields
<1>6. ParseNetConnectionType(PeerId(p)) = kPeerConnector
  <2>1. (1 * d + p) \div d = 1
    BY <1>1, <1>3, <1>5, Divided
  <2> QED
    BY <2>1, <1>2, <1>3, <1>4 DEF ParseNetConnectionType, kPeerConnector
<1>7. ParseNetConnectionIndex(PeerId(p)) = p
  <2>1. PICK q \in Nat : q = 256 * Increments
    BY Fields
  <2>2. d = q * Indexes
    BY <1>2, <1>3, <2>1, Fields DEF WorkerUnit
  <2>3. (q * Indexes + p) % Indexes = p
    BY <2>1, <1>1, Fields, Divided
  <2>4. 1 * d + p = q * Indexes + p
    BY <2>2, <1>3
  <2> QED
    BY <2>3, <2>4, <1>4 DEF ParseNetConnectionIndex
<1> QED
  BY <1>1, <1>3, <1>4, <1>6, <1>7

(* Ids of a connector grow with how often it has been freed.                 *)
LEMMA SlotIdsGrow ==
  ASSUME NEW w \in Workers, NEW i \in Slots, NEW j \in Nat, NEW k \in Nat, j < k
  PROVE  SlotId(w, i, j) < SlotId(w, i, k)
<1>1. i \in Nat /\ w \in Nat
  BY DEF Slots, Workers
<1>2. j + 1 <= k
  OBVIOUS
<1>3. (j + 1) * Indexes <= k * Indexes
  BY <1>2, Fields
<1>4. (j + 1) * Indexes = j * Indexes + Indexes
  BY Fields
<1>5. j * Indexes \in Nat /\ k * Indexes \in Nat /\ w * WorkerUnit \in Nat
  BY <1>1, Fields
<1> QED
  BY <1>1, <1>3, <1>4, <1>5, Fields DEF SlotId

(* Freeing a connector counts its increment up; as long as the increment     *)
(* does not wrap nothing else of the id changes.                             *)
LEMMA NextSlotId ==
  ASSUME NEW w \in Workers, NEW i \in Slots, NEW k \in Times, k + 1 \in Times
  PROVE  NextNetConnectionID(SlotId(w, i, k)) = SlotId(w, i, k + 1)
<1>1. i \in Nat /\ i < Indexes /\ k \in Nat /\ k + 1 < Increments
  BY SlotPart, Fields DEF Times
<1>2. w \in Nat /\ w <= 254
  BY NetAssumption DEF Workers
<1>3. PICK id \in Nat : id = SlotId(w, i, k)
  BY ParsedSlotId
<1>4. PICK q \in Nat : q = w * Increments + k
  BY <1>1, <1>2, Fields
<1>5. id = q * Indexes + i
  <2>1. w * (Increments * Indexes) = (w * Increments) * Indexes
    BY <1>2, Fields
  <2>2. (w * Increments + k) * Indexes = (w * Increments) * Indexes + k * Indexes
    BY <1>1, <1>2, Fields
  <2>3. w * (Increments * Indexes) \in Nat /\ k * Indexes \in Nat
    BY <1>1, <1>2, Fields
  <2> QED
    BY <2>1, <2>2, <2>3, <1>1, <1>3, <1>4 DEF SlotId, WorkerUnit
<1>6. id \div Indexes = q /\ id % Indexes = i
  BY <1>1, <1>4, <1>5, Fields, Divided
<1>7. w * Increments <= 254 * Increments /\ w * Increments \in Nat
  BY <1>2, Fields
<1>8. q + 1 < Increments * 4096
  BY <1>1, <1>4, <1>7, Fields
<1>9. (q + 1) % (Increments * 4096) = q + 1
  BY <1>4, <1>8, Fields
<1>10. id \div (WorkerUnit * 4096) = 0
  <2>1. PICK d \in Nat \ {0} : d = WorkerUnit * 4096
    BY Fields
  <2>2. (q + 1) * Indexes <= (Increments * 4096) * Indexes
    BY <1>4, <1>8, Fields
  <2>3. (q + 1) * Indexes = q * Indexes + Indexes /\ q * Indexes \in Nat
    BY <1>4, Fields
  <2>4. (Increments * 4096) * Indexes = d
    BY <2>1, Fields DEF WorkerUnit
  <2>5. id < d
    BY <2>1, <2>2, <2>3, <2>4, <1>1, <1>5, Fields
  <2>6. (0 * d + id) \div d = 0
    BY <2>1, <2>5, Divided
  <2> QED
    BY <2>1, <2>6
<1>11. NextNetConnectionID(id) = 0 * (WorkerUnit * 4096) + (q + 1) * Indexes + i
  BY <1>6, <1>9, <1>10 DEF NextNetConnectionID, ParseNetConnectionIndex
<1>12. (q + 1) * Indexes = w * WorkerUnit + (k + 1) * Indexes
  <2>1. (w * Increments + (k + 1)) * Indexes = (w * Increments) * Indexes + (k + 1) * Indexes
    BY <1>1, <1>2, Fields
  <2>2. (w * Increments) * Indexes = w * (Increments * Indexes)
    BY <1>2, Fields
  <2>3. q + 1 = w * Increments + (k + 1)
    BY <1>1, <1>4, <1>7
  <2> QED
    BY <2>1, <2>2, <2>3 DEF WorkerUnit
<1>13. (q + 1) * Indexes \in Nat /\ w * WorkerUnit \in Nat /\ (k + 1) * Indexes \in Nat
       /\ 0 * (WorkerUnit * 4096) = 0
  BY <1>1, <1>2, <1>4, Fields
<1>14. NextNetConnectionID(id) = w * WorkerUnit + ((k + 1) * Indexes + i)
  BY <1>1, <1>11, <1>12, <1>13
<1> QED
  BY <1>3, <1>14 DEF SlotId
-----------------------------------------------------------------------------
(* Buffers in sequences *)

(* A sequence without repetition that loses its head.                        *)
LEMMA TailRange ==
  ASSUME NEW T, NEW s \in Seq(T), s # <<>>, IsInjective(s)
  PROVE  /\ Tail(s) \in Seq(T) /\ Head(s) \in T /\ IsInjective(Tail(s))
         /\ Head(s) \in Range(s)
         /\ \A x : x \in Range(Tail(s)) <=> x \in Range(s) /\ x # Head(s)
<1>1. PICK t : t = Tail(s)
  OBVIOUS
<1>2. PICK n \in Nat : Len(s) = n + 1
  <2>1. Len(s) \in Nat /\ Len(s) # 0
    OBVIOUS
  <2> QED
    BY <2>1
<1>3. t \in Seq(T) /\ Len(t) = n /\ \A k \in 1 .. n : t[k] = s[k + 1]
  BY <1>1, <1>2
<1>4. DOMAIN t = 1 .. n /\ DOMAIN s = 1 .. n + 1 /\ Head(s) = s[1] /\ s[1] \in T
  BY <1>2, <1>3
<1>5. IsInjective(t)
  <2> SUFFICES ASSUME NEW j \in 1 .. n, NEW k \in 1 .. n, t[j] = t[k] PROVE j = k
    BY <1>4 DEF IsInjective
  <2>1. j + 1 \in 1 .. n + 1 /\ k + 1 \in 1 .. n + 1 /\ s[j + 1] = s[k + 1]
    BY <1>2, <1>3
  <2>2. j + 1 = k + 1
    BY <2>1, <1>4 DEF IsInjective
  <2> QED
    BY <2>2
<1>6. \A x : x \in Range(t) <=> x \in Range(s) /\ x # s[1]
  <2>1. ASSUME NEW x \in Range(t) PROVE x \in Range(s) /\ x # s[1]
    <3>1. PICK k \in 1 .. n : x = t[k]
      BY <1>4, <2>1 DEF Range
    <3>2. k + 1 \in 1 .. n + 1 /\ 1 \in 1 .. n + 1 /\ k + 1 # 1
      BY <1>2
    <3> QED
      BY <1>3, <1>4, <3>1, <3>2 DEF Range, IsInjective
  <2>2. ASSUME NEW x \in Range(s), x # s[1] PROVE x \in Range(t)
    <3>1. PICK k \in 1 .. n + 1 : x = s[k]
      BY <1>4, <2>2 DEF Range
    <3>2. PICK j \in 1 .. n : j + 1 = k
      <4>1. k # 1 /\ k - 1 \in 1 .. n
        BY <1>2, <2>2, <3>1
      <4> QED
        BY <4>1
    <3> QED
      BY <1>3, <1>4, <3>1, <3>2 DEF Range
  <2> QED
    BY <2>1, <2>2
<1> QED
  BY <1>1, <1>3, <1>4, <1>5, <1>6 DEF Range

(* A sequence that gets an element more.                                     *)
LEMMA AppendRange ==
  ASSUME NEW T, NEW s \in Seq(T), NEW e \in T
  PROVE  /\ Append(s, e) \in Seq(T)
         /\ \A x : x \in Range(Append(s, e)) <=> x \in Range(s) \/ x = e
         /\ IsInjective(s) /\ e \notin Range(s) => IsInjective(Append(s, e))
<1>1. PICK t : t = Append(s, e)
  OBVIOUS
<1>2. PICK n \in Nat : Len(s) = n
  OBVIOUS
<1>3. t \in Seq(T) /\ Len(t) = n + 1 /\ (\A k \in 1 .. n : t[k] = s[k]) /\ t[n + 1] = e
  BY <1>1, <1>2
<1>4. DOMAIN t = 1 .. n + 1 /\ DOMAIN s = 1 .. n
  BY <1>2, <1>3
<1>5. \A k : k \in 1 .. n + 1 <=> k \in 1 .. n \/ k = n + 1
  BY <1>2
<1>6. \A x : x \in Range(t) <=> x \in Range(s) \/ x = e
  BY <1>3, <1>4, <1>5 DEF Range
<1>7. ASSUME IsInjective(s), e \notin Range(s) PROVE IsInjective(t)
  BY <1>3, <1>4, <1>5, <1>7 DEF IsInjective, Range
<1> QED
  BY <1>1, <1>3, <1>6, <1>7

(* Two sequences, one after the other.                                       *)
LEMMA ConcatRange ==
  ASSUME NEW T, NEW s \in Seq(T), NEW t \in Seq(T)
  PROVE  /\ s \o t \in Seq(T)
         /\ \A x : x \in Range(s \o t) <=> x \in Range(s) \/ x \in Range(t)
         /\ IsInjective(s) /\ IsInjective(t) /\ (\A x \in Range(s) : x \notin Range(t))
              => IsInjective(s \o t)
<1>1. PICK u : u = s \o t
  OBVIOUS
<1>2. PICK m \in Nat, n \in Nat : Len(s) = m /\ Len(t) = n
  OBVIOUS
<1>3. u \in Seq(T) /\ Len(u) = m + n
      /\ \A k \in 1 .. m + n : u[k] = IF k <= m THEN s[k] ELSE t[k - m]
  BY <1>1, <1>2, ConcatProperties
<1>4. DOMAIN u = 1 .. m + n /\ DOMAIN s = 1 .. m /\ DOMAIN t = 1 .. n
  BY <1>2, <1>3
<1>5. \A k \in 1 .. m : k \in 1 .. m + n /\ u[k] = s[k]
  BY <1>2, <1>3
<1>6. \A k \in 1 .. n : m + k \in 1 .. m + n /\ u[m + k] = t[k]
  <2> SUFFICES ASSUME NEW k \in 1 .. n PROVE m + k \in 1 .. m + n /\ u[m + k] = t[k]
    OBVIOUS
  <2>1. m + k \in 1 .. m + n /\ ~(m + k <= m) /\ (m + k) - m = k
    BY <1>2
  <2> QED
    BY <2>1, <1>3
<1>7. \A k \in 1 .. m + n : k \in 1 .. m \/ \E j \in 1 .. n : k = m + j
  <2> SUFFICES ASSUME NEW k \in 1 .. m + n, k \notin 1 .. m PROVE \E j \in 1 .. n : k = m + j
    OBVIOUS
  <2>1. k - m \in 1 .. n /\ k = m + (k - m)
    BY <1>2
  <2> QED
    BY <2>1
<1>8. \A x : x \in Range(u) <=> x \in Range(s) \/ x \in Range(t)
  <2>1. ASSUME NEW x \in Range(u) PROVE x \in Range(s) \/ x \in Range(t)
    <3>1. PICK k \in 1 .. m + n : x = u[k]
      BY <1>4, <2>1 DEF Range
    <3>2. CASE k \in 1 .. m
      BY <3>1, <3>2, <1>4, <1>5 DEF Range
    <3>3. CASE k \notin 1 .. m
      <4>1. PICK j \in 1 .. n : k = m + j
        BY <3>1, <3>3, <1>7
      <4> QED
        BY <3>1, <4>1, <1>4, <1>6 DEF Range
    <3> QED
      BY <3>2, <3>3
  <2>2. ASSUME NEW x \in Range(s) PROVE x \in Range(u)
    BY <2>2, <1>4, <1>5 DEF Range
  <2>3. ASSUME NEW x \in Range(t) PROVE x \in Range(u)
    BY <2>3, <1>4, <1>6 DEF Range
  <2> QED
    BY <2>1, <2>2, <2>3
<1>9. ASSUME IsInjective(s), IsInjective(t), \A x \in Range(s) : x \notin Range(t)
      PROVE  IsInjective(u)
  <2> SUFFICES ASSUME NEW j \in 1 .. m + n, NEW k \in 1 .. m + n, u[j] = u[k] PROVE j = k
    BY <1>4 DEF IsInjective
  <2>1. CASE j \in 1 .. m /\ k \in 1 .. m
    BY <2>1, <1>4, <1>5, <1>9 DEF IsInjective
  <2>2. \A i \in 1 .. m, h \in 1 .. n : u[i] # u[m + h]
    <3> SUFFICES ASSUME NEW i \in 1 .. m, NEW h \in 1 .. n PROVE u[i] # u[m + h]
      OBVIOUS
    <3>1. u[i] \in Range(s) /\ u[m + h] \in Range(t)
      BY <1>4, <1>5, <1>6 DEF Range
    <3> QED
      BY <3>1, <1>9
  <2>3. CASE j \in 1 .. m /\ k \notin 1 .. m
    BY <2>2, <2>3, <1>7
  <2>4. CASE j \notin 1 .. m /\ k \in 1 .. m
    BY <2>2, <2>4, <1>7
  <2>5. CASE j \notin 1 .. m /\ k \notin 1 .. m
    <3>1. PICK g \in 1 .. n : j = m + g
      BY <2>5, <1>7
    <3>2. PICK h \in 1 .. n : k = m + h
      BY <2>5, <1>7
    <3>3. t[g] = t[h]
      BY <3>1, <3>2, <1>6
    <3>4. g = h
      BY <3>3, <1>4, <1>9 DEF IsInjective
    <3> QED
      BY <3>1, <3>2, <3>4
  <2> QED
    BY <2>1, <2>3, <2>4, <2>5
<1> QED
  BY <1>1, <1>3, <1>8, <1>9

(* One element, as a sequence.                                               *)
LEMMA OneRange ==
  ASSUME NEW T, NEW e \in T
  PROVE  <<e>> \in Seq(T) /\ IsInjective(<<e>>) /\ \A x : x \in Range(<<e>>) <=> x = e
BY DEF IsInjective, Range

(* SetToSeq puts each member of a finite set in one place.                   *)
LEMMA SetToSeqProperties ==
  ASSUME NEW S, IsFiniteSet(S)
  PROVE  /\ SetToSeq(S) \in Seq(S) /\ IsInjective(SetToSeq(S))
         /\ \A x : x \in Range(SetToSeq(S)) <=> x \in S
<1>1. Cardinality(S) \in Nat /\ ExistsBijection(1 .. Cardinality(S), S)
  BY FS_CardinalityType
<1>2. PICK n \in Nat : n = Cardinality(S)
  BY <1>1
<1>3. \E f \in [1 .. n -> S] : IsInjective(f)
  BY <1>1, <1>2 DEF ExistsBijection, Bijection, Injection, IsInjective
<1>4. PICK f : f = SetToSeq(S)
  OBVIOUS
<1>5. f = CHOOSE g \in [1 .. n -> S] : IsInjective(g)
  BY <1>2, <1>4, Zenon DEF SetToSeq
<1>6. f \in [1 .. n -> S] /\ IsInjective(f)
  BY <1>3, <1>5, Zenon
<1>7. f \in Injection(1 .. n, S)
  BY <1>6 DEF Injection, IsInjective
<1>8. IsFiniteSet(1 .. n) /\ Cardinality(1 .. n) = n
  BY FS_Interval
<1>9. f \in Surjection(1 .. n, S)
  BY <1>2, <1>7, <1>8, FS_Injection
<1>10. f \in Seq(S)
  BY <1>6, SeqDef
<1>11. \A x : x \in Range(f) <=> x \in S
  BY <1>6, <1>9 DEF Surjection, Range
<1> QED
  BY <1>4, <1>6, <1>10, <1>11

(* The buffers of a queue, event by event.                                   *)
LEMMA QueueBuffers ==
  ASSUME NEW q \in Seq(InputEvent)
  PROVE  \A x : x \in BuffersOf(q) <=>
           \E k \in DOMAIN q : q[k].type = "send" /\ q[k].buffer = x
BY DEF BuffersOf, Range

(* The buffer of a send event, if an event is one.                           *)
BufferOf(e) == IF e.type = "send" THEN {e.buffer} ELSE {}

(* An event is pushed: its buffer is in the queue.                           *)
LEMMA PushedBuffers ==
  ASSUME NEW q \in Seq(InputEvent), NEW e \in InputEvent
  PROVE  /\ Append(q, e) \in Seq(InputEvent)
         /\ \A x : x \in BuffersOf(Append(q, e)) <=> x \in BuffersOf(q) \/ x \in BufferOf(e)
         /\ SentOnce(q) /\ (\A x \in BufferOf(e) : x \notin BuffersOf(q))
              => SentOnce(Append(q, e))
<1>1. PICK t : t = Append(q, e)
  OBVIOUS
<1>2. PICK n \in Nat : Len(q) = n
  OBVIOUS
<1>3. t \in Seq(InputEvent) /\ Len(t) = n + 1 /\ (\A k \in 1 .. n : t[k] = q[k])
      /\ t[n + 1] = e
  BY <1>1, <1>2
<1>4. DOMAIN t = 1 .. n + 1 /\ DOMAIN q = 1 .. n
  BY <1>2, <1>3
<1>5. \A k : k \in 1 .. n + 1 <=> k \in 1 .. n \/ k = n + 1
  BY <1>2
<1>6. \A x : x \in BuffersOf(q) <=> \E k \in 1 .. n : q[k].type = "send" /\ q[k].buffer = x
  BY <1>4, QueueBuffers
<1>7. \A x : x \in BuffersOf(t) <=>
        \E k \in 1 .. n + 1 : t[k].type = "send" /\ t[k].buffer = x
  BY <1>3, <1>4, QueueBuffers
<1>8. \A x : x \in BuffersOf(t) <=> x \in BuffersOf(q) \/ x \in BufferOf(e)
  BY <1>3, <1>5, <1>6, <1>7 DEF BufferOf
<1>9. ASSUME SentOnce(q), \A x \in BufferOf(e) : x \notin BuffersOf(q) PROVE SentOnce(t)
  <2> SUFFICES ASSUME NEW j \in 1 .. n + 1, NEW k \in 1 .. n + 1,
                      t[j].type = "send", t[k].type = "send", j # k
               PROVE  t[j].buffer # t[k].buffer
    BY <1>4 DEF SentOnce
  <2>1. CASE j \in 1 .. n /\ k \in 1 .. n
    BY <2>1, <1>3, <1>4, <1>9 DEF SentOnce
  <2>2. CASE j = n + 1 /\ k \in 1 .. n
    BY <2>2, <1>3, <1>6, <1>9 DEF BufferOf
  <2>3. CASE j \in 1 .. n /\ k = n + 1
    BY <2>3, <1>3, <1>6, <1>9 DEF BufferOf
  <2> QED
    BY <2>1, <2>2, <2>3, <1>5
<1> QED
  BY <1>1, <1>3, <1>8, <1>9

(* An event is popped: its buffer is no more in the queue.                   *)
LEMMA PoppedBuffers ==
  ASSUME NEW q \in Seq(InputEvent), q # <<>>, SentOnce(q)
  PROVE  /\ Tail(q) \in Seq(InputEvent) /\ Head(q) \in InputEvent
         /\ Len(Tail(q)) = Len(q) - 1
         /\ Head(q) = q[1] /\ 1 \in DOMAIN q
         /\ \A k \in DOMAIN Tail(q) : k + 1 \in DOMAIN q /\ Tail(q)[k] = q[k + 1]
         /\ \A x \in BufferOf(Head(q)) : x \in BuffersOf(q)
         /\ \A x : x \in BuffersOf(Tail(q)) <=> x \in BuffersOf(q) /\ x \notin BufferOf(Head(q))
         /\ SentOnce(Tail(q))
<1>1. PICK t : t = Tail(q)
  OBVIOUS
<1>2. PICK n \in Nat : Len(q) = n + 1
  <2>1. Len(q) \in Nat /\ Len(q) # 0
    OBVIOUS
  <2> QED
    BY <2>1
<1>3. t \in Seq(InputEvent) /\ Len(t) = n /\ \A k \in 1 .. n : t[k] = q[k + 1]
  BY <1>1, <1>2
<1>4. DOMAIN t = 1 .. n /\ DOMAIN q = 1 .. n + 1 /\ Head(q) = q[1] /\ q[1] \in InputEvent
  BY <1>2, <1>3
<1>5. \A x : x \in BuffersOf(t) <=> \E k \in 1 .. n : t[k].type = "send" /\ t[k].buffer = x
  BY <1>3, <1>4, QueueBuffers
<1>6. \A x : x \in BuffersOf(q) <=>
        \E k \in 1 .. n + 1 : q[k].type = "send" /\ q[k].buffer = x
  BY <1>4, QueueBuffers
<1>7. \A k \in 1 .. n : k + 1 \in 1 .. n + 1 /\ k + 1 # 1
  BY <1>2
<1>8. \A k \in 1 .. n + 1 : k = 1 \/ \E j \in 1 .. n : k = j + 1
  <2> SUFFICES ASSUME NEW k \in 1 .. n + 1, k # 1 PROVE \E j \in 1 .. n : k = j + 1
    OBVIOUS
  <2>1. k - 1 \in 1 .. n /\ k = (k - 1) + 1
    BY <1>2
  <2> QED
    BY <2>1
<1>9. 1 \in 1 .. n + 1
  BY <1>2
<1>10. \A x \in BufferOf(q[1]) : x \in BuffersOf(q)
  BY <1>6, <1>9 DEF BufferOf
<1>11. \A x : x \in BuffersOf(t) => x \in BuffersOf(q) /\ x \notin BufferOf(q[1])
  BY <1>3, <1>4, <1>5, <1>6, <1>7, <1>9 DEF BufferOf, SentOnce
<1>12. \A x : x \in BuffersOf(q) /\ x \notin BufferOf(q[1]) => x \in BuffersOf(t)
  <2> SUFFICES ASSUME NEW x \in BuffersOf(q), x \notin BufferOf(q[1]) PROVE x \in BuffersOf(t)
    OBVIOUS
  <2>1. PICK k \in 1 .. n + 1 : q[k].type = "send" /\ q[k].buffer = x
    BY <1>6
  <2>2. PICK j \in 1 .. n : k = j + 1
    BY <2>1, <1>8 DEF BufferOf
  <2>3. t[j].type = "send" /\ t[j].buffer = x
    BY <2>1, <2>2, <1>3
  <2> QED
    BY <2>3, <1>5
<1>13. SentOnce(t)
  <2> SUFFICES ASSUME NEW j \in 1 .. n, NEW k \in 1 .. n,
                      t[j].type = "send", t[k].type = "send", j # k
               PROVE  t[j].buffer # t[k].buffer
    BY <1>4 DEF SentOnce
  <2>1. j + 1 # k + 1 /\ j + 1 \in DOMAIN q /\ k + 1 \in DOMAIN q
    BY <1>2, <1>4, <1>7
  <2> QED
    BY <2>1, <1>3 DEF SentOnce
<1> QED
  BY <1>1, <1>2, <1>3, <1>4, <1>7, <1>9, <1>10, <1>11, <1>12, <1>13

(* One connector has something else to write: what all of them have.         *)
LEMMA WritesChange ==
  ASSUME NEW r, NEW r2, NEW i \in Slots, WrittenOnce(r),
         \A j \in Slots \ {i} : r2.connector[j].write = r.connector[j].write,
         IsInjective(r2.connector[i].write),
         \A x \in Range(r2.connector[i].write) :
           x \in Writes(r) => x \in Range(r.connector[i].write)
  PROVE  /\ WrittenOnce(r2)
         /\ \A x : x \in Writes(r2) <=> \/ x \in Writes(r) /\ x \notin Range(r.connector[i].write)
                                        \/ x \in Range(r2.connector[i].write)
<1>1. \A x : x \in Writes(r) <=> \E j \in Slots : x \in Range(r.connector[j].write)
  BY DEF Writes
<1>2. \A x : x \in Writes(r2) <=> \E j \in Slots : x \in Range(r2.connector[j].write)
  BY DEF Writes
<1>3. \A j, k \in Slots : j # k =>
        \A x \in Range(r.connector[j].write) : x \notin Range(r.connector[k].write)
  BY DEF WrittenOnce
<1>4. \A j \in Slots : j = i \/ j \in Slots \ {i}
  OBVIOUS
<1>5. WrittenOnce(r2)
  <2>1. \A j \in Slots : IsInjective(r2.connector[j].write)
    BY <1>4 DEF WrittenOnce
  <2>2. ASSUME NEW j \in Slots, NEW k \in Slots, j # k
        PROVE  \A x \in Range(r2.connector[j].write) : x \notin Range(r2.connector[k].write)
    <3>1. CASE j # i /\ k # i
      BY <3>1, <2>2, <1>3, <1>4
    <3>2. CASE j = i
      <4>1. k \in Slots \ {i}
        BY <3>2, <2>2
      <4> QED
        BY <3>2, <4>1, <1>1, <1>3
    <3>3. CASE k = i
      <4>1. j \in Slots \ {i}
        BY <3>3, <2>2
      <4> QED
        BY <3>3, <4>1, <1>1, <1>3
    <3> QED
      BY <3>1, <3>2, <3>3
  <2> QED
    BY <2>1, <2>2 DEF WrittenOnce
<1>6. \A x : x \in Writes(r2) => \/ x \in Writes(r) /\ x \notin Range(r.connector[i].write)
                                 \/ x \in Range(r2.connector[i].write)
  BY <1>1, <1>2, <1>3, <1>4
<1>7. \A x : x \in Writes(r) /\ x \notin Range(r.connector[i].write) => x \in Writes(r2)
  BY <1>1, <1>2, <1>4
<1> QED
  BY <1>2, <1>5, <1>6, <1>7
-----------------------------------------------------------------------------
(* Buffers on their way: each step of a thread moves buffers from one place  *)
(* to another, or none.                                                      *)

SameWrites(r, r2) == \A i \in Slots : r2.connector[i].write = r.connector[i].write

(* Records with the same writes write the same.                              *)
LEMMA WritesSame ==
  ASSUME NEW r, NEW r2, SameWrites(r, r2)
  PROVE  /\ \A x : x \in Writes(r2) <=> x \in Writes(r)
         /\ WrittenOnce(r) => WrittenOnce(r2)
BY DEF SameWrites, Writes, WrittenOnce

(* The records write the same but for the connector at slot i. *)
OtherWrites(r, r2, i) == \A j \in Slots \ {i} : r2.connector[j].write = r.connector[j].write

(* A connector that has a buffer more to write. *)
OneMore(list, b) == Append(list, b)

(* Nothing moves.                                                            *)
LEMMA StoredKeeps ==
  ASSUME NEW w, NEW f, NEW c, NEW q, NEW r, NEW l, Stored(w, f, c, q, r, l),
         NEW d, Taken(w, d) = Taken(w, c),
         NEW r2, SameWrites(r, r2), InHand(r2) = InHand(r)
  PROVE  Stored(w, f, d, q, r2, l)
<1>1. \A x : x \in Writes(r2) <=> x \in Writes(r)
  BY WritesSame
<1>2. WrittenOnce(r2)
  BY WritesSame DEF Stored
<1>3. InOnePlace(Range(f), Taken(w, d), BuffersOf(q), InHand(r2), Writes(r2), l)
  BY <1>1 DEF Stored, InOnePlace
<1> QED
  BY <1>2, <1>3 DEF Stored

(* Send takes a free buffer.                                                 *)
LEMMA StoredTakes ==
  ASSUME NEW w, NEW f \in Seq(Buffers), NEW c, NEW q, NEW r, NEW l,
         Stored(w, f, c, q, r, l), Taken(w, c) = {}, f # <<>>,
         NEW d, d.op = "push", d.w = w, d.buffer = Head(f)
  PROVE  Stored(w, Tail(f), d, q, r, l)
<1>1. IsInjective(f)
  BY DEF Stored
<1>2. /\ IsInjective(Tail(f)) /\ Head(f) \in Range(f)
      /\ \A x : x \in Range(Tail(f)) <=> x \in Range(f) /\ x # Head(f)
  BY <1>1, TailRange
<1>3. \A x : x \in Taken(w, d) <=> x = Head(f)
  BY DEF Taken
<1>4. InOnePlace(Range(Tail(f)), Taken(w, d), BuffersOf(q), InHand(r), Writes(r), l)
  BY <1>2, <1>3 DEF Stored, InOnePlace
<1> QED
  BY <1>2, <1>4 DEF Stored

(* Send pushes the event with its buffer.                                    *)
LEMMA StoredPushes ==
  ASSUME NEW w, NEW f, NEW c, NEW q \in Seq(InputEvent), NEW r, NEW l,
         Stored(w, f, c, q, r, l), c.op = "push", c.w = w,
         NEW e \in InputEvent, e.type = "send", e.buffer = c.buffer,
         NEW d, Taken(w, d) = {}
  PROVE  Stored(w, f, d, Append(q, e), r, l)
<1>1. \A x : x \in Taken(w, c) <=> x = c.buffer
  BY DEF Taken
<1>2. \A x : x \in BufferOf(e) <=> x = c.buffer
  BY DEF BufferOf
<1>3. \A x \in BufferOf(e) : x \notin BuffersOf(q)
  BY <1>1, <1>2 DEF Stored, InOnePlace
<1>4. \A x : x \in BuffersOf(Append(q, e)) <=> x \in BuffersOf(q) \/ x = c.buffer
  BY <1>2, PushedBuffers
<1>5. SentOnce(Append(q, e))
  BY <1>3, PushedBuffers DEF Stored
<1>6. InOnePlace(Range(f), Taken(w, d), BuffersOf(Append(q, e)), InHand(r), Writes(r), l)
  BY <1>1, <1>4 DEF Stored, InOnePlace
<1> QED
  BY <1>5, <1>6 DEF Stored

(* An event without a buffer is pushed.                                      *)
LEMMA StoredTells ==
  ASSUME NEW w, NEW f, NEW c, NEW q \in Seq(InputEvent), NEW r, NEW l,
         Stored(w, f, c, q, r, l), NEW e \in InputEvent, e.type # "send"
  PROVE  Stored(w, f, c, Append(q, e), r, l)
<1>1. \A x : x \notin BufferOf(e)
  BY DEF BufferOf
<1>2. \A x : x \in BuffersOf(Append(q, e)) <=> x \in BuffersOf(q)
  BY <1>1, PushedBuffers
<1>3. SentOnce(Append(q, e))
  BY <1>1, PushedBuffers DEF Stored
<1>4. InOnePlace(Range(f), Taken(w, c), BuffersOf(Append(q, e)), InHand(r), Writes(r), l)
  BY <1>2 DEF Stored, InOnePlace
<1> QED
  BY <1>3, <1>4 DEF Stored

(* The worker takes an event in hand.                                        *)
LEMMA StoredPops ==
  ASSUME NEW w, NEW f, NEW c, NEW q \in Seq(InputEvent), NEW r, NEW l,
         Stored(w, f, c, q, r, l), q # <<>>, InHand(r) = {},
         NEW r2, SameWrites(r, r2), \A x : x \in InHand(r2) <=> x \in BufferOf(Head(q))
  PROVE  Stored(w, f, c, Tail(q), r2, l)
<1>1. SentOnce(q)
  BY DEF Stored
<1>2. /\ \A x \in BufferOf(Head(q)) : x \in BuffersOf(q)
      /\ \A x : x \in BuffersOf(Tail(q)) <=> x \in BuffersOf(q) /\ x \notin BufferOf(Head(q))
      /\ SentOnce(Tail(q))
  BY <1>1, PoppedBuffers
<1>3. \A x : x \in Writes(r2) <=> x \in Writes(r)
  BY WritesSame
<1>4. WrittenOnce(r2)
  BY WritesSame DEF Stored
<1>5. InOnePlace(Range(f), Taken(w, c), BuffersOf(Tail(q)), InHand(r2), Writes(r2), l)
  BY <1>2, <1>3 DEF Stored, InOnePlace
<1> QED
  BY <1>2, <1>4, <1>5 DEF Stored

(* The buffer in hand goes to a connector.                                   *)
LEMMA StoredWrites ==
  ASSUME NEW w, NEW f, NEW c, NEW q, NEW r \in Worker, NEW l, Stored(w, f, c, q, r, l),
         NEW b \in Buffers, InHand(r) = {b}, NEW i \in Slots,
         NEW r2 \in Worker, InHand(r2) = {},
         r2.connector[i].write = OneMore(r.connector[i].write, b),
         OtherWrites(r, r2, i)
  PROVE  Stored(w, f, c, q, r2, l)
<1>1. PICK s \in Seq(Buffers) : s = r.connector[i].write
  BY DEF Worker, Connector
<1>2. b \notin Writes(r)
  BY DEF Stored, InOnePlace
<1>3. \A x \in Range(s) : x \in Writes(r)
  BY <1>1 DEF Writes
<1>4. IsInjective(s)
  BY <1>1 DEF Stored, WrittenOnce
<1>5. IsInjective(Append(s, b)) /\ \A x : x \in Range(Append(s, b)) <=> x \in Range(s) \/ x = b
  BY <1>2, <1>3, <1>4, AppendRange
<1>6. WrittenOnce(r)
  BY DEF Stored
<1>7. /\ IsInjective(r2.connector[i].write)
      /\ \A x \in Range(r2.connector[i].write) :
           x \in Writes(r) => x \in Range(r.connector[i].write)
  BY <1>1, <1>2, <1>5 DEF OneMore
<1>8. /\ WrittenOnce(r2)
      /\ \A x : x \in Writes(r2) <=> \/ x \in Writes(r) /\ x \notin Range(r.connector[i].write)
                                     \/ x \in Range(r2.connector[i].write)
  BY <1>6, <1>7, WritesChange DEF OtherWrites
<1>9. \A x : x \in Writes(r2) <=> x \in Writes(r) \/ x = b
  BY <1>1, <1>3, <1>5, <1>8 DEF OneMore
<1>10. InOnePlace(Range(f), Taken(w, c), BuffersOf(q), InHand(r2), Writes(r2), l)
  BY <1>9 DEF Stored, InOnePlace
<1> QED
  BY <1>8, <1>10 DEF Stored

(* The buffer in hand is free again.                                         *)
LEMMA StoredFrees ==
  ASSUME NEW w, NEW f \in Seq(Buffers), NEW c, NEW q, NEW r, NEW l,
         Stored(w, f, c, q, r, l), NEW b \in Buffers, InHand(r) = {b},
         NEW r2, SameWrites(r, r2), InHand(r2) = {}
  PROVE  Stored(w, f \o <<b>>, c, q, r2, l)
<1>1. /\ <<b>> \in Seq(Buffers) /\ IsInjective(<<b>>)
      /\ \A x : x \in Range(<<b>>) <=> x = b
  BY OneRange
<1>2. b \notin Range(f) /\ IsInjective(f)
  BY DEF Stored, InOnePlace
<1>3. /\ IsInjective(f \o <<b>>)
      /\ \A x : x \in Range(f \o <<b>>) <=> x \in Range(f) \/ x = b
  BY <1>1, <1>2, ConcatRange, ZenonT(60)
<1>4. \A x : x \in Writes(r2) <=> x \in Writes(r)
  BY WritesSame
<1>5. WrittenOnce(r2)
  BY WritesSame DEF Stored
<1>6. InOnePlace(Range(f \o <<b>>), Taken(w, c), BuffersOf(q), InHand(r2), Writes(r2), l)
  BY <1>3, <1>4 DEF Stored, InOnePlace
<1> QED
  BY <1>3, <1>5, <1>6 DEF Stored

(* The buffer in hand is forgotten.                                          *)
LEMMA StoredForgets ==
  ASSUME NEW w, NEW f, NEW c, NEW q, NEW r, NEW l,
         Stored(w, f, c, q, r, l), NEW b \in Buffers, InHand(r) = {b},
         NEW r2, SameWrites(r, r2), InHand(r2) = {}
  PROVE  Stored(w, f, c, q, r2, l \cup {b})
<1>1. \A x : x \in Writes(r2) <=> x \in Writes(r)
  BY WritesSame
<1>2. WrittenOnce(r2)
  BY WritesSame DEF Stored
<1>3. InOnePlace(Range(f), Taken(w, c), BuffersOf(q), InHand(r2), Writes(r2), l \cup {b})
  BY <1>1 DEF Stored, InOnePlace
<1> QED
  BY <1>2, <1>3 DEF Stored

(* A sequence without repetition, split in two parts. *)
Splits(list, s, t) ==
  /\ IsInjective(s) /\ IsInjective(t)
  /\ \A x : x \in Range(list) <=> x \in Range(s) \/ x \in Range(t)
  /\ \A x \in Range(s) : x \notin Range(t)

(* What a connector had to write is free again: all of it, or the head.      *)
LEMMA StoredReturns ==
  ASSUME NEW w, NEW f \in Seq(Buffers), NEW c, NEW q, NEW r, NEW l,
         Stored(w, f, c, q, r, l), NEW i \in Slots,
         NEW r2, InHand(r2) = InHand(r),
         OtherWrites(r, r2, i), NEW s \in Seq(Buffers),
         Splits(r.connector[i].write, s, r2.connector[i].write)
  PROVE  Stored(w, f \o s, c, q, r2, l)
<1>1. /\ IsInjective(s) /\ IsInjective(r2.connector[i].write)
      /\ \A x : x \in Range(r.connector[i].write) <=>
                  x \in Range(s) \/ x \in Range(r2.connector[i].write)
      /\ \A x \in Range(s) : x \notin Range(r2.connector[i].write)
  BY DEF Splits
<1>2. \A x \in Range(s) : x \in Writes(r)
  BY <1>1 DEF Writes
<1>3. IsInjective(f) /\ \A x \in Range(f) : x \notin Range(s)
  BY <1>2 DEF Stored, InOnePlace
<1>4. /\ IsInjective(f \o s)
      /\ \A x : x \in Range(f \o s) <=> x \in Range(f) \/ x \in Range(s)
  BY <1>1, <1>3, ConcatRange
<1>5. WrittenOnce(r)
  BY DEF Stored
<1>6. /\ WrittenOnce(r2)
      /\ \A x : x \in Writes(r2) <=> \/ x \in Writes(r) /\ x \notin Range(r.connector[i].write)
                                     \/ x \in Range(r2.connector[i].write)
  BY <1>1, <1>5, WritesChange DEF OtherWrites
<1>7. \A x \in Range(r.connector[i].write) : x \in Writes(r)
  BY DEF Writes
<1>8. \A x : x \in Writes(r2) <=> x \in Writes(r) /\ x \notin Range(s)
  BY <1>1, <1>6, <1>7
<1>9. InOnePlace(Range(f \o s), Taken(w, c), BuffersOf(q), InHand(r2), Writes(r2), l)
  BY <1>2, <1>4, <1>8 DEF Stored, InOnePlace
<1> QED
  BY <1>4, <1>6, <1>9 DEF Stored
-----------------------------------------------------------------------------
(* Connections: what is Named stays so. *)

(* Connectors go on to later ids, or serve on.                               *)
Kept(r, r2) ==
  \A i \in Slots :
    /\ r.connector[i].id <= r2.connector[i].id
    /\ r2.connector[i].id = r.connector[i].id /\ InUse(r.connector[i]) =>
         InUse(r2.connector[i]) /\ r2.connector[i].number = r.connector[i].number

(* An id stays that of the connection it was meant for, or outdated.         *)
LEMMA NamedKept ==
  ASSUME NEW w \in Workers, NEW r \in Worker, NEW r2 \in Worker, Kept(r, r2),
         NEW id, NEW number, Named(w, r, id, number)
  PROVE  Named(w, r2, id, number)
<1>1. PICK i \in Slots : \E k \in Times :
        /\ id = SlotId(w, i, k)
        /\ id <= r.connector[i].id
        /\ id = r.connector[i].id => InUse(r.connector[i]) /\ r.connector[i].number = number
  BY DEF Named
<1>2. PICK k \in Times :
        /\ id = SlotId(w, i, k)
        /\ id <= r.connector[i].id
        /\ id = r.connector[i].id => InUse(r.connector[i]) /\ r.connector[i].number = number
  BY <1>1
<1>3. id \in Nat
  BY <1>2, ParsedSlotId
<1>4. r.connector[i].id \in Nat /\ r2.connector[i].id \in Nat
  BY DEF Worker, Connector
<1>5. /\ r.connector[i].id <= r2.connector[i].id
      /\ r2.connector[i].id = r.connector[i].id /\ InUse(r.connector[i]) =>
           InUse(r2.connector[i]) /\ r2.connector[i].number = r.connector[i].number
  BY DEF Kept
<1>6. id <= r2.connector[i].id
  BY <1>2, <1>3, <1>4, <1>5
<1>7. ASSUME id = r2.connector[i].id
      PROVE  InUse(r2.connector[i]) /\ r2.connector[i].number = number
  <2>1. id = r.connector[i].id
    BY <1>2, <1>3, <1>4, <1>5, <1>7
  <2> QED
    BY <2>1, <1>2, <1>5, <1>7
<1> QED
  BY <1>2, <1>6, <1>7 DEF Named

(* The connector of a Named id, if it still has it, is in use and serves the *)
(* connection that was meant.                                                *)
LEMMA NamedConnector ==
  ASSUME NEW w \in Workers, NEW r \in Worker, NEW id, NEW number, Named(w, r, id, number)
  PROVE  /\ id \in Nat /\ ParseNetConnectionType(id) = kConnector
         /\ ParseNetWorkerIndex(id) = w
         /\ ParseNetConnectionIndex(id) \in Slots
         /\ r.connector[ParseNetConnectionIndex(id)].id = id =>
              /\ InUse(r.connector[ParseNetConnectionIndex(id)])
              /\ r.connector[ParseNetConnectionIndex(id)].number = number
<1>1. PICK i \in Slots : \E k \in Times :
        /\ id = SlotId(w, i, k)
        /\ id = r.connector[i].id => InUse(r.connector[i]) /\ r.connector[i].number = number
  BY DEF Named
<1>2. PICK k \in Times :
        /\ id = SlotId(w, i, k)
        /\ id = r.connector[i].id => InUse(r.connector[i]) /\ r.connector[i].number = number
  BY <1>1
<1> QED
  BY <1>2, ParsedSlotId

(* A peer connector's id, parsed.                                            *)
LEMMA PeerIdParsed ==
  ASSUME NEW id, IsPeerId(id)
  PROVE  id \in Nat /\ ParseNetConnectionType(id) # kConnector
<1>1. PICK p \in 0 .. MaxPeers - 1 : id = PeerId(p)
  BY DEF IsPeerId
<1> QED
  BY <1>1, ParsedPeerId DEF kConnector, kPeerConnector

(* An event that is meant stays so while its buffer is left alone.           *)
LEMMA MeantKept ==
  ASSUME NEW w \in Workers, NEW r \in Worker, NEW r2 \in Worker, Kept(r, r2),
         NEW e, NEW d, Meant(w, r, e, d),
         NEW d2, e.type = "send" => d2[e.buffer] = d[e.buffer]
  PROVE  Meant(w, r2, e, d2)
<1>1. ASSUME e.type = "send" PROVE Named(w, r2, e.id, d2[e.buffer]) \/ IsPeerId(e.id)
  <2>1. CASE Named(w, r, e.id, d[e.buffer])
    <3>1. Named(w, r2, e.id, d[e.buffer])
      BY <2>1, NamedKept
    <3> QED
      BY <3>1, <1>1
  <2>2. CASE IsPeerId(e.id)
    BY <2>2
  <2> QED
    BY <2>1, <2>2, <1>1 DEF Meant
<1>2. ASSUME e.type = "disconnect" PROVE \E number \in Numbers : Named(w, r2, e.id, number)
  <2>1. PICK number \in Numbers : Named(w, r, e.id, number)
    BY <1>2 DEF Meant
  <2>2. Named(w, r2, e.id, number)
    BY <2>1, NamedKept
  <2> QED
    BY <2>2
<1>3. e.type = "send" <=> e.buffer # None
  BY DEF Meant
<1> QED
  BY <1>1, <1>2, <1>3 DEF Meant

(* The same for the events of a queue.                                       *)
LEMMA QueueKept ==
  ASSUME NEW w \in Workers, NEW r \in Worker, NEW r2 \in Worker, Kept(r, r2),
         NEW q \in Seq(InputEvent), NEW d, NEW d2,
         \A k \in DOMAIN q : Meant(w, r, q[k], d),
         \A x \in BuffersOf(q) : d2[x] = d[x]
  PROVE  \A k \in DOMAIN q : Meant(w, r2, q[k], d2)
<1> SUFFICES ASSUME NEW k \in DOMAIN q PROVE Meant(w, r2, q[k], d2)
  OBVIOUS
<1>1. Meant(w, r, q[k], d)
  OBVIOUS
<1>2. ASSUME q[k].type = "send" PROVE d2[q[k].buffer] = d[q[k].buffer]
  BY <1>2, QueueBuffers
<1> QED
  BY <1>1, <1>2, MeantKept

(* The same for the output events.                                           *)
LEMMA ToldKept ==
  ASSUME NEW w \in Workers, NEW r \in Worker, NEW r2 \in Worker, Kept(r, r2),
         NEW o, Told(w, o, r)
  PROVE  Told(w, o, r2)
<1> SUFFICES ASSUME NEW k \in DOMAIN o, o[k].type = "connected"
             PROVE  Named(w, r2, o[k].id, o[k].number)
  BY DEF Told
<1>1. Named(w, r, o[k].id, o[k].number)
  BY DEF Told
<1> QED
  BY <1>1, NamedKept

(* A record that differs neither in its connections nor in its free list.    *)
SameConnections(r, r2) ==
  /\ r2.free = r.free
  /\ \A i \in Slots :
       /\ r2.connector[i].id = r.connector[i].id
       /\ r2.connector[i].number = r.connector[i].number
       /\ r2.connector[i].handler = r.connector[i].handler

(* What is true of connectors stays true then.                               *)
LEMMA ConnectorsKeep ==
  ASSUME NEW w, NEW r \in Worker, NEW r2 \in Worker, SameConnections(r, r2),
         NEW n \in Nat, NEW m \in Nat, n <= m, ConnectorsOK(w, r, n),
         \A i \in Slots : ~ InUse(r.connector[i]) => r2.connector[i].write = <<>>
  PROVE  ConnectorsOK(w, r2, m) /\ Kept(r, r2)
<1>1. \A i \in Slots : InUse(r2.connector[i]) <=> InUse(r.connector[i])
  BY DEF SameConnections, InUse
<1>2. ASSUME NEW i \in Slots PROVE ConnectorOK(w, i, r2.connector[i], m)
  <2>1. ConnectorOK(w, i, r.connector[i], n)
    BY DEF ConnectorsOK
  <2>2. PICK k \in Times : /\ r.connector[i].id = SlotId(w, i, k)
                           /\ k + (IF InUse(r.connector[i]) THEN 1 ELSE 0) <= n
    BY <2>1 DEF ConnectorOK
  <2>3. k + (IF InUse(r2.connector[i]) THEN 1 ELSE 0) <= m
    BY <2>2, <1>1 DEF Times
  <2>4. r2.connector[i].id = SlotId(w, i, k)
    BY <2>2 DEF SameConnections
  <2> QED
    BY <2>3, <2>4, <1>1 DEF ConnectorOK
<1>3. r.free \in Seq(Slots)
  BY DEF Worker
<1>4. \A k \in DOMAIN r2.free : ~ InUse(r2.connector[r2.free[k]])
  BY <1>1, <1>3 DEF ConnectorsOK, SameConnections
<1>5. IsInjective(r2.free)
  BY DEF ConnectorsOK, SameConnections
<1>6. \A i \in Slots : r.connector[i].id \in Nat
  BY DEF Worker, Connector
<1>7. Kept(r, r2)
  BY <1>1, <1>6 DEF Kept, SameConnections
<1> QED
  BY <1>2, <1>4, <1>5, <1>7 DEF ConnectorsOK

(* Cleared and FreeNetConnector: the connector has its next id, and is free. *)
LEMMA ConnectorFreed ==
  ASSUME NEW w \in Workers, NEW r \in Worker, NEW i \in Slots, NEW n \in Nat,
         n <= MaxConnections, ConnectorsOK(w, r, n), InUse(r.connector[i])
  PROVE  LET r2 == FreeNetConnector(Cleared(r, i), i)
         IN  /\ r2 \in Worker /\ r2.at = r.at /\ r2.event = r.event /\ r2.todo = r.todo
             /\ r2.connector[i].write = <<>> /\ ~ InUse(r2.connector[i])
             /\ \A j \in Slots \ {i} : r2.connector[j] = r.connector[j]
             /\ ConnectorsOK(w, r2, n) /\ Kept(r, r2)
<1>1. PICK x \in Connector : x = r.connector[i]
  BY DEF Worker
<1>2. ConnectorOK(w, i, x, n)
  BY <1>1 DEF ConnectorsOK
<1>3. PICK k \in Times : x.id = SlotId(w, i, k) /\ k + 1 <= n
  BY <1>1, <1>2 DEF ConnectorOK
<1>4. k \in Nat /\ k + 1 \in Times
  BY <1>3, NetAssumption, Fields DEF Times
<1>5. PICK y : y = [id |-> NextNetConnectionID(x.id), number |-> 0,
                    handler |-> kNetConnectionIDInvalid, write |-> <<>>]
  OBVIOUS
<1>6. y.id = SlotId(w, i, k + 1) /\ y.id \in Nat /\ x.id < y.id
  <2>1. y.id = SlotId(w, i, k + 1)
    BY <1>3, <1>4, <1>5, NextSlotId
  <2>2. SlotId(w, i, k) < SlotId(w, i, k + 1)
    BY <1>4, SlotIdsGrow
  <2> QED
    BY <2>1, <2>2, <1>3, <1>4, ParsedSlotId
<1>7. kNetConnectionIDInvalid \in Nat
  BY Fields DEF kNetConnectionIDInvalid
<1>8. y \in Connector
  <2>1. y.id \in Nat /\ 0 \in Numbers /\ <<>> \in Seq(Buffers)
    BY <1>6, NetAssumption DEF Numbers
  <2> QED
    BY <2>1, <1>5, <1>7 DEF Connector
<1>9. PICK g \in Worker : g = r
  OBVIOUS
<1>10. PICK r2 : r2 = FreeNetConnector(Cleared(r, i), i)
  OBVIOUS
<1>11. r2 = [g EXCEPT !.connector = [g.connector EXCEPT ![i] = y], !.free = Append(g.free, i)]
  <2>1. PICK z : z = [x EXCEPT !.number = 0, !.handler = kNetConnectionIDInvalid,
                               !.write = <<>>]
    OBVIOUS
  <2>2. z.id = x.id /\ [z EXCEPT !.id = NextNetConnectionID(z.id)] = y
    <3>1. z = [id |-> x.id, number |-> 0, handler |-> kNetConnectionIDInvalid, write |-> <<>>]
      BY <2>1 DEF Connector
    <3>2. PICK m : m = NextNetConnectionID(x.id)
      OBVIOUS
    <3>3. z.id = x.id
      BY <3>1
    <3>4. [z EXCEPT !.id = m] = y
      BY <3>1, <3>2, <1>5
    <3> QED
      BY <3>2, <3>3, <3>4
  <2>3. PICK c : c = [g.connector EXCEPT ![i] = z]
    OBVIOUS
  <2>4. Cleared(r, i) = [g EXCEPT !.connector = c]
    BY <2>1, <2>3, <1>1, <1>9 DEF Cleared, Worker
  <2>5. c[i] = z /\ [c EXCEPT ![i] = y] = [g.connector EXCEPT ![i] = y]
    BY <2>3 DEF Worker
  <2>6. PICK e : e = [g EXCEPT !.connector = c]
    OBVIOUS
  <2>7. e.connector = c /\ e.free = g.free
    BY <2>6 DEF Worker
  <2>8. r2 = [e EXCEPT !.connector = [c EXCEPT ![i] = y], !.free = Append(g.free, i)]
    BY <2>2, <2>4, <2>5, <2>6, <2>7, <1>10 DEF FreeNetConnector
  <2> QED
    BY <2>5, <2>6, <2>8 DEF Worker
<1>12. /\ r2.at = r.at /\ r2.event = r.event /\ r2.todo = r.todo
       /\ r2.acceptors = r.acceptors /\ r2.peers = r.peers
       /\ r2.connector = [r.connector EXCEPT ![i] = y] /\ r2.free = Append(r.free, i)
  BY <1>9, <1>11 DEF Worker
<1>13. r.connector \in [Slots -> Connector] /\ r.free \in Seq(Slots)
  BY DEF Worker
<1>14. r2.connector \in [Slots -> Connector] /\ r2.free \in Seq(Slots)
  BY <1>8, <1>12, <1>13
<1>15. r2 \in Worker
  BY <1>9, <1>11, <1>12, <1>14 DEF Worker
<1>16. r2.connector[i] = y /\ \A j \in Slots \ {i} : r2.connector[j] = r.connector[j]
  BY <1>12, <1>13
<1>17. ~ InUse(y) /\ y.write = <<>>
  BY <1>5 DEF InUse
<1>18. Kept(r, r2)
  <2> SUFFICES ASSUME NEW j \in Slots
               PROVE  /\ r.connector[j].id <= r2.connector[j].id
                      /\ r2.connector[j].id = r.connector[j].id /\ InUse(r.connector[j]) =>
                           /\ InUse(r2.connector[j])
                           /\ r2.connector[j].number = r.connector[j].number
    BY DEF Kept
  <2>1. CASE j = i
    <3>1. x.id \in Nat /\ x.id <= y.id /\ y.id # x.id
      BY <1>6 DEF Connector
    <3> QED
      BY <3>1, <2>1, <1>1, <1>16
  <2>2. CASE j # i
    <3>1. r2.connector[j] = r.connector[j] /\ r.connector[j].id \in Nat
      BY <2>2, <1>13, <1>16 DEF Connector
    <3> QED
      BY <3>1
  <2> QED
    BY <2>1, <2>2
<1>19. ASSUME NEW j \in Slots PROVE ConnectorOK(w, j, r2.connector[j], n)
  <2>1. CASE j = i
    <3>1. k + 1 + (IF InUse(y) THEN 1 ELSE 0) <= n
      BY <1>3, <1>4, <1>17
    <3> QED
      BY <2>1, <3>1, <1>4, <1>6, <1>16, <1>17 DEF ConnectorOK
  <2>2. CASE j # i
    BY <2>2, <1>16 DEF ConnectorsOK
  <2> QED
    BY <2>1, <2>2
<1>20. i \notin Range(r.free)
  BY <1>1, <1>13 DEF ConnectorsOK, Range
<1>21. /\ IsInjective(r2.free)
       /\ \A h : h \in Range(r2.free) <=> h \in Range(r.free) \/ h = i
  BY <1>12, <1>13, <1>20, AppendRange DEF ConnectorsOK
<1>22. \A h \in Range(r.free) : h \in Slots /\ ~ InUse(r.connector[h])
  BY <1>13 DEF ConnectorsOK, Range
<1>23. \A h \in Range(r2.free) : ~ InUse(r2.connector[h])
  BY <1>16, <1>17, <1>21, <1>22
<1>24. \A h \in DOMAIN r2.free : r2.free[h] \in Range(r2.free)
  BY DEF Range
<1>25. ConnectorsOK(w, r2, n)
  BY <1>19, <1>21, <1>23, <1>24 DEF ConnectorsOK
<1> QED
  BY <1>10, <1>12, <1>15, <1>16, <1>17, <1>18, <1>25

(* The connection that the first free connector of a record takes, and the   *)
(* record when it has.                                                       *)
Accepted(r, n, handler) ==
  [r.connector[Head(r.free)] EXCEPT !.number = n + 1, !.handler = handler]

WithAccepted(r, x) == [r EXCEPT !.free = Tail(@), !.connector[Head(r.free)] = x]

(* A record when the connector at slot i has written a buffer. *)
WithWritten(r, i) == [r EXCEPT !.connector[i].write = Tail(@)]

(* A connection is accepted: the first free connector is in use with it.     *)
LEMMA ConnectorTaken ==
  ASSUME NEW w \in Workers, NEW r \in Worker, NEW n \in Nat,
         n < MaxConnections, ConnectorsOK(w, r, n), r.free # <<>>,
         NEW handler \in Nat \ {kNetConnectionIDInvalid},
         NEW c, c = Accepted(r, n, handler), NEW r2, r2 = WithAccepted(r, c)
  PROVE  /\ r2 \in Worker /\ r2.at = r.at /\ r2.event = r.event /\ r2.todo = r.todo
         /\ c \in Connector /\ Named(w, r2, c.id, c.number)
         /\ SameWrites(r, r2)
         /\ r.connector[Head(r.free)].write = <<>>
         /\ \A j \in Slots : j # Head(r.free) => r2.connector[j] = r.connector[j]
         /\ ConnectorsOK(w, r2, n + 1) /\ Kept(r, r2)
<1>1. r.connector \in [Slots -> Connector] /\ r.free \in Seq(Slots)
  BY DEF Worker
<1>2. PICK f \in Seq(Slots) : f = r.free /\ f # <<>> /\ IsInjective(f)
  BY <1>1 DEF ConnectorsOK
<1>3. PICK i \in Slots : i = Head(r.free)
  BY <1>2
<1>4. /\ Tail(f) \in Seq(Slots) /\ IsInjective(Tail(f)) /\ i \in Range(f)
      /\ \A h : h \in Range(Tail(f)) <=> h \in Range(f) /\ h # i
  BY <1>2, <1>3, TailRange
<1>5. \A h \in Range(f) : h \in Slots /\ ~ InUse(r.connector[h])
  BY <1>2 DEF ConnectorsOK, Range
<1>6. PICK x \in Connector : x = r.connector[i]
  BY <1>1
<1>7. ConnectorOK(w, i, x, n) /\ ~ InUse(x)
  BY <1>4, <1>5, <1>6 DEF ConnectorsOK
<1>8. x.write = <<>>
  BY <1>7 DEF ConnectorOK
<1>9. PICK k \in Times : x.id = SlotId(w, i, k) /\ k <= n
  BY <1>7 DEF ConnectorOK, Times
<1>10. c.id = x.id /\ c.number = n + 1 /\ c.handler = handler /\ c.write = x.write
  BY <1>3, <1>6 DEF Accepted, Connector
<1>11. c \in Connector
  <2>1. n + 1 \in Numbers
    BY NetAssumption DEF Numbers
  <2>2. c = [x EXCEPT !.number = n + 1, !.handler = handler]
    BY <1>3, <1>6 DEF Accepted
  <2> QED
    BY <2>1, <2>2 DEF Connector
<1>12. InUse(c)
  BY <1>10 DEF InUse
<1>13. PICK g \in Worker : g = r
  OBVIOUS
<1>14. r2 = [g EXCEPT !.free = Tail(f), !.connector = [g.connector EXCEPT ![i] = c]]
  BY <1>2, <1>3, <1>13 DEF WithAccepted, Worker
<1>15. /\ r2.at = r.at /\ r2.event = r.event /\ r2.todo = r.todo
       /\ r2.acceptors = r.acceptors /\ r2.peers = r.peers
       /\ r2.connector = [r.connector EXCEPT ![i] = c] /\ r2.free = Tail(f)
  BY <1>13, <1>14 DEF Worker
<1>16. r2.connector \in [Slots -> Connector] /\ r2.free \in Seq(Slots)
  BY <1>1, <1>4, <1>11, <1>15
<1>17. r2 \in Worker
  BY <1>13, <1>14, <1>15, <1>16 DEF Worker
<1>18. r2.connector[i] = c /\ \A j \in Slots : j # i => r2.connector[j] = r.connector[j]
  BY <1>1, <1>15
<1>19. SameWrites(r, r2)
  BY <1>6, <1>10, <1>18 DEF SameWrites
<1>20. x.id \in Nat /\ \A j \in Slots : r.connector[j].id \in Nat
  BY <1>1 DEF Connector
<1>21. Named(w, r2, c.id, c.number)
  <2>1. c.id = SlotId(w, i, k) /\ c.id <= c.id
    BY <1>9, <1>10, <1>20
  <2> QED
    BY <2>1, <1>9, <1>12, <1>18 DEF Named
<1>22. Kept(r, r2)
  <2> SUFFICES ASSUME NEW j \in Slots
               PROVE  /\ r.connector[j].id <= r2.connector[j].id
                      /\ r2.connector[j].id = r.connector[j].id /\ InUse(r.connector[j]) =>
                           /\ InUse(r2.connector[j])
                           /\ r2.connector[j].number = r.connector[j].number
    BY DEF Kept
  <2>1. CASE j = i
    <3>1. r2.connector[j].id = x.id /\ r.connector[j] = x /\ x.id <= x.id
      BY <2>1, <1>6, <1>10, <1>18, <1>20
    <3> QED
      BY <3>1, <1>7
  <2>2. CASE j # i
    <3>1. r2.connector[j] = r.connector[j] /\ r.connector[j].id <= r.connector[j].id
      BY <2>2, <1>18, <1>20
    <3> QED
      BY <3>1
  <2> QED
    BY <2>1, <2>2
<1>23. ASSUME NEW j \in Slots PROVE ConnectorOK(w, j, r2.connector[j], n + 1)
  <2>1. CASE j = i
    <3>1. k + (IF InUse(c) THEN 1 ELSE 0) <= n + 1
      BY <1>9, <1>12 DEF Times
    <3> QED
      BY <2>1, <3>1, <1>9, <1>10, <1>12, <1>18 DEF ConnectorOK
  <2>2. CASE j # i
    <3>1. ConnectorOK(w, j, r.connector[j], n)
      BY DEF ConnectorsOK
    <3>2. PICK m \in Times : /\ r.connector[j].id = SlotId(w, j, m)
                             /\ m + (IF InUse(r.connector[j]) THEN 1 ELSE 0) <= n
      BY <3>1 DEF ConnectorOK
    <3>3. m + (IF InUse(r.connector[j]) THEN 1 ELSE 0) <= n + 1
      BY <3>2 DEF Times
    <3>4. ~ InUse(r.connector[j]) => r.connector[j].write = <<>>
      BY <3>1 DEF ConnectorOK
    <3>5. r2.connector[j] = r.connector[j]
      BY <2>2, <1>18
    <3> QED
      BY <3>2, <3>3, <3>4, <3>5 DEF ConnectorOK
  <2> QED
    BY <2>1, <2>2
<1>24. \A h \in Range(r2.free) : ~ InUse(r2.connector[h])
  BY <1>4, <1>5, <1>15, <1>18
<1>25. \A h \in DOMAIN r2.free : r2.free[h] \in Range(r2.free)
  BY DEF Range
<1>26. ConnectorsOK(w, r2, n + 1)
  BY <1>4, <1>15, <1>23, <1>24, <1>25 DEF ConnectorsOK
<1> QED
  BY <1>3, <1>6, <1>8, <1>11, <1>15, <1>17, <1>18, <1>19, <1>21, <1>22, <1>26
-----------------------------------------------------------------------------
(* One worker, step by step.                                                 *)

(* Events stay meant while the worker goes on.                               *)
LEMMA EventsKept ==
  ASSUME NEW w \in Workers, NEW r \in Worker, NEW r2 \in Worker, Kept(r, r2),
         NEW q \in Seq(InputEvent), NEW d, NEW d2, EventsOK(w, q, r, d),
         \A x \in BuffersOf(q) : d2[x] = d[x],
         r2.at = "handle" =>
           /\ r.at = "handle" /\ r2.event = r.event /\ r2.todo = r.todo
           /\ \A x \in InHand(r) : d2[x] = d[x],
         r2.at = "input" => r2.todo > 0 /\ r2.todo <= Len(q)
  PROVE  EventsOK(w, q, r2, d2)
<1>1. \A k \in DOMAIN q : Meant(w, r2, q[k], d2)
  BY QueueKept DEF EventsOK
<1>2. ASSUME r2.at = "handle"
      PROVE  r2.event \in InputEvent /\ Meant(w, r2, r2.event, d2) /\ r2.todo <= Len(q)
  <2>1. r.event \in InputEvent /\ Meant(w, r, r.event, d) /\ r.todo <= Len(q)
    BY <1>2 DEF EventsOK
  <2>2. ASSUME r.event.type = "send" PROVE d2[r.event.buffer] = d[r.event.buffer]
    BY <1>2, <2>1, <2>2 DEF InHand, Meant
  <2>3. Meant(w, r2, r.event, d2)
    BY <2>1, <2>2, MeantKept
  <2> QED
    BY <1>2, <2>1, <2>3
<1> QED
  BY <1>1, <1>2 DEF EventsOK

(* Kept says nothing when nothing changes.                                   *)
LEMMA KeptItself ==
  ASSUME NEW r \in Worker
  PROVE  Kept(r, r)
<1>1. \A i \in Slots : r.connector[i].id \in Nat
  BY DEF Worker, Connector
<1> QED
  BY <1>1 DEF Kept

(* A buffer in a queue or in the hand is not free and not written.           *)
LEMMA Apart ==
  ASSUME NEW w, NEW f, NEW c, NEW q, NEW r, NEW l, Stored(w, f, c, q, r, l)
  PROVE  /\ \A x \in Range(f) : x \notin BuffersOf(q) /\ x \notin InHand(r)
                                /\ x \notin Writes(r) /\ x \notin Taken(w, c)
         /\ \A x \in Taken(w, c) : x \notin BuffersOf(q) /\ x \notin InHand(r)
                                   /\ x \notin Writes(r)
         /\ \A x \in Writes(r) : x \notin BuffersOf(q) /\ x \notin InHand(r)
         /\ \A x \in InHand(r) : x \notin BuffersOf(q)
         /\ \A i \in Slots : \A x \in Range(r.connector[i].write) : x \in Writes(r)
BY DEF Stored, InOnePlace, Writes

(* The master's call is another, with the same buffer or none; connections   *)
(* may have been accepted elsewhere.                                         *)
LEMMA WorkerSame ==
  ASSUME NEW w \in Workers, NEW f, NEW c, NEW q, NEW r \in Worker, NEW l, NEW d, NEW o,
         NEW n \in Nat, WorkerOK(w, f, c, q, r, l, d, o, n),
         NEW c2, Taken(w, c2) = Taken(w, c), NEW m \in Nat, n <= m
  PROVE  WorkerOK(w, f, c2, q, r, l, d, o, m)
<1>1. SameWrites(r, r) /\ SameConnections(r, r)
  BY DEF SameWrites, SameConnections
<1>2. Stored(w, f, c2, q, r, l)
  BY <1>1, StoredKeeps DEF WorkerOK
<1>3. \A i \in Slots : ~ InUse(r.connector[i]) => r.connector[i].write = <<>>
  BY DEF WorkerOK, ConnectorsOK, ConnectorOK
<1>4. ConnectorsOK(w, r, m)
  BY <1>1, <1>3, ConnectorsKeep DEF WorkerOK
<1> QED
  BY <1>2, <1>4 DEF WorkerOK

(* A pushed event joins those that are meant.                                *)
LEMMA EventsGrow ==
  ASSUME NEW w, NEW q \in Seq(InputEvent), NEW r \in Worker, NEW d, EventsOK(w, q, r, d),
         NEW e \in InputEvent, Meant(w, r, e, d)
  PROVE  EventsOK(w, Append(q, e), r, d)
<1>1. PICK t : t = Append(q, e)
  OBVIOUS
<1>2. PICK n \in Nat : Len(q) = n
  OBVIOUS
<1>3. Len(t) = n + 1 /\ (\A k \in 1 .. n : t[k] = q[k]) /\ t[n + 1] = e
      /\ DOMAIN t = 1 .. n + 1 /\ DOMAIN q = 1 .. n
  BY <1>1, <1>2
<1>4. \A k \in 1 .. n + 1 : k \in 1 .. n \/ k = n + 1
  BY <1>2
<1>5. \A k \in DOMAIN t : Meant(w, r, t[k], d)
  BY <1>3, <1>4 DEF EventsOK
<1>6. r.todo \in Nat /\ (r.todo <= Len(q) => r.todo <= Len(t))
  BY <1>2, <1>3 DEF Worker
<1> QED
  BY <1>1, <1>5, <1>6 DEF EventsOK

(* The master pushes an event without a buffer.                              *)
LEMMA WorkerTold ==
  ASSUME NEW w \in Workers, NEW f, NEW c, NEW q \in Seq(InputEvent), NEW r \in Worker,
         NEW l, NEW d, NEW o, NEW n, WorkerOK(w, f, c, q, r, l, d, o, n),
         NEW e \in InputEvent, e.type # "send", Meant(w, r, e, d)
  PROVE  WorkerOK(w, f, c, Append(q, e), r, l, d, o, n)
BY StoredTells, EventsGrow DEF WorkerOK

(* Send has taken a free buffer and filled it.                               *)
LEMMA WorkerTakes ==
  ASSUME NEW w \in Workers, NEW f \in Seq(Buffers), NEW c, NEW q \in Seq(InputEvent),
         NEW r \in Worker, NEW l, NEW d \in [Buffers -> Nat], NEW o, NEW n,
         WorkerOK(w, f, c, q, r, l, d, o, n), Taken(w, c) = {}, f # <<>>,
         NEW c2, c2.op = "push", c2.w = w, c2.buffer = Head(f),
         NEW d2, \A x \in Buffers : x # Head(f) => d2[x] = d[x]
  PROVE  WorkerOK(w, Tail(f), c2, q, r, l, d2, o, n)
<1>1. Stored(w, f, c, q, r, l)
  BY DEF WorkerOK
<1>2. Stored(w, Tail(f), c2, q, r, l)
  BY <1>1, StoredTakes
<1>3. Head(f) \in Range(f)
  BY <1>1, TailRange DEF Stored
<1>4. /\ Head(f) \notin BuffersOf(q) /\ Head(f) \notin InHand(r)
      /\ \A i \in Slots : Head(f) \notin Range(r.connector[i].write)
  BY <1>1, <1>3, Apart
<1>5. Kept(r, r)
  BY KeptItself
<1>6. EventsOK(w, q, r, d)
  BY DEF WorkerOK
<1>7. r.at = "input" => r.todo > 0 /\ r.todo <= Len(q)
  BY <1>6 DEF EventsOK
<1>8. \A x \in BuffersOf(q) \cup InHand(r) : d2[x] = d[x]
  <2>1. \A x \in BuffersOf(q) \cup InHand(r) : x \in Buffers
    BY <1>1 DEF Stored, InOnePlace
  <2> QED
    BY <2>1, <1>4
<1>9. EventsOK(w, q, r, d2)
  BY <1>5, <1>6, <1>7, <1>8, EventsKept, ZenonT(60)
<1>10. Serves(r, d2)
  <2>1. \A i \in Slots : \A x \in Range(r.connector[i].write) : x \in Buffers
    BY <1>1 DEF Stored, InOnePlace, Writes
  <2> QED
    BY <2>1, <1>4 DEF WorkerOK, Serves
<1> QED
  BY <1>2, <1>9, <1>10 DEF WorkerOK

(* Send pushes its event.                                                    *)
LEMMA WorkerSent ==
  ASSUME NEW w \in Workers, NEW f, NEW c, NEW q \in Seq(InputEvent), NEW r \in Worker,
         NEW l, NEW d, NEW o, NEW n, WorkerOK(w, f, c, q, r, l, d, o, n),
         c.op = "push", c.w = w,
         NEW e \in InputEvent, e.type = "send", e.buffer = c.buffer, Meant(w, r, e, d),
         NEW c2, Taken(w, c2) = {}
  PROVE  WorkerOK(w, f, c2, Append(q, e), r, l, d, o, n)
<1>1. Stored(w, f, c2, Append(q, e), r, l)
  BY StoredPushes DEF WorkerOK
<1> QED
  BY <1>1, EventsGrow DEF WorkerOK

(* What the thread does with its own record alone.                           *)
LEMMA WorkerGoes ==
  ASSUME NEW w \in Workers, NEW f, NEW c, NEW q \in Seq(InputEvent), NEW r \in Worker,
         NEW l, NEW d, NEW o, NEW n \in Nat, WorkerOK(w, f, c, q, r, l, d, o, n),
         NEW r2 \in Worker, r2.connector = r.connector, r2.free = r.free,
         InHand(r) = {}, r2.at # "handle",
         r2.at = "input" => r2.todo > 0 /\ r2.todo <= Len(q)
  PROVE  WorkerOK(w, f, c, q, r2, l, d, o, n) /\ Kept(r, r2)
<1>1. SameWrites(r, r2) /\ SameConnections(r, r2) /\ InHand(r2) = InHand(r)
  BY DEF SameWrites, SameConnections, InHand
<1>2. Stored(w, f, c, q, r2, l)
  BY <1>1, StoredKeeps DEF WorkerOK
<1>3. \A i \in Slots : ~ InUse(r.connector[i]) => r2.connector[i].write = <<>>
  BY DEF WorkerOK, ConnectorsOK, ConnectorOK
<1>4. ConnectorsOK(w, r2, n) /\ Kept(r, r2)
  BY <1>1, <1>3, ConnectorsKeep DEF WorkerOK
<1>5. EventsOK(w, q, r2, d)
  BY <1>4, EventsKept DEF WorkerOK
<1>6. Told(w, o, r2)
  BY <1>4, ToldKept DEF WorkerOK
<1>7. Serves(r2, d)
  BY DEF WorkerOK, Serves
<1> QED
  BY <1>2, <1>4, <1>5, <1>6, <1>7 DEF WorkerOK

(* PopInput: the worker has the next event in hand.                          *)
LEMMA WorkerPops ==
  ASSUME NEW w \in Workers, NEW f, NEW c, NEW q \in Seq(InputEvent), NEW r \in Worker,
         NEW l, NEW d, NEW o, NEW n \in Nat, WorkerOK(w, f, c, q, r, l, d, o, n),
         r.at = "input",
         NEW r2 \in Worker, r2.connector = r.connector, r2.free = r.free,
         r2.at = "handle", r2.event = Head(q), r2.todo = r.todo - 1
  PROVE  q # <<>> /\ WorkerOK(w, f, c, Tail(q), r2, l, d, o, n) /\ Kept(r, r2)
<1>1. EventsOK(w, q, r, d) /\ Stored(w, f, c, q, r, l)
  BY DEF WorkerOK
<1>2. r.todo \in Nat /\ r.todo > 0 /\ r.todo <= Len(q)
  BY <1>1 DEF EventsOK, Worker
<1>3. q # <<>> /\ SentOnce(q)
  BY <1>1, <1>2 DEF Stored
<1>4. /\ Tail(q) \in Seq(InputEvent) /\ Head(q) \in InputEvent
      /\ Len(Tail(q)) = Len(q) - 1 /\ Head(q) = q[1] /\ 1 \in DOMAIN q
      /\ \A k \in DOMAIN Tail(q) : k + 1 \in DOMAIN q /\ Tail(q)[k] = q[k + 1]
  BY <1>3, PoppedBuffers
<1>5. Meant(w, r, Head(q), d)
  BY <1>1, <1>4 DEF EventsOK
<1>6. \A x : x \in InHand(r2) <=> x \in BufferOf(Head(q))
  BY <1>5 DEF InHand, BufferOf, Meant
<1>7. InHand(r) = {} /\ SameWrites(r, r2) /\ SameConnections(r, r2)
  BY DEF InHand, SameWrites, SameConnections
<1>8. Stored(w, f, c, Tail(q), r2, l)
  BY <1>1, <1>3, <1>6, <1>7, StoredPops
<1>9. \A i \in Slots : ~ InUse(r.connector[i]) => r2.connector[i].write = <<>>
  BY DEF WorkerOK, ConnectorsOK, ConnectorOK
<1>10. ConnectorsOK(w, r2, n) /\ Kept(r, r2)
  <2>1. n <= n /\ ConnectorsOK(w, r, n)
    BY DEF WorkerOK
  <2> QED
    BY <2>1, <1>7, <1>9, ConnectorsKeep
<1>11. \A k \in DOMAIN Tail(q) : Meant(w, r2, Tail(q)[k], d)
  <2> SUFFICES ASSUME NEW k \in DOMAIN Tail(q) PROVE Meant(w, r2, Tail(q)[k], d)
    OBVIOUS
  <2>1. Meant(w, r, Tail(q)[k], d)
    BY <1>1, <1>4 DEF EventsOK
  <2> QED
    BY <2>1, <1>10, MeantKept
<1>12. Meant(w, r2, r2.event, d)
  BY <1>5, <1>10, MeantKept
<1>13. r2.todo <= Len(Tail(q))
  BY <1>2, <1>4
<1>14. EventsOK(w, Tail(q), r2, d)
  BY <1>4, <1>11, <1>12, <1>13 DEF EventsOK
<1>15. Told(w, o, r2)
  BY <1>10, ToldKept DEF WorkerOK
<1>16. Serves(r2, d)
  BY DEF WorkerOK, Serves
<1> QED
  BY <1>3, <1>8, <1>10, <1>14, <1>15, <1>16 DEF WorkerOK

(* A send event in hand: its buffer, and the connection it was meant for.    *)
LEMMA SendInHand ==
  ASSUME NEW w \in Workers, NEW q, NEW r \in Worker, NEW d, EventsOK(w, q, r, d),
         r.at = "handle", r.event.type = "send"
  PROVE  /\ r.event.buffer \in Buffers /\ InHand(r) = {r.event.buffer}
         /\ Named(w, r, r.event.id, d[r.event.buffer]) \/ IsPeerId(r.event.id)
         /\ r.todo <= Len(q)
<1>1. r.event \in InputEvent /\ Meant(w, r, r.event, d) /\ r.todo <= Len(q)
  BY DEF EventsOK
<1>2. r.event.buffer \in Buffers
  BY <1>1 DEF Meant, InputEvent
<1> QED
  BY <1>1, <1>2, NetAssumption DEF Meant, InHand

(* SendTo: the connector of the id has a buffer more to write.               *)
LEMMA WorkerWrites ==
  ASSUME NEW w \in Workers, NEW f, NEW c, NEW q \in Seq(InputEvent), NEW r \in Worker,
         NEW l, NEW d, NEW o, NEW n \in Nat, WorkerOK(w, f, c, q, r, l, d, o, n),
         r.at = "handle", r.event.type = "send",
         ParseNetConnectionType(r.event.id) = kConnector,
         NEW i, i = ParseNetConnectionIndex(r.event.id), r.connector[i].id = r.event.id,
         NEW r2 \in Worker,
         r2.connector = [r.connector EXCEPT ![i].write = Append(@, r.event.buffer)],
         r2.free = r.free, r2.todo = r.todo,
         r2.at = IF r.todo = 0 THEN "test" ELSE "input"
  PROVE  WorkerOK(w, f, c, q, r2, l, d, o, n) /\ Kept(r, r2)
<1>1. EventsOK(w, q, r, d) /\ Stored(w, f, c, q, r, l)
  BY DEF WorkerOK
<1>2. PICK b \in Buffers : b = r.event.buffer
  BY <1>1, SendInHand
<1>3. InHand(r) = {b} /\ r.todo <= Len(q)
  BY <1>1, <1>2, SendInHand, ZenonT(60)
<1>4. Named(w, r, r.event.id, d[b])
  BY <1>1, <1>2, SendInHand, PeerIdParsed
<1>5. i \in Slots /\ InUse(r.connector[i]) /\ r.connector[i].number = d[b]
  BY <1>4, NamedConnector
<1>6. r.connector \in [Slots -> Connector]
  BY DEF Worker
<1>7. PICK x \in Connector : x = r.connector[i]
  BY <1>5, <1>6
<1>8. PICK y : y = [x EXCEPT !.write = Append(@, b)]
  OBVIOUS
<1>9. y.id = x.id /\ y.number = x.number /\ y.handler = x.handler /\ y.write = Append(x.write, b)
  BY <1>8 DEF Connector
<1>10. r2.connector = [r.connector EXCEPT ![i] = y]
  BY <1>2, <1>7, <1>8
<1>11. r2.connector[i] = y /\ \A j \in Slots \ {i} : r2.connector[j] = r.connector[j]
  BY <1>5, <1>6, <1>10
<1>12. \A j \in Slots : j = i \/ j \in Slots \ {i}
  OBVIOUS
<1>13. SameConnections(r, r2)
  BY <1>7, <1>9, <1>11, <1>12 DEF SameConnections
<1>14. \A j \in Slots : ~ InUse(r.connector[j]) => r2.connector[j].write = <<>>
  BY <1>5, <1>11, <1>12 DEF WorkerOK, ConnectorsOK, ConnectorOK
<1>15. ConnectorsOK(w, r2, n) /\ Kept(r, r2)
  <2>1. n <= n /\ ConnectorsOK(w, r, n)
    BY DEF WorkerOK
  <2> QED
    BY <2>1, <1>13, <1>14, ConnectorsKeep
<1>16. InHand(r2) = {}
  BY DEF InHand
<1>17. Stored(w, f, c, q, r2, l)
  <2>1. r2.connector[i].write = OneMore(r.connector[i].write, b)
    BY <1>7, <1>9, <1>11 DEF OneMore
  <2>2. OtherWrites(r, r2, i)
    BY <1>11 DEF OtherWrites
  <2>3. InHand(r) = {b} /\ i \in Slots /\ Stored(w, f, c, q, r, l)
    BY <1>1, <1>3, <1>5
  <2> QED
    BY <2>1, <2>2, <2>3, <1>16, StoredWrites
<1>18. r2.at = "input" => r2.todo > 0 /\ r2.todo <= Len(q)
  BY <1>3 DEF Worker
<1>19. EventsOK(w, q, r2, d)
  BY <1>1, <1>15, <1>18, EventsKept
<1>20. Told(w, o, r2)
  BY <1>15, ToldKept DEF WorkerOK
<1>21. Serves(r2, d)
  <2> SUFFICES ASSUME NEW j \in Slots, NEW z \in Range(r2.connector[j].write)
               PROVE  d[z] = r2.connector[j].number
    BY DEF Serves
  <2>1. CASE j = i
    <3>1. x.write \in Seq(Buffers)
      BY DEF Connector
    <3>2. z \in Range(x.write) \/ z = b
      <4>1. \A v : v \in Range(Append(x.write, b)) <=> v \in Range(x.write) \/ v = b
        BY <3>1, AppendRange
      <4>2. z \in Range(Append(x.write, b))
        BY <2>1, <1>9, <1>11
      <4> QED
        BY <4>1, <4>2
    <3>3. z \in Range(x.write) => d[z] = x.number
      BY <1>5, <1>7 DEF WorkerOK, Serves
    <3> QED
      BY <3>2, <3>3, <2>1, <1>5, <1>7, <1>9, <1>11
  <2>2. CASE j # i
    <3>1. Serves(r, d)
      BY DEF WorkerOK
    <3>2. r2.connector[j] = r.connector[j]
      BY <2>2, <1>11, <1>12
    <3>3. \A v \in Range(r.connector[j].write) : d[v] = r.connector[j].number
      BY <3>1 DEF Serves
    <3> QED
      BY <3>2, <3>3, Zenon
  <2> QED
    BY <2>1, <2>2
<1> QED
  BY <1>15, <1>17, <1>19, <1>20, <1>21 DEF WorkerOK

(* The buffers that are queued or to be written hold what they did.          *)
DataKept(q, r, d, d2) ==
  (\A x \in BuffersOf(q) : d2[x] = d[x]) /\ (\A x \in Writes(r) : d2[x] = d[x])

(* What is left when the event in hand has been handled and no connector     *)
(* has changed.                                                              *)
LEMMA HandEmptied ==
  ASSUME NEW w \in Workers, NEW q \in Seq(InputEvent), NEW r \in Worker,
         NEW d \in [Buffers -> Nat], NEW o, NEW n \in Nat, ConnectorsOK(w, r, n),
         EventsOK(w, q, r, d),
         Told(w, o, r), Serves(r, d), r.at = "handle",
         NEW r2 \in Worker, r2.connector = r.connector, r2.free = r.free, r2.todo = r.todo,
         r2.at = IF r.todo = 0 THEN "test" ELSE "input",
         NEW d2 \in [Buffers -> Nat],
         DataKept(q, r, d, d2)
  PROVE  /\ SameWrites(r, r2) /\ InHand(r2) = {} /\ Kept(r, r2)
         /\ ConnectorsOK(w, r2, n) /\ EventsOK(w, q, r2, d2) /\ Told(w, o, r2) /\ Serves(r2, d2)
<1>1. SameWrites(r, r2) /\ SameConnections(r, r2) /\ InHand(r2) = {}
  BY DEF SameWrites, SameConnections, InHand
<1>2. \A i \in Slots : ~ InUse(r.connector[i]) => r2.connector[i].write = <<>>
  BY DEF ConnectorsOK, ConnectorOK
<1>3. n <= n
  OBVIOUS
<1>4. ConnectorsOK(w, r2, n) /\ Kept(r, r2)
  BY <1>1, <1>2, <1>3, ConnectorsKeep
<1>5. r2.at = "input" => r2.todo > 0 /\ r2.todo <= Len(q)
  BY DEF EventsOK, Worker
<1>6. EventsOK(w, q, r2, d2)
  BY <1>4, <1>5, EventsKept DEF DataKept
<1>7. Told(w, o, r2)
  BY <1>4, ToldKept
<1>8. Serves(r2, d2)
  BY DEF Serves, Writes, DataKept
<1> QED
  BY <1>1, <1>4, <1>6, <1>7, <1>8

(* The buffers of a list are emptied. *)
Emptied(d, list) == [b \in Buffers |-> IF b \in Range(list) THEN 0 ELSE d[b]]

(* The list that FreeInputBuffer frees. *)
IsOnly(list, b) == list = <<b>>

(* It is a list of buffers. *)
LEMMA OnlyOne ==
  ASSUME NEW b \in Buffers, NEW s, IsOnly(s, b)
  PROVE  s \in Seq(Buffers) /\ \A x : x \in Range(s) <=> x = b
BY OneRange DEF IsOnly

(* FreeInputBuffer, for an event whose connection is over.                   *)
LEMMA WorkerFrees ==
  ASSUME NEW w \in Workers, NEW f \in Seq(Buffers), NEW c, NEW q \in Seq(InputEvent),
         NEW r \in Worker, NEW l, NEW d \in [Buffers -> Nat], NEW o, NEW n \in Nat,
         WorkerOK(w, f, c, q, r, l, d, o, n),
         r.at = "handle", r.event.type = "send",
         NEW r2 \in Worker, r2.connector = r.connector, r2.free = r.free, r2.todo = r.todo,
         r2.at = IF r.todo = 0 THEN "test" ELSE "input",
         NEW s, IsOnly(s, r.event.buffer),
         NEW d2 \in [Buffers -> Nat], d2 = Emptied(d, s)
  PROVE  WorkerOK(w, f \o s, c, q, r2, l, d2, o, n) /\ Kept(r, r2)
<1>1. EventsOK(w, q, r, d) /\ Stored(w, f, c, q, r, l) /\ ConnectorsOK(w, r, n)
      /\ Told(w, o, r) /\ Serves(r, d)
  BY DEF WorkerOK
<1>2. PICK b \in Buffers : b = r.event.buffer /\ InHand(r) = {b}
  BY <1>1, SendInHand
<1>3. s = <<b>> /\ \A x : x \in Range(s) <=> x = b
  BY <1>2, OneRange DEF IsOnly
<1>4. \A x : x \in BuffersOf(q) \/ x \in Writes(r) => x \in Buffers /\ x # b
  BY <1>1, <1>2 DEF Stored, InOnePlace
<1>5. DataKept(q, r, d, d2)
  BY <1>2, <1>3, <1>4 DEF DataKept, Emptied
<1>6. /\ SameWrites(r, r2) /\ InHand(r2) = {} /\ Kept(r, r2)
      /\ ConnectorsOK(w, r2, n) /\ EventsOK(w, q, r2, d2) /\ Told(w, o, r2) /\ Serves(r2, d2)
  BY <1>1, <1>5, HandEmptied
<1>7. Stored(w, f \o s, c, q, r2, l)
  BY <1>1, <1>2, <1>3, <1>6, StoredFrees
<1> QED
  BY <1>2, <1>6, <1>7 DEF WorkerOK

(* SendTo, for a peer connector.                                             *)
LEMMA WorkerForgets ==
  ASSUME NEW w \in Workers, NEW f, NEW c, NEW q \in Seq(InputEvent),
         NEW r \in Worker, NEW l, NEW d \in [Buffers -> Nat], NEW o, NEW n \in Nat,
         WorkerOK(w, f, c, q, r, l, d, o, n),
         r.at = "handle", r.event.type = "send",
         NEW r2 \in Worker, r2.connector = r.connector, r2.free = r.free, r2.todo = r.todo,
         r2.at = IF r.todo = 0 THEN "test" ELSE "input"
  PROVE  WorkerOK(w, f, c, q, r2, l \cup {r.event.buffer}, d, o, n) /\ Kept(r, r2)
<1>1. EventsOK(w, q, r, d) /\ Stored(w, f, c, q, r, l) /\ ConnectorsOK(w, r, n)
      /\ Told(w, o, r) /\ Serves(r, d)
  BY DEF WorkerOK
<1>2. PICK b \in Buffers : b = r.event.buffer /\ InHand(r) = {b}
  BY <1>1, SendInHand
<1>3. /\ SameWrites(r, r2) /\ InHand(r2) = {} /\ Kept(r, r2)
      /\ ConnectorsOK(w, r2, n) /\ EventsOK(w, q, r2, d) /\ Told(w, o, r2) /\ Serves(r2, d)
  <2>1. DataKept(q, r, d, d)
    BY DEF DataKept
  <2> QED
    BY <2>1, <1>1, HandEmptied
<1>4. Stored(w, f, c, q, r2, l \cup {b})
  BY <1>1, <1>2, <1>3, StoredForgets
<1> QED
  BY <1>2, <1>3, <1>4 DEF WorkerOK

(* An output event more: of an accepted connection only with its id.         *)
LEMMA ToldMore ==
  ASSUME NEW w, NEW r, NEW o \in Seq(OutputEvent), Told(w, o, r),
         NEW e \in OutputEvent, e.type = "connected" => Named(w, r, e.id, e.number)
  PROVE  Told(w, Append(o, e), r)
<1>1. PICK t : t = Append(o, e)
  OBVIOUS
<1>2. PICK n \in Nat : Len(o) = n
  OBVIOUS
<1>3. Len(t) = n + 1 /\ (\A k \in 1 .. n : t[k] = o[k]) /\ t[n + 1] = e
      /\ DOMAIN t = 1 .. n + 1 /\ DOMAIN o = 1 .. n
  BY <1>1, <1>2
<1>4. \A k \in 1 .. n + 1 : k \in 1 .. n \/ k = n + 1
  BY <1>2
<1>5. Told(w, t, r)
  BY <1>3, <1>4 DEF Told
<1> QED
  BY <1>1, <1>5

(* Closing a connector, with no event in hand.                               *)
LEMMA WorkerCloses ==
  ASSUME NEW w \in Workers, NEW f \in Seq(Buffers), NEW c, NEW q \in Seq(InputEvent),
         NEW r \in Worker, NEW l, NEW d \in [Buffers -> Nat], NEW o, NEW n \in Nat,
         n <= MaxConnections, WorkerOK(w, f, c, q, r, l, d, o, n),
         r.at # "handle", NEW i \in Slots, InUse(r.connector[i]),
         NEW r2, r2 = FreeNetConnector(Cleared(r, i), i),
         NEW s, s = r.connector[i].write
  PROVE  /\ r2 \in Worker /\ Kept(r, r2)
         /\ WorkerOK(w, f \o s, c, q, r2, l, Emptied(d, s), o, n)
<1>1. EventsOK(w, q, r, d) /\ Stored(w, f, c, q, r, l) /\ ConnectorsOK(w, r, n)
      /\ Told(w, o, r) /\ Serves(r, d)
  BY DEF WorkerOK
<1>2. /\ r2 \in Worker /\ r2.at = r.at /\ r2.event = r.event /\ r2.todo = r.todo
      /\ r2.connector[i].write = <<>>
      /\ \A j \in Slots \ {i} : r2.connector[j] = r.connector[j]
      /\ ConnectorsOK(w, r2, n) /\ Kept(r, r2)
  BY <1>1, ConnectorFreed
<1>3. InHand(r2) = InHand(r) /\ OtherWrites(r, r2, i)
  BY <1>2 DEF InHand, OtherWrites
<1>4. s \in Seq(Buffers) /\ IsInjective(s)
  BY <1>1 DEF Worker, Connector, Stored, WrittenOnce
<1>5. \A x : x \notin Range(<<>>)
  BY DEF Range
<1>6. IsInjective(<<>>)
  BY DEF IsInjective
<1>7. Splits(r.connector[i].write, s, r2.connector[i].write)
  BY <1>2, <1>4, <1>5, <1>6 DEF Splits
<1>8. Stored(w, f \o s, c, q, r2, l)
  BY <1>1, <1>2, <1>3, <1>4, <1>7, StoredReturns
<1>9. \A x \in Range(s) : x \in Writes(r)
  BY DEF Writes
<1>10. \A x \in BuffersOf(q) : x \in Buffers /\ x \notin Range(s)
  BY <1>1, <1>9 DEF Stored, InOnePlace
<1>11. \A x \in BuffersOf(q) : Emptied(d, s)[x] = d[x]
  BY <1>10 DEF Emptied
<1>12. r2.at = "input" => r2.todo > 0 /\ r2.todo <= Len(q)
  BY <1>1, <1>2 DEF EventsOK
<1>13. r2.at # "handle"
  BY <1>2
<1>14. Emptied(d, s) \in [Buffers -> Nat]
  BY DEF Emptied
<1>15. EventsOK(w, q, r2, Emptied(d, s))
  BY <1>1, <1>2, <1>11, <1>12, <1>13, <1>14, EventsKept
<1>16. Told(w, o, r2)
  BY <1>1, <1>2, ToldKept
<1>17. Serves(r2, Emptied(d, s))
  <2> SUFFICES ASSUME NEW j \in Slots, NEW x \in Range(r2.connector[j].write)
               PROVE  Emptied(d, s)[x] = r2.connector[j].number
    BY DEF Serves
  <2>1. j # i
    BY <1>2, <1>5
  <2>2. r2.connector[j] = r.connector[j]
    BY <2>1, <1>2
  <2>3. x \in Range(r.connector[j].write) /\ d[x] = r.connector[j].number
    BY <2>2, <1>1 DEF Serves
  <2>4. x \notin Range(s)
    BY <2>1, <2>3, <1>1 DEF Stored, WrittenOnce
  <2>5. x \in Buffers
    BY <2>3, <1>1 DEF Stored, InOnePlace, Writes
  <2> QED
    BY <2>2, <2>3, <2>4, <2>5 DEF Emptied
<1> QED
  BY <1>2, <1>8, <1>15, <1>16, <1>17 DEF WorkerOK

(* A connector has written a buffer.                                         *)
LEMMA WorkerWrote ==
  ASSUME NEW w \in Workers, NEW f \in Seq(Buffers), NEW c, NEW q \in Seq(InputEvent),
         NEW r \in Worker, NEW l, NEW d \in [Buffers -> Nat], NEW o, NEW n \in Nat,
         WorkerOK(w, f, c, q, r, l, d, o, n),
         r.at # "handle", NEW i \in Slots, r.connector[i].write # <<>>,
         NEW r2, r2 = WithWritten(r, i),
         NEW s, IsOnly(s, Head(r.connector[i].write))
  PROVE  /\ r2 \in Worker /\ Kept(r, r2) /\ s \in Seq(Buffers)
         /\ WorkerOK(w, f \o s, c, q, r2, l, Emptied(d, s), o, n)
<1>1. EventsOK(w, q, r, d) /\ Stored(w, f, c, q, r, l) /\ ConnectorsOK(w, r, n)
      /\ Told(w, o, r) /\ Serves(r, d)
  BY DEF WorkerOK
<1>2. r.connector \in [Slots -> Connector]
  BY DEF Worker
<1>3. PICK x \in Connector : x = r.connector[i]
  BY <1>2
<1>4. PICK t \in Seq(Buffers) : t = x.write
  BY DEF Connector
<1>5. t # <<>> /\ IsInjective(t)
  BY <1>1, <1>3, <1>4 DEF Stored, WrittenOnce
<1>6. PICK b \in Buffers : b = Head(t)
  BY <1>4, <1>5
<1>7. /\ Tail(t) \in Seq(Buffers) /\ IsInjective(Tail(t)) /\ b \in Range(t)
      /\ \A z : z \in Range(Tail(t)) <=> z \in Range(t) /\ z # b
  BY <1>5, <1>6, TailRange
<1>8. /\ <<b>> \in Seq(Buffers) /\ IsInjective(<<b>>)
      /\ \A z : z \in Range(<<b>>) <=> z = b
  BY OneRange
<1>9. s = <<b>>
  BY <1>3, <1>4, <1>6 DEF IsOnly
<1>10. PICK y : y = [x EXCEPT !.write = Tail(t)]
  OBVIOUS
<1>11. y \in Connector /\ y.id = x.id /\ y.number = x.number /\ y.handler = x.handler
       /\ y.write = Tail(t)
  BY <1>7, <1>10 DEF Connector
<1>12. PICK g \in Worker : g = r
  OBVIOUS
<1>13. r2 = [g EXCEPT !.connector = [g.connector EXCEPT ![i] = y]]
  BY <1>3, <1>4, <1>10, <1>12 DEF WithWritten, Worker
<1>14. /\ r2.at = r.at /\ r2.event = r.event /\ r2.todo = r.todo
       /\ r2.connector = [r.connector EXCEPT ![i] = y] /\ r2.free = r.free
  BY <1>12, <1>13 DEF Worker
<1>15. r2.connector \in [Slots -> Connector]
  BY <1>2, <1>11, <1>14
<1>16. r2 \in Worker
  BY <1>12, <1>13, <1>15, <1>14 DEF Worker
<1>17. r2.connector[i] = y /\ \A j \in Slots \ {i} : r2.connector[j] = r.connector[j]
  BY <1>2, <1>14
<1>18. \A j \in Slots : j = i \/ j \in Slots \ {i}
  OBVIOUS
<1>19. SameConnections(r, r2) /\ OtherWrites(r, r2, i) /\ InHand(r2) = InHand(r)
  BY <1>3, <1>11, <1>14, <1>17, <1>18 DEF SameConnections, OtherWrites, InHand
<1>20. \A j \in Slots : ~ InUse(r.connector[j]) => r2.connector[j].write = <<>>
  <2>1. \A j \in Slots : ~ InUse(r.connector[j]) => r.connector[j].write = <<>>
    BY <1>1 DEF ConnectorsOK, ConnectorOK
  <2> QED
    BY <2>1, <1>17, <1>18
<1>21. ConnectorsOK(w, r2, n) /\ Kept(r, r2)
  <2>1. n <= n
    OBVIOUS
  <2> QED
    BY <2>1, <1>1, <1>16, <1>19, <1>20, ConnectorsKeep
<1>22. Splits(r.connector[i].write, s, r2.connector[i].write)
  <2>1. PICK u : u = Tail(t)
    OBVIOUS
  <2>2. IsInjective(u) /\ \A z : z \in Range(u) <=> z \in Range(t) /\ z # b
    BY <2>1, <1>7
  <2>3. IsInjective(s) /\ \A z : z \in Range(s) <=> z = b
    BY <1>8, <1>9
  <2>4. b \in Range(t)
    BY <1>7
  <2>5. \A z : z \in Range(t) <=> z \in Range(s) \/ z \in Range(u)
    BY <2>2, <2>3, <2>4
  <2>6. \A z \in Range(s) : z \notin Range(u)
    BY <2>2, <2>3
  <2>7. Splits(t, s, u)
    BY <2>2, <2>3, <2>5, <2>6 DEF Splits
  <2>8. r.connector[i].write = t /\ r2.connector[i].write = u
    BY <2>1, <1>3, <1>4, <1>11, <1>17
  <2> QED
    BY <2>7, <2>8
<1>23. Stored(w, f \o s, c, q, r2, l)
  BY <1>1, <1>8, <1>9, <1>16, <1>19, <1>22, StoredReturns
<1>24. b \in Writes(r)
  BY <1>3, <1>4, <1>7 DEF Writes
<1>25. \A z \in BuffersOf(q) : z \in Buffers /\ z \notin Range(s)
  BY <1>1, <1>8, <1>9, <1>24 DEF Stored, InOnePlace
<1>26. \A z \in BuffersOf(q) : Emptied(d, s)[z] = d[z]
  BY <1>25 DEF Emptied
<1>27. Emptied(d, s) \in [Buffers -> Nat]
  BY DEF Emptied
<1>28. r2.at # "handle" /\ (r2.at = "input" => r2.todo > 0 /\ r2.todo <= Len(q))
  BY <1>1, <1>14 DEF EventsOK
<1>29. EventsOK(w, q, r2, Emptied(d, s))
  BY <1>1, <1>16, <1>21, <1>26, <1>27, <1>28, EventsKept, ZenonT(60)
<1>30. Told(w, o, r2)
  BY <1>1, <1>16, <1>21, ToldKept
<1>31. Serves(r2, Emptied(d, s))
  <2> SUFFICES ASSUME NEW j \in Slots, NEW z \in Range(r2.connector[j].write)
               PROVE  Emptied(d, s)[z] = r2.connector[j].number
    BY DEF Serves
  <2>1. z \in Range(r.connector[j].write) /\ z # b
    <3>1. CASE j = i
      BY <3>1, <1>3, <1>4, <1>7, <1>11, <1>17
    <3>2. CASE j # i
      <4>1. r2.connector[j] = r.connector[j]
        BY <3>2, <1>17
      <4>2. b \notin Range(r.connector[j].write)
        BY <3>2, <1>1, <1>3, <1>4, <1>7 DEF Stored, WrittenOnce
      <4> QED
        BY <4>1, <4>2
    <3> QED
      BY <3>1, <3>2
  <2>2. d[z] = r.connector[j].number
    BY <2>1, <1>1 DEF Serves
  <2>3. z \in Buffers
    BY <2>1, <1>1 DEF Stored, InOnePlace, Writes
  <2>4. Emptied(d, s)[z] = d[z]
    BY <2>1, <2>3, <1>8, <1>9 DEF Emptied
  <2> QED
    BY <2>2, <2>4, <1>19 DEF SameConnections
<1> QED
  BY <1>8, <1>9, <1>16, <1>21, <1>23, <1>29, <1>30, <1>31 DEF WorkerOK

(* A connection is accepted.                                                 *)
LEMMA WorkerAccepts ==
  ASSUME NEW w \in Workers, NEW f, NEW c, NEW q \in Seq(InputEvent),
         NEW r \in Worker, NEW l, NEW d \in [Buffers -> Nat], NEW o, NEW n \in Nat,
         n < MaxConnections, WorkerOK(w, f, c, q, r, l, d, o, n),
         r.at # "handle", r.free # <<>>,
         NEW handler \in Nat \ {kNetConnectionIDInvalid},
         NEW x, x = Accepted(r, n, handler), NEW r2, r2 = WithAccepted(r, x)
  PROVE  /\ r2 \in Worker /\ Kept(r, r2)
         /\ x \in Connector /\ Named(w, r2, x.id, x.number)
         /\ WorkerOK(w, f, c, q, r2, l, d, o, n + 1)
<1>1. EventsOK(w, q, r, d) /\ Stored(w, f, c, q, r, l) /\ ConnectorsOK(w, r, n)
      /\ Told(w, o, r) /\ Serves(r, d)
  BY DEF WorkerOK
<1>2. /\ r2 \in Worker /\ r2.at = r.at /\ r2.event = r.event /\ r2.todo = r.todo
      /\ x \in Connector /\ Named(w, r2, x.id, x.number)
      /\ SameWrites(r, r2)
      /\ r.connector[Head(r.free)].write = <<>>
      /\ \A j \in Slots : j # Head(r.free) => r2.connector[j] = r.connector[j]
      /\ ConnectorsOK(w, r2, n + 1) /\ Kept(r, r2)
  BY <1>1, ConnectorTaken
<1>3. InHand(r2) = InHand(r)
  BY <1>2 DEF InHand
<1>4. Stored(w, f, c, q, r2, l)
  BY <1>1, <1>2, <1>3, StoredKeeps
<1>5. r2.at # "handle" /\ (r2.at = "input" => r2.todo > 0 /\ r2.todo <= Len(q))
  BY <1>1, <1>2 DEF EventsOK
<1>6. EventsOK(w, q, r2, d)
  BY <1>1, <1>2, <1>5, EventsKept
<1>7. Told(w, o, r2)
  BY <1>1, <1>2, ToldKept
<1>8. Serves(r2, d)
  <2> SUFFICES ASSUME NEW j \in Slots, NEW z \in Range(r2.connector[j].write)
               PROVE  d[z] = r2.connector[j].number
    BY DEF Serves
  <2>1. z \in Range(r.connector[j].write)
    BY <1>2 DEF SameWrites
  <2>2. j # Head(r.free)
    BY <2>1, <1>2 DEF Range
  <2> QED
    BY <2>1, <2>2, <1>1, <1>2 DEF Serves
<1> QED
  BY <1>2, <1>4, <1>6, <1>7, <1>8 DEF WorkerOK
-----------------------------------------------------------------------------
(* Steps of a worker's thread. *)

(* Nothing but what belongs to worker w changes, and nothing of the master. *)
OnlyWorker(w) ==
  /\ UNCHANGED master_vars
  /\ \A v \in Workers \ {w} :
       /\ in_queue'[v] = in_queue[v] /\ in_free'[v] = in_free[v]
       /\ out_queue'[v] = out_queue[v] /\ data'[v] = data[v]
       /\ worker'[v] = worker[v] /\ dropped'[v] = dropped[v]

(* Only workers that are there take steps.                                   *)
LEMMA WorkersUp ==
  ASSUME IInv, NEW w \in Workers, worker[w].at # "ended"
  PROVE  /\ up /\ TypeOK /\ UpOK
         /\ WorkerOK(w, in_free[w], call, in_queue[w], worker[w], dropped[w], data[w],
                     out_queue[w], accepted)
BY DEF IInv, DownOK, UpOK

(* The types, one worker's at a time.                                        *)
LEMMA WorkerTypes ==
  ASSUME TypeOK, NEW w \in Workers
  PROVE  /\ in_queue[w] \in Seq(InputEvent) /\ in_free[w] \in Seq(Buffers)
         /\ out_queue[w] \in Seq(OutputEvent) /\ data[w] \in [Buffers -> Nat]
         /\ worker[w] \in Worker /\ dropped[w] \in SUBSET Buffers
         /\ accepted \in Nat /\ accepted <= MaxConnections
BY DEF TypeOK

(* What the others rely on, when a worker has gone on.                       *)
LEMMA WorkerSteps ==
  ASSUME TypeOK, TypeOK', up, UpOK, NEW w \in Workers, OnlyWorker(w),
         accepted <= accepted', Kept(worker[w], worker'[w]),
         Len(in_queue'[w]) <= Len(in_queue[w]),
         \A x \in Taken(w, call) : data'[w][x] = data[w][x],
         WorkerOK(w, in_free'[w], call, in_queue'[w], worker'[w], dropped'[w],
                  data'[w], out_queue'[w], accepted')
  PROVE  IInv'
<1>1. up' = up /\ call' = call /\ known' = known /\ peers' = peers
  BY DEF OnlyWorker, master_vars
<1>2. \A v \in Workers : worker[v] \in Worker /\ worker'[v] \in Worker
  BY DEF TypeOK
<1>3. \A v \in Workers : Kept(worker[v], worker'[v])
  BY <1>2, KeptItself DEF OnlyWorker
<1>4. ASSUME NEW v \in Workers, NEW id, NEW number, Named(v, worker[v], id, number)
      PROVE  Named(v, worker'[v], id, number)
  BY <1>2, <1>3, <1>4, NamedKept
<1>5. CallOK'
  <2>1. call.w \in Workers
    BY DEF TypeOK, Call
  <2>2. ASSUME call.op \in {"send", "push"}
        PROVE  /\ Len(in_queue'[call.w]) < InputEvents
               /\ \/ Named(call.w, worker'[call.w], call.id, call.number)
                  \/ IsPeerId(call.id)
    <3>1. Len(in_queue'[call.w]) <= Len(in_queue[call.w])
      <4>1. CASE call.w = w
        BY <4>1
      <4>2. CASE call.w # w
        <5>1. in_queue'[call.w] = in_queue[call.w]
          BY <2>1, <4>2 DEF OnlyWorker
        <5>2. Len(in_queue[call.w]) \in Nat
          BY <2>1 DEF TypeOK
        <5> QED
          BY <5>1, <5>2
      <4> QED
        BY <4>1, <4>2
    <3>2. Len(in_queue[call.w]) \in Nat /\ Len(in_queue'[call.w]) \in Nat
      BY <2>1, SMTT(30) DEF TypeOK
    <3>3. Len(in_queue[call.w]) < InputEvents
      BY <2>2 DEF UpOK, CallOK
    <3>4. Named(call.w, worker[call.w], call.id, call.number) \/ IsPeerId(call.id)
      BY <2>2 DEF UpOK, CallOK
    <3> QED
      <4>1. Len(in_queue'[call.w]) < InputEvents
        BY <3>1, <3>2, <3>3, NetAssumption
      <4> QED
        BY <2>1, <3>4, <4>1, <1>4
  <2>3. ASSUME call.op = "push"
        PROVE  call.buffer \in Buffers /\ data'[call.w][call.buffer] = call.number
    <3>1. call.buffer \in Buffers /\ data[call.w][call.buffer] = call.number
      BY <2>3 DEF UpOK, CallOK
    <3>2. data'[call.w][call.buffer] = data[call.w][call.buffer]
      <4>1. CASE call.w = w
        BY <4>1, <2>3 DEF Taken
      <4>2. CASE call.w # w
        BY <4>2, <2>1 DEF OnlyWorker
      <4> QED
        BY <4>1, <4>2
    <3> QED
      BY <3>1, <3>2
  <2> QED
    BY <1>1, <2>2, <2>3 DEF CallOK
<1>6. KnownOK'
  BY <1>1, <1>4 DEF UpOK, KnownOK
<1>7. PeersOK'
  BY <1>1 DEF UpOK, PeersOK
<1>8. ASSUME NEW v \in Workers
      PROVE  WorkerOK(v, in_free'[v], call', in_queue'[v], worker'[v], dropped'[v],
                      data'[v], out_queue'[v], accepted')
  <2>1. CASE v = w
    BY <2>1, <1>1
  <2>2. CASE v # w
    <3>1. WorkerOK(v, in_free[v], call, in_queue[v], worker[v], dropped[v], data[v],
                   out_queue[v], accepted)
      BY DEF UpOK
    <3>2. accepted \in Nat /\ accepted' \in Nat
      BY DEF TypeOK
    <3>3. WorkerOK(v, in_free[v], call', in_queue[v], worker[v], dropped[v], data[v],
                   out_queue[v], accepted')
      <4>1. worker[v] \in Worker /\ Taken(v, call') = Taken(v, call)
        BY <1>1, <1>2
      <4> QED
        BY <3>1, <3>2, <4>1, WorkerSame
    <3> QED
      BY <2>2, <3>3 DEF OnlyWorker
  <2> QED
    BY <2>1, <2>2
<1>9. UpOK'
  BY <1>5, <1>6, <1>7, <1>8 DEF UpOK
<1> QED
  BY <1>1, <1>9 DEF IInv

(* Steps of the thread that change only its record, and there neither the    *)
(* connectors nor the buffer in hand.                                        *)
LEMMA QuietStep ==
  ASSUME IInv, NEW w \in Workers, worker[w].at # "ended",
         NEW r2 \in Worker, worker' = [worker EXCEPT ![w] = r2],
         r2.connector = worker[w].connector, r2.free = worker[w].free,
         InHand(worker[w]) = {}, r2.at # "handle",
         r2.at = "input" => r2.todo > 0 /\ r2.todo <= Len(in_queue[w]),
         UNCHANGED <<master_vars, queue_vars, data, dropped, accepted>>
  PROVE  IInv'
<1>1. /\ up /\ TypeOK /\ UpOK
      /\ WorkerOK(w, in_free[w], call, in_queue[w], worker[w], dropped[w], data[w],
                  out_queue[w], accepted)
  BY WorkersUp
<1>2. TypeOK'
  BY <1>1 DEF TypeOK, master_vars, queue_vars
<1>3. worker'[w] = r2 /\ \A v \in Workers \ {w} : worker'[v] = worker[v]
  BY <1>1 DEF TypeOK
<1>4. OnlyWorker(w)
  BY <1>3 DEF OnlyWorker, master_vars, queue_vars
<1>5. /\ in_queue[w] \in Seq(InputEvent) /\ worker[w] \in Worker /\ accepted \in Nat
  BY <1>1, WorkerTypes
<1>6. /\ WorkerOK(w, in_free[w], call, in_queue[w], r2, dropped[w], data[w],
                  out_queue[w], accepted)
      /\ Kept(worker[w], r2)
  BY <1>1, <1>5, WorkerGoes
<1>7. in_free' = in_free /\ in_queue' = in_queue /\ out_queue' = out_queue
      /\ data' = data /\ dropped' = dropped /\ accepted' = accepted
  BY DEF queue_vars
<1>8. /\ accepted <= accepted' /\ Len(in_queue'[w]) <= Len(in_queue[w])
      /\ \A x \in Taken(w, call) : data'[w][x] = data[w][x]
  BY <1>5, <1>7
<1>9. /\ WorkerOK(w, in_free'[w], call, in_queue'[w], worker'[w], dropped'[w],
                  data'[w], out_queue'[w], accepted')
      /\ Kept(worker[w], worker'[w])
  BY <1>3, <1>6, <1>7
<1> QED
  BY <1>1, <1>2, <1>4, <1>8, <1>9, WorkerSteps

(* A record at another place of the loop. *)
LEMMA RecordGoes ==
  ASSUME NEW r \in Worker, NEW place \in {"test", "wait", "woken", "events", "ended"},
         NEW r2, r2 = [r EXCEPT !.at = place]
  PROVE  /\ r2 \in Worker /\ r2.at = place
         /\ r2.connector = r.connector /\ r2.free = r.free
BY DEF Worker

(* The steps of the loop.                                                    *)
LEMMA GoesKeeps ==
  ASSUME IInv, NEW w \in Workers, worker[w].at \notin {"ended", "handle"},
         NEW place \in {"test", "wait", "woken", "events", "ended"}, Goes(w, place),
         UNCHANGED <<master_vars, queue_vars, data, dropped, accepted>>
  PROVE  IInv'
<1>1. worker[w].at # "ended" /\ InHand(worker[w]) = {}
  BY DEF InHand
<1>2. TypeOK /\ worker[w] \in Worker
  BY <1>1, WorkersUp, WorkerTypes
<1>3. PICK r2 : r2 = [worker[w] EXCEPT !.at = place]
  OBVIOUS
<1>4. r2 \in Worker /\ r2.at = place
      /\ r2.connector = worker[w].connector /\ r2.free = worker[w].free
  BY <1>2, <1>3, RecordGoes
<1>5. worker' = [worker EXCEPT ![w] = r2]
  BY <1>3 DEF Goes
<1>6. r2.at # "handle" /\ r2.at # "input"
  BY <1>4
<1> QED
  BY <1>1, <1>4, <1>5, <1>6, QuietStep

(* The loop and what it waits for.                                           *)
LEMMA LoopKeeps ==
  ASSUME IInv, NEW w \in Workers,
         LoopTest(w) \/ EpollWait(w) \/ EpollEvents(w) \/ OnWakeup(w) \/ RoundEnds(w)
  PROVE  IInv'
<1>1. CASE LoopTest(w)
  BY <1>1, GoesKeeps DEF LoopTest, At
<1>2. CASE EpollWait(w)
  BY <1>2, GoesKeeps DEF EpollWait, At
<1>3. CASE EpollEvents(w)
  BY <1>3, GoesKeeps DEF EpollEvents, At
<1>4. CASE OnWakeup(w)
  BY <1>4, GoesKeeps DEF OnWakeup, At
<1>5. CASE RoundEnds(w)
  BY <1>5, GoesKeeps DEF RoundEnds, At
<1> QED
  BY <1>1, <1>2, <1>3, <1>4, <1>5

(* HandleInputEvent begins only with events to handle.                       *)
LEMMA HandleInputKeeps ==
  ASSUME IInv, NEW w \in Workers, HandleInputEvent(w)
  PROVE  IInv'
<1>1. worker[w].at = "events"
  BY DEF HandleInputEvent, At
<1>2. worker[w].at # "ended" /\ InHand(worker[w]) = {}
  BY <1>1 DEF InHand
<1>3. TypeOK /\ worker[w] \in Worker /\ in_queue[w] \in Seq(InputEvent)
  BY <1>2, WorkersUp, WorkerTypes
<1>4. PICK n \in 1 .. Len(in_queue[w]) :
             worker' = [worker EXCEPT ![w].at = "input", ![w].todo = n]
  BY DEF HandleInputEvent
<1>5. PICK r2 : r2 = [worker[w] EXCEPT !.at = "input", !.todo = n]
  OBVIOUS
<1>6. /\ r2 \in Worker /\ r2.at = "input" /\ r2.todo = n
      /\ r2.connector = worker[w].connector /\ r2.free = worker[w].free
  <2>1. n \in Nat
    BY <1>3, <1>4
  <2> QED
    BY <2>1, <1>3, <1>5 DEF Worker
<1>7. worker' = [worker EXCEPT ![w] = r2]
  BY <1>3, <1>4, <1>5 DEF TypeOK
<1>8. r2.at # "handle" /\ r2.todo > 0 /\ r2.todo <= Len(in_queue[w])
  BY <1>3, <1>4, <1>6
<1>9. UNCHANGED <<master_vars, queue_vars, data, dropped, accepted>>
  BY DEF HandleInputEvent
<1> QED
  BY <1>2, <1>6, <1>7, <1>8, <1>9, QuietStep

(* PopInput takes an event.                                                  *)
LEMMA PopInputKeeps ==
  ASSUME IInv, NEW w \in Workers, PopInput(w)
  PROVE  IInv'
<1>1. worker[w].at = "input"
  BY DEF PopInput, At
<1>2. /\ up /\ TypeOK /\ UpOK
      /\ WorkerOK(w, in_free[w], call, in_queue[w], worker[w], dropped[w], data[w],
                  out_queue[w], accepted)
  BY <1>1, WorkersUp
<1>3. /\ in_queue[w] \in Seq(InputEvent) /\ worker[w] \in Worker /\ accepted \in Nat
  BY <1>2, WorkerTypes
<1>4. PICK q \in Seq(InputEvent) : q = in_queue[w]
  BY <1>3
<1>5. EventsOK(w, q, worker[w], data[w]) /\ SentOnce(q)
  BY <1>2, <1>4 DEF WorkerOK, Stored
<1>6. worker[w].todo \in Nat /\ worker[w].todo > 0 /\ worker[w].todo <= Len(q)
  BY <1>1, <1>3, <1>5 DEF EventsOK, Worker
<1>7. q # <<>>
  BY <1>6
<1>8. /\ Tail(q) \in Seq(InputEvent) /\ Head(q) \in InputEvent
      /\ Len(Tail(q)) = Len(q) - 1
  BY <1>5, <1>7, PoppedBuffers
<1>9. PICK m \in Nat : m = worker[w].todo - 1
  BY <1>6
<1>10. PICK r2 : r2 = [worker[w] EXCEPT !.at = "handle", !.todo = m, !.event = Head(q)]
  OBVIOUS
<1>11. /\ r2 \in Worker /\ r2.at = "handle" /\ r2.todo = m /\ r2.event = Head(q)
       /\ r2.connector = worker[w].connector /\ r2.free = worker[w].free
  BY <1>3, <1>8, <1>10 DEF Worker
<1>12. worker' = [worker EXCEPT ![w] = r2]
  BY <1>2, <1>3, <1>4, <1>9, <1>10 DEF PopInput, TypeOK
<1>13. in_queue' = [in_queue EXCEPT ![w] = Tail(q)]
  BY <1>4 DEF PopInput
<1>14. UNCHANGED <<master_vars, in_free, out_queue, data, dropped, accepted>>
  BY DEF PopInput
<1>15. TypeOK'
  BY <1>2, <1>8, <1>11, <1>12, <1>13, <1>14 DEF TypeOK, master_vars
<1>16. OnlyWorker(w)
  BY <1>2, <1>12, <1>13, <1>14 DEF OnlyWorker, TypeOK
<1>17. worker'[w] = r2 /\ in_queue'[w] = Tail(q)
  BY <1>2, <1>12, <1>13 DEF TypeOK
<1>18. /\ WorkerOK(w, in_free[w], call, Tail(q), r2, dropped[w], data[w],
                   out_queue[w], accepted)
       /\ Kept(worker[w], r2)
  BY <1>1, <1>2, <1>3, <1>4, <1>9, <1>11, WorkerPops
<1>19. /\ WorkerOK(w, in_free'[w], call, in_queue'[w], worker'[w], dropped'[w],
                   data'[w], out_queue'[w], accepted')
       /\ Kept(worker[w], worker'[w])
  BY <1>14, <1>17, <1>18
<1>20. /\ accepted <= accepted' /\ Len(in_queue'[w]) <= Len(in_queue[w])
       /\ \A x \in Taken(w, call) : data'[w][x] = data[w][x]
  BY <1>3, <1>4, <1>8, <1>14, <1>17
<1> QED
  BY <1>2, <1>15, <1>16, <1>19, <1>20, WorkerSteps

(* The record of a worker that has handled an event. *)
LEMMA RecordHandled ==
  ASSUME NEW w, worker[w] \in Worker
  PROVE  /\ Handled(w) \in Worker /\ Handled(w).todo = worker[w].todo
         /\ Handled(w).at = IF worker[w].todo = 0 THEN "test" ELSE "input"
         /\ Handled(w).connector = worker[w].connector /\ Handled(w).free = worker[w].free
         /\ Handled(w).acceptors = worker[w].acceptors /\ Handled(w).peers = worker[w].peers
BY DEF Handled, Worker

(* Lists of ids stay lists of ids.                                           *)
LEMMA WithIdType ==
  ASSUME NEW list \in Seq(Nat), NEW id \in Nat
  PROVE  WithId(list, id) \in Seq(Nat)
<1>1. PICK index \in Nat \ {0} : index = ParseNetConnectionIndex(id) + 1
  BY Fields DEF ParseNetConnectionIndex
<1>2. PICK n \in Nat : n = IF Len(list) < index THEN index ELSE Len(list)
  BY <1>1
<1>3. kNetConnectionIDInvalid \in Nat
  BY Fields DEF kNetConnectionIDInvalid
<1>4. PICK grown : grown = [i \in 1 .. n |-> IF i \in DOMAIN list THEN list[i]
                                             ELSE kNetConnectionIDInvalid]
  OBVIOUS
<1>5. grown \in [1 .. n -> Nat]
  BY <1>3, <1>4
<1>6. [grown EXCEPT ![index] = id] \in [1 .. n -> Nat]
  BY <1>5
<1>7. WithId(list, id) = IF grown[index] # kNetConnectionIDInvalid THEN grown
                         ELSE [grown EXCEPT ![index] = id]
  BY <1>1, <1>2, <1>4 DEF WithId
<1>8. \A g \in [1 .. n -> Nat] : g \in Seq(Nat)
  BY <1>2, SeqDef
<1> QED
  BY <1>5, <1>6, <1>7, <1>8

(* Accept and PeerConnect concern the worker's own lists.                    *)
LEMMA ListsKeep ==
  ASSUME IInv, NEW w \in Workers, Accept(w) \/ PeerConnect(w)
  PROVE  IInv'
<1>1. worker[w].at = "handle" /\ worker[w].event.type \in {"accept", "peer"}
  BY DEF Accept, PeerConnect, Handles, At
<1>2. /\ TypeOK
      /\ WorkerOK(w, in_free[w], call, in_queue[w], worker[w], dropped[w], data[w],
                  out_queue[w], accepted)
  BY <1>1, WorkersUp
<1>3. worker[w] \in Worker
  BY <1>2, WorkerTypes
<1>4. /\ worker[w].event \in InputEvent /\ worker[w].todo <= Len(in_queue[w])
      /\ Meant(w, worker[w], worker[w].event, data[w])
  BY <1>1, <1>2 DEF WorkerOK, EventsOK
<1>5. InHand(worker[w]) = {}
  BY <1>1, <1>4 DEF InHand, Meant
<1>6. PICK h \in Worker : h = Handled(w)
  BY <1>3, RecordHandled
<1>7. /\ h.todo = worker[w].todo /\ h.at = IF worker[w].todo = 0 THEN "test" ELSE "input"
      /\ h.connector = worker[w].connector /\ h.free = worker[w].free
      /\ h.acceptors \in Seq(Nat) /\ h.peers \in Seq(Nat)
  BY <1>3, <1>6, RecordHandled DEF Worker
<1>8. worker[w].event.id \in Nat
  BY <1>4 DEF InputEvent
<1>9. UNCHANGED <<master_vars, queue_vars, data, dropped, accepted>>
  BY DEF Accept, PeerConnect
<1>10. PICK as \in Seq(Nat) : as = WithId(h.acceptors, worker[w].event.id)
  BY <1>7, <1>8, WithIdType
<1>11. PICK ps \in Seq(Nat) : ps = WithId(h.peers, worker[w].event.id)
  BY <1>7, <1>8, WithIdType
<1>12. PICK r2 \in {[h EXCEPT !.acceptors = as], [h EXCEPT !.peers = ps], h} :
         worker' = [worker EXCEPT ![w] = r2]
  <2>1. CASE Accept(w)
    BY <2>1, <1>6, <1>10 DEF Accept, Worker
  <2>2. CASE PeerConnect(w)
    BY <2>2, <1>6, <1>11 DEF PeerConnect, Worker
  <2> QED
    BY <2>1, <2>2
<1>13. /\ r2 \in Worker /\ r2.todo = h.todo /\ r2.at = h.at
       /\ r2.connector = h.connector /\ r2.free = h.free
  BY <1>12 DEF Worker
<1>14. r2.at # "handle" /\ (r2.at = "input" => r2.todo > 0 /\ r2.todo <= Len(in_queue[w]))
  BY <1>3, <1>4, <1>7, <1>13 DEF Worker
<1>15. worker[w].at # "ended"
  BY <1>1
<1> QED
  BY <1>5, <1>7, <1>9, <1>12, <1>13, <1>14, <1>15, QuietStep

(* Worker w has record r, free buffers f, data d, output events o and has    *)
(* forgotten buffers l after a step. *)
Becomes(w, r, f, d, o, l) ==
  /\ worker' = [worker EXCEPT ![w] = r] /\ in_free' = [in_free EXCEPT ![w] = f]
  /\ data' = [data EXCEPT ![w] = d] /\ out_queue' = [out_queue EXCEPT ![w] = o]
  /\ dropped' = [dropped EXCEPT ![w] = l]
  /\ UNCHANGED <<master_vars, in_queue>>

(* Steps of the thread on its buffers and connectors.                        *)
LEMMA BusyStep ==
  ASSUME IInv, NEW w \in Workers, worker[w].at # "ended",
         NEW r \in Worker, NEW f \in Seq(Buffers), NEW d \in [Buffers -> Nat],
         NEW o \in Seq(OutputEvent), NEW l \in SUBSET Buffers, Becomes(w, r, f, d, o, l),
         accepted' \in Nat, accepted <= accepted', accepted' <= MaxConnections,
         Kept(worker[w], r), \A x \in Taken(w, call) : d[x] = data[w][x],
         WorkerOK(w, f, call, in_queue[w], r, l, d, o, accepted')
  PROVE  IInv'
<1>1. up /\ TypeOK /\ UpOK
  BY WorkersUp
<1>2. TypeOK'
  BY <1>1 DEF TypeOK, Becomes, master_vars
<1>3. worker'[w] = r /\ in_free'[w] = f /\ data'[w] = d /\ out_queue'[w] = o
      /\ dropped'[w] = l /\ in_queue'[w] = in_queue[w]
  BY <1>1 DEF TypeOK, Becomes
<1>4. OnlyWorker(w)
  BY <1>1 DEF TypeOK, Becomes, OnlyWorker
<1>5. Len(in_queue'[w]) <= Len(in_queue[w])
  <2>1. Len(in_queue[w]) \in Nat
    BY <1>1, WorkerTypes
  <2> QED
    BY <2>1, <1>3
<1>6. \A x \in Taken(w, call) : data'[w][x] = data[w][x]
  BY <1>3
<1>7. call' = call
  BY DEF Becomes, master_vars
<1>8. /\ WorkerOK(w, in_free'[w], call, in_queue'[w], worker'[w], dropped'[w],
                  data'[w], out_queue'[w], accepted')
      /\ Kept(worker[w], worker'[w])
  BY <1>3
<1> QED
  BY <1>1, <1>2, <1>4, <1>5, <1>6, <1>8, WorkerSteps

(* A function that changes at one place to what is there.                    *)
LEMMA SameThere ==
  ASSUME NEW S, NEW T, NEW f \in [S -> T], NEW w \in S
  PROVE  f = [f EXCEPT ![w] = f[w]]
OBVIOUS

(* Emptying buffers that Send does not fill leaves alone what it fills.      *)
LEMMA TakenKept ==
  ASSUME NEW w, NEW f, NEW c, NEW q, NEW r, NEW l, Stored(w, f, c, q, r, l),
         NEW d, NEW s, \A x \in Range(s) : x \in InHand(r) \/ x \in Writes(r)
  PROVE  \A x \in Taken(w, c) : Emptied(d, s)[x] = d[x]
<1>1. \A x \in Taken(w, c) : x \in Buffers /\ x \notin Range(s)
  BY DEF Stored, InOnePlace
<1> QED
  BY <1>1 DEF Emptied

(* FreeInputBuffers, for one worker.                                         *)
LEMMA FreedBuffers ==
  ASSUME TypeOK, NEW w \in Workers, NEW list, FreeInputBuffers(w, list)
  PROVE  /\ in_free' = [in_free EXCEPT ![w] = in_free[w] \o list]
         /\ data' = [data EXCEPT ![w] = Emptied(data[w], list)]
         /\ Emptied(data[w], list) \in [Buffers -> Nat]
<1>1. data[w] \in [Buffers -> Nat]
  BY DEF TypeOK
<1> QED
  BY <1>1 DEF FreeInputBuffers, Emptied

(* SendTo hands the buffer on, frees it or forgets it.                       *)
LEMMA SendToKeeps ==
  ASSUME IInv, NEW w \in Workers, SendTo(w)
  PROVE  IInv'
<1>1. worker[w].at = "handle" /\ worker[w].event.type = "send" /\ worker[w].at # "ended"
  BY DEF SendTo, Handles, At
<1>2. /\ up /\ TypeOK /\ UpOK
      /\ WorkerOK(w, in_free[w], call, in_queue[w], worker[w], dropped[w], data[w],
                  out_queue[w], accepted)
  BY <1>1, WorkersUp
<1>3. /\ in_queue[w] \in Seq(InputEvent) /\ in_free[w] \in Seq(Buffers)
      /\ out_queue[w] \in Seq(OutputEvent) /\ data[w] \in [Buffers -> Nat]
      /\ worker[w] \in Worker /\ dropped[w] \in SUBSET Buffers
      /\ accepted \in Nat /\ accepted <= MaxConnections
  BY <1>2, WorkerTypes
<1>4. PICK e : e = worker[w].event
  OBVIOUS
<1>5. PICK i : i = ParseNetConnectionIndex(e.id)
  OBVIOUS
<1>6. /\ EventsOK(w, in_queue[w], worker[w], data[w])
      /\ Stored(w, in_free[w], call, in_queue[w], worker[w], dropped[w])
  BY <1>2 DEF WorkerOK
<1>7. e.buffer \in Buffers /\ InHand(worker[w]) = {e.buffer}
      /\ (Named(w, worker[w], e.id, data[w][e.buffer]) \/ IsPeerId(e.id))
  BY <1>1, <1>3, <1>4, <1>6, SendInHand
<1>8. PICK h \in Worker : h = Handled(w)
  BY <1>3, RecordHandled
<1>9. /\ h.todo = worker[w].todo /\ h.at = IF worker[w].todo = 0 THEN "test" ELSE "input"
      /\ h.connector = worker[w].connector /\ h.free = worker[w].free
  BY <1>3, <1>8, RecordHandled
<1>10. accepted' = accepted /\ accepted' \in Nat /\ accepted <= accepted'
       /\ accepted' <= MaxConnections /\ UNCHANGED <<master_vars, in_queue, out_queue>>
  <2>1. UNCHANGED <<master_vars, in_queue, out_queue, stop_vars, accepted>>
    BY Zenon DEF SendTo
  <2> QED
    BY <2>1, <1>3
<1>11. /\ in_free = [in_free EXCEPT ![w] = in_free[w]]
       /\ out_queue = [out_queue EXCEPT ![w] = out_queue[w]]
       /\ data = [data EXCEPT ![w] = data[w]]
       /\ dropped = [dropped EXCEPT ![w] = dropped[w]]
  BY <1>2, SameThere DEF TypeOK
<1>12. CASE /\ ParseNetConnectionType(e.id) = kConnector /\ HasConnector(w, e.id)
            /\ worker' = [worker EXCEPT ![w] =
                 [Handled(w) EXCEPT !.connector[i].write = Append(@, e.buffer)]]
            /\ UNCHANGED <<in_free, data, dropped>>
  <2>1. worker[w].connector[i].id = e.id
    BY <1>5, <1>12 DEF HasConnector
  <2>2. Named(w, worker[w], e.id, data[w][e.buffer])
    BY <1>7, <1>12, PeerIdParsed
  <2>3. i \in Slots
    BY <2>2, <1>3, <1>5, NamedConnector
  <2>4. PICK cs : cs = [worker[w].connector EXCEPT ![i].write = Append(@, e.buffer)]
    OBVIOUS
  <2>5. cs \in [Slots -> Connector]
    <3>1. PICK g \in [Slots -> Connector] : g = worker[w].connector
      BY <1>3 DEF Worker
    <3>2. PICK x \in Connector : x = g[i]
      BY <2>3, <3>1
    <3>3. PICK s \in Seq(Buffers) : s = Append(x.write, e.buffer)
      BY <1>7, AppendRange DEF Connector
    <3>4. [x EXCEPT !.write = s] \in Connector
      BY DEF Connector
    <3>5. cs = [g EXCEPT ![i] = [x EXCEPT !.write = s]]
      BY <2>4, <3>1, <3>2, <3>3
    <3> QED
      BY <3>4, <3>5
  <2>6. PICK r : r = [h EXCEPT !.connector = cs]
    OBVIOUS
  <2>7. r \in Worker /\ r.connector = cs /\ r.free = h.free /\ r.todo = h.todo /\ r.at = h.at
    BY <2>5, <2>6 DEF Worker
  <2>8. worker' = [worker EXCEPT ![w] = r]
    <3>1. [Handled(w) EXCEPT !.connector[i].write = Append(@, e.buffer)]
            = [h EXCEPT !.connector = [h.connector EXCEPT ![i].write = Append(@, e.buffer)]]
      BY <1>8 DEF Worker
    <3> QED
      BY <3>1, <1>9, <1>12, <2>4, <2>6
  <2>9. Becomes(w, r, in_free[w], data[w], out_queue[w], dropped[w])
    BY <2>8, <1>10, <1>11, <1>12 DEF Becomes
  <2>10. /\ WorkerOK(w, in_free[w], call, in_queue[w], r, dropped[w], data[w],
                     out_queue[w], accepted)
         /\ Kept(worker[w], r)
    <3>1. r.connector = [worker[w].connector EXCEPT ![i].write = Append(@, worker[w].event.buffer)]
      BY <1>4, <2>4, <2>7
    <3>2. r.at = IF worker[w].todo = 0 THEN "test" ELSE "input"
      BY <2>7, <1>9
    <3>3. r.free = worker[w].free /\ r.todo = worker[w].todo
      BY <2>7, <1>9
    <3> QED
      BY <3>1, <3>2, <3>3, <2>1, <2>7, <1>1, <1>2, <1>3, <1>4, <1>5, <1>12, WorkerWrites, ZenonT(60)
  <2> QED
    BY <2>7, <2>9, <2>10, <1>1, <1>3, <1>10, BusyStep
<1>13. CASE /\ worker' = [worker EXCEPT ![w] = Handled(w)]
            /\ FreeInputBuffers(w, <<e.buffer>>)
            /\ UNCHANGED dropped
  <2>1. PICK s : IsOnly(s, e.buffer)
    BY DEF IsOnly
  <2>2. s \in Seq(Buffers) /\ (\A x : x \in Range(s) <=> x = e.buffer)
    BY <2>1, <1>7, OnlyOne
  <2>3. FreeInputBuffers(w, s)
    BY <2>1, <1>13 DEF IsOnly
  <2>4. PICK d \in [Buffers -> Nat] : d = Emptied(data[w], s)
    BY <2>3, <1>2, FreedBuffers
  <2>5. PICK f : f = in_free[w] \o s
    OBVIOUS
  <2>6. f \in Seq(Buffers)
    BY <2>2, <2>5, <1>3, ConcatRange
  <2>7. in_free' = [in_free EXCEPT ![w] = f] /\ data' = [data EXCEPT ![w] = d]
    BY <2>3, <2>4, <2>5, <1>2, FreedBuffers
  <2>8. Becomes(w, h, f, d, out_queue[w], dropped[w])
    BY <2>7, <1>8, <1>10, <1>11, <1>13 DEF Becomes
  <2>9. IsOnly(s, worker[w].event.buffer)
    BY <2>1, <1>4
  <2>10. /\ WorkerOK(w, f, call, in_queue[w], h, dropped[w], d, out_queue[w], accepted)
         /\ Kept(worker[w], h)
    BY <2>4, <2>5, <2>9, <1>1, <1>2, <1>3, <1>9, WorkerFrees
  <2>11. \A x \in Range(s) : x \in InHand(worker[w]) \/ x \in Writes(worker[w])
    BY <2>2, <1>7
  <2>12. \A x \in Taken(w, call) : d[x] = data[w][x]
    BY <2>4, <2>11, <1>6, TakenKept
  <2> QED
    BY <2>6, <2>8, <2>10, <2>12, <1>1, <1>3, <1>10, BusyStep
<1>14. CASE /\ worker' = [worker EXCEPT ![w] = Handled(w)]
            /\ dropped' = [dropped EXCEPT ![w] = @ \cup {e.buffer}]
            /\ UNCHANGED <<in_free, data>>
  <2>1. PICK l \in SUBSET Buffers : l = dropped[w] \cup {e.buffer}
    BY <1>3, <1>7
  <2>2. Becomes(w, h, in_free[w], data[w], out_queue[w], l)
    BY <2>1, <1>8, <1>10, <1>11, <1>14 DEF Becomes
  <2>3. /\ WorkerOK(w, in_free[w], call, in_queue[w], h, l, data[w], out_queue[w], accepted)
        /\ Kept(worker[w], h)
    BY <2>1, <1>1, <1>2, <1>3, <1>4, <1>9, WorkerForgets
  <2> QED
    BY <2>2, <2>3, <1>1, <1>3, <1>10, BusyStep
<1> QED
  BY <1>4, <1>5, <1>12, <1>13, <1>14 DEF SendTo

(* A record that follows one that follows another. *)
LEMMA KeptAgain ==
  ASSUME NEW r \in Worker, NEW r2 \in Worker, NEW r3 \in Worker, Kept(r, r2), Kept(r2, r3)
  PROVE  Kept(r, r3)
<1>1. ASSUME NEW i \in Slots
      PROVE  r.connector[i].id \in Nat /\ r2.connector[i].id \in Nat /\ r3.connector[i].id \in Nat
  BY DEF Worker, Connector
<1>2. ASSUME NEW i \in Slots
      PROVE  /\ r.connector[i].id <= r2.connector[i].id
             /\ r2.connector[i].id <= r3.connector[i].id
  BY DEF Kept
<1>3. ASSUME NEW i \in Slots
      PROVE  r.connector[i].id <= r3.connector[i].id
  BY <1>1, <1>2
<1>4. ASSUME NEW i \in Slots, r3.connector[i].id = r.connector[i].id, InUse(r.connector[i])
      PROVE  InUse(r3.connector[i]) /\ r3.connector[i].number = r.connector[i].number
  <2>1. r2.connector[i].id = r.connector[i].id
    BY <1>1, <1>2, <1>4
  <2> QED
    BY <2>1, <1>4 DEF Kept
<1> QED
  BY <1>3, <1>4 DEF Kept

(* AddOutputEvent: the output events are what they were, or one more.        *)
LEMMA OutputAdded ==
  ASSUME TypeOK, NEW w \in Workers, NEW type \in {"connected", "disconnected"},
         NEW x \in Connector, AddOutputEvent(w, type, x),
         NEW r, Told(w, out_queue[w], r), type = "connected" => Named(w, r, x.id, x.number)
  PROVE  \E o \in Seq(OutputEvent) :
           out_queue' = [out_queue EXCEPT ![w] = o] /\ Told(w, o, r)
<1>1. out_queue \in [Workers -> Seq(OutputEvent)]
  BY DEF TypeOK
<1>2. PICK o \in Seq(OutputEvent) : o = out_queue[w]
  BY <1>1
<1>3. CASE Len(out_queue[w]) < OutputEvents
  <2>1. PICK e : e = [type |-> type, id |-> x.id, number |-> x.number, handler |-> x.handler]
    OBVIOUS
  <2>2. e \in OutputEvent /\ e.type = type /\ e.id = x.id /\ e.number = x.number
    BY <2>1 DEF OutputEvent, Connector
  <2>3. PICK o2 \in Seq(OutputEvent) : o2 = Append(o, e)
    BY <2>2, AppendRange
  <2>4. Told(w, o2, r)
    <3>1. Told(w, o, r) /\ (e.type = "connected" => Named(w, r, e.id, e.number))
      BY <2>2, <1>2
    <3>2. Told(w, Append(o, e), r)
      BY <3>1, <2>2, ToldMore
    <3> QED
      BY <3>2, <2>3
  <2>5. out_queue' = [out_queue EXCEPT ![w] = o2]
    BY <2>1, <2>3, <1>2, <1>3 DEF AddOutputEvent, Put
  <2> QED
    BY <2>4, <2>5
<1>4. CASE ~ (Len(out_queue[w]) < OutputEvents)
  <2>1. out_queue' = out_queue
    BY <1>4 DEF AddOutputEvent
  <2>2. out_queue = [out_queue EXCEPT ![w] = out_queue[w]]
    BY <1>1, SameThere
  <2>3. out_queue' = [out_queue EXCEPT ![w] = o]
    BY <2>1, <2>2, <1>2
  <2>4. Told(w, o, r)
    BY <1>2
  <2> QED
    BY <2>3, <2>4
<1> QED
  BY <1>3, <1>4

(* CloseConnector, in a record h without an event in hand.                   *)
LEMMA CloseKeeps ==
  ASSUME IInv, NEW w \in Workers, worker[w].at # "ended",
         NEW h \in Worker, Kept(worker[w], h), h.at # "handle",
         WorkerOK(w, in_free[w], call, in_queue[w], h, dropped[w], data[w], out_queue[w],
                  accepted),
         NEW i \in Slots, InUse(h.connector[i]), CloseConnector(w, h, i),
         UNCHANGED <<master_vars, in_queue, dropped, accepted>>
  PROVE  IInv'
<1>1. TypeOK
  BY WorkersUp
<1>2. /\ in_queue[w] \in Seq(InputEvent) /\ in_free[w] \in Seq(Buffers)
      /\ out_queue[w] \in Seq(OutputEvent) /\ data[w] \in [Buffers -> Nat]
      /\ worker[w] \in Worker /\ dropped[w] \in SUBSET Buffers
      /\ accepted \in Nat /\ accepted <= MaxConnections
  BY <1>1, WorkerTypes
<1>3. PICK r2 : r2 = FreeNetConnector(Cleared(h, i), i)
  OBVIOUS
<1>4. PICK x \in Connector : x = h.connector[i]
  BY DEF Worker
<1>5. PICK s \in Seq(Buffers) : s = h.connector[i].write
  BY <1>4 DEF Connector
<1>6. /\ r2 \in Worker /\ Kept(h, r2)
      /\ WorkerOK(w, in_free[w] \o s, call, in_queue[w], r2, dropped[w],
                  Emptied(data[w], s), out_queue[w], accepted)
  BY <1>2, <1>3, <1>5, WorkerCloses
<1>7. FreeInputBuffers(w, s) /\ AddOutputEvent(w, "disconnected", x)
      /\ worker' = [worker EXCEPT ![w] = r2]
  BY <1>3, <1>4, <1>5 DEF CloseConnector
<1>8. PICK d \in [Buffers -> Nat] : d = Emptied(data[w], s)
  BY <1>1, <1>7, FreedBuffers
<1>9. PICK f : f = in_free[w] \o s
  OBVIOUS
<1>10. f \in Seq(Buffers)
  BY <1>2, <1>9, ConcatRange
<1>11. in_free' = [in_free EXCEPT ![w] = f] /\ data' = [data EXCEPT ![w] = d]
  BY <1>1, <1>7, <1>8, <1>9, FreedBuffers
<1>12. Told(w, out_queue[w], r2)
  BY <1>6 DEF WorkerOK
<1>13. PICK o \in Seq(OutputEvent) :
         out_queue' = [out_queue EXCEPT ![w] = o] /\ Told(w, o, r2)
  BY <1>1, <1>4, <1>7, <1>12, OutputAdded
<1>14. WorkerOK(w, f, call, in_queue[w], r2, dropped[w], d, o, accepted')
  BY <1>6, <1>8, <1>9, <1>13 DEF WorkerOK
<1>15. Kept(worker[w], r2)
  BY <1>2, <1>6, KeptAgain
<1>16. \A y \in Taken(w, call) : d[y] = data[w][y]
  <2>1. Stored(w, in_free[w], call, in_queue[w], h, dropped[w])
    BY DEF WorkerOK
  <2>2. \A y \in Range(s) : y \in InHand(h) \/ y \in Writes(h)
    BY <1>5 DEF Writes
  <2> QED
    BY <2>1, <2>2, <1>8, TakenKept
<1>17. Becomes(w, r2, f, d, o, dropped[w])
  <2>1. dropped = [dropped EXCEPT ![w] = dropped[w]]
    BY <1>1, SameThere DEF TypeOK
  <2> QED
    BY <2>1, <1>7, <1>11, <1>13 DEF Becomes
<1>18. accepted' \in Nat /\ accepted <= accepted' /\ accepted' <= MaxConnections
  BY <1>2
<1> QED
  BY <1>2, <1>6, <1>10, <1>14, <1>15, <1>16, <1>17, <1>18, BusyStep

(* An input event asks to close a connector: while it is still that          *)
(* connection's it is in use.                                                *)
LEMMA DisconnectKeeps ==
  ASSUME IInv, NEW w \in Workers, WorkerDisconnect(w)
  PROVE  IInv'
<1>1. worker[w].at = "handle" /\ worker[w].event.type = "disconnect"
      /\ worker[w].at # "ended"
  BY DEF WorkerDisconnect, Handles, At
<1>2. /\ TypeOK
      /\ WorkerOK(w, in_free[w], call, in_queue[w], worker[w], dropped[w], data[w],
                  out_queue[w], accepted)
  BY <1>1, WorkersUp
<1>3. worker[w] \in Worker /\ in_queue[w] \in Seq(InputEvent) /\ accepted \in Nat
  BY <1>2, WorkerTypes
<1>4. /\ worker[w].event \in InputEvent /\ worker[w].todo <= Len(in_queue[w])
      /\ Meant(w, worker[w], worker[w].event, data[w])
  BY <1>1, <1>2 DEF WorkerOK, EventsOK
<1>5. InHand(worker[w]) = {}
  BY <1>1, <1>4 DEF InHand, Meant
<1>6. PICK h \in Worker : h = Handled(w)
  BY <1>3, RecordHandled
<1>7. /\ h.todo = worker[w].todo /\ h.at = IF worker[w].todo = 0 THEN "test" ELSE "input"
      /\ h.connector = worker[w].connector /\ h.free = worker[w].free
  BY <1>3, <1>6, RecordHandled
<1>8. h.at # "handle" /\ (h.at = "input" => h.todo > 0 /\ h.todo <= Len(in_queue[w]))
  BY <1>3, <1>4, <1>7 DEF Worker
<1>9. UNCHANGED <<master_vars, in_queue, dropped, accepted>>
  BY DEF WorkerDisconnect
<1>10. CASE HasConnector(w, worker[w].event.id)
  <2>1. PICK i : i = ParseNetConnectionIndex(worker[w].event.id)
    OBVIOUS
  <2>2. CloseConnector(w, h, i)
    BY <2>1, <1>6, <1>10 DEF WorkerDisconnect
  <2>3. PICK number \in Numbers : Named(w, worker[w], worker[w].event.id, number)
    BY <1>1, <1>4 DEF Meant
  <2>4. i \in Slots /\ InUse(h.connector[i])
    BY <2>1, <2>3, <1>3, <1>7, <1>10, NamedConnector DEF HasConnector
  <2>5. /\ WorkerOK(w, in_free[w], call, in_queue[w], h, dropped[w], data[w],
                    out_queue[w], accepted)
        /\ Kept(worker[w], h)
    BY <1>2, <1>3, <1>5, <1>7, <1>8, WorkerGoes
  <2> QED
    BY <2>2, <2>4, <2>5, <1>1, <1>8, <1>9, CloseKeeps
<1>11. CASE ~ HasConnector(w, worker[w].event.id)
  <2>1. worker' = [worker EXCEPT ![w] = h]
    BY <1>6, <1>11 DEF WorkerDisconnect
  <2>2. UNCHANGED <<master_vars, queue_vars, data, dropped, accepted>>
    BY <1>9, <1>11 DEF WorkerDisconnect, queue_vars
  <2> QED
    BY <2>1, <2>2, <1>1, <1>5, <1>7, <1>8, QuietStep
<1> QED
  BY <1>10, <1>11

(* The callback of a connector closes it.                                    *)
LEMMA ConnectorClosesKeeps ==
  ASSUME IInv, NEW w \in Workers, NEW i \in Slots, ConnectorCloses(w, i)
  PROVE  IInv'
<1>1. worker[w].at = "events" /\ worker[w].at # "ended" /\ worker[w].at # "handle"
  BY DEF ConnectorCloses, At
<1>2. /\ TypeOK
      /\ WorkerOK(w, in_free[w], call, in_queue[w], worker[w], dropped[w], data[w],
                  out_queue[w], accepted)
  BY <1>1, WorkersUp
<1>3. worker[w] \in Worker
  BY <1>2, WorkerTypes
<1>4. Kept(worker[w], worker[w])
  BY <1>3, KeptItself
<1>5. InUse(worker[w].connector[i]) /\ CloseConnector(w, worker[w], i)
      /\ UNCHANGED <<master_vars, in_queue, dropped, accepted>>
  BY DEF ConnectorCloses, InUse
<1> QED
  BY <1>1, <1>2, <1>3, <1>4, <1>5, CloseKeeps

(* The callback of a connector writes a buffer, which is free again.         *)
LEMMA ConnectorWritesKeeps ==
  ASSUME IInv, NEW w \in Workers, NEW i \in Slots, ConnectorWrites(w, i)
  PROVE  IInv'
<1>1. /\ worker[w].at = "events" /\ worker[w].at # "ended" /\ worker[w].at # "handle"
      /\ worker[w].connector[i].write # <<>>
  BY DEF ConnectorWrites, At
<1>2. /\ TypeOK
      /\ WorkerOK(w, in_free[w], call, in_queue[w], worker[w], dropped[w], data[w],
                  out_queue[w], accepted)
  BY <1>1, WorkersUp
<1>3. /\ in_queue[w] \in Seq(InputEvent) /\ in_free[w] \in Seq(Buffers)
      /\ out_queue[w] \in Seq(OutputEvent) /\ data[w] \in [Buffers -> Nat]
      /\ worker[w] \in Worker /\ dropped[w] \in SUBSET Buffers
      /\ accepted \in Nat /\ accepted <= MaxConnections
  BY <1>2, WorkerTypes
<1>4. PICK list \in Seq(Buffers) : list = worker[w].connector[i].write
  BY <1>3 DEF Worker, Connector
<1>5. PICK b \in Buffers : b = Head(list)
  BY <1>1, <1>4
<1>6. b \in Writes(worker[w])
  <2>1. b = list[1] /\ 1 \in DOMAIN list
    BY <1>1, <1>4, <1>5
  <2> QED
    BY <2>1, <1>4 DEF Writes, Range
<1>7. PICK s : s = <<Head(worker[w].connector[i].write)>>
  OBVIOUS
<1>8. FreeInputBuffers(w, s)
  BY <1>7 DEF ConnectorWrites
<1>9. IsOnly(s, b) /\ IsOnly(s, Head(worker[w].connector[i].write))
  BY <1>4, <1>5, <1>7 DEF IsOnly
<1>10. s \in Seq(Buffers) /\ \A x \in Range(s) : x \in InHand(worker[w]) \/ x \in Writes(worker[w])
  BY <1>6, <1>9, OnlyOne
<1>11. PICK r2 : r2 = WithWritten(worker[w], i)
  OBVIOUS
<1>12. /\ r2 \in Worker /\ Kept(worker[w], r2)
       /\ WorkerOK(w, in_free[w] \o s, call, in_queue[w], r2, dropped[w],
                   Emptied(data[w], s), out_queue[w], accepted)
  BY <1>1, <1>2, <1>3, <1>9, <1>11, WorkerWrote
<1>13. PICK d \in [Buffers -> Nat] : d = Emptied(data[w], s)
  BY <1>2, <1>8, FreedBuffers
<1>14. PICK f : f = in_free[w] \o s
  OBVIOUS
<1>15. f \in Seq(Buffers)
  BY <1>3, <1>10, <1>14, ConcatRange
<1>16. in_free' = [in_free EXCEPT ![w] = f] /\ data' = [data EXCEPT ![w] = d]
  BY <1>2, <1>8, <1>13, <1>14, FreedBuffers
<1>17. worker' = [worker EXCEPT ![w] = r2]
  BY <1>11 DEF ConnectorWrites, WithWritten
<1>18. UNCHANGED <<master_vars, in_queue, out_queue, dropped, accepted>>
  BY DEF ConnectorWrites
<1>19. Becomes(w, r2, f, d, out_queue[w], dropped[w])
  <2>1. dropped = [dropped EXCEPT ![w] = dropped[w]]
        /\ out_queue = [out_queue EXCEPT ![w] = out_queue[w]]
    BY <1>2, SameThere DEF TypeOK
  <2> QED
    BY <2>1, <1>16, <1>17, <1>18 DEF Becomes
<1>20. \A x \in Taken(w, call) : d[x] = data[w][x]
  <2>1. Stored(w, in_free[w], call, in_queue[w], worker[w], dropped[w])
    BY <1>2 DEF WorkerOK
  <2> QED
    BY <2>1, <1>10, <1>13, TakenKept
<1>21. WorkerOK(w, f, call, in_queue[w], r2, dropped[w], d, out_queue[w], accepted')
  BY <1>12, <1>13, <1>14, <1>18
<1>22. accepted' \in Nat /\ accepted <= accepted' /\ accepted' <= MaxConnections
  BY <1>3, <1>18
<1> QED
  BY <1>1, <1>3, <1>12, <1>15, <1>19, <1>20, <1>21, <1>22, BusyStep

(* A connection is accepted, and its number counted.                         *)
LEMMA AcceptConnectionKeeps ==
  ASSUME IInv, NEW w \in Workers, AcceptConnection(w)
  PROVE  IInv'
<1>1. /\ worker[w].at = "events" /\ worker[w].at # "ended" /\ worker[w].at # "handle"
      /\ worker[w].free # <<>> /\ accepted < MaxConnections
  BY DEF AcceptConnection, At
<1>2. /\ TypeOK
      /\ WorkerOK(w, in_free[w], call, in_queue[w], worker[w], dropped[w], data[w],
                  out_queue[w], accepted)
  BY <1>1, WorkersUp
<1>3. /\ in_queue[w] \in Seq(InputEvent) /\ in_free[w] \in Seq(Buffers)
      /\ out_queue[w] \in Seq(OutputEvent) /\ data[w] \in [Buffers -> Nat]
      /\ worker[w] \in Worker /\ dropped[w] \in SUBSET Buffers
      /\ accepted \in Nat /\ accepted <= MaxConnections
  BY <1>2, WorkerTypes
<1>4. PICK handler \in Range(worker[w].acceptors) \ {kNetConnectionIDInvalid} :
        LET i == Head(worker[w].free)
            c == [worker[w].connector[i] EXCEPT !.number = accepted + 1,
                                                !.handler = handler]
        IN /\ worker' = [worker EXCEPT ![w].free = Tail(@), ![w].connector[i] = c]
           /\ AddOutputEvent(w, "connected", c)
  BY DEF AcceptConnection
<1>5. handler \in Nat \ {kNetConnectionIDInvalid}
  <2>1. worker[w].acceptors \in Seq(Nat)
    BY <1>3 DEF Worker
  <2> QED
    BY <2>1, <1>4 DEF Range
<1>6. PICK x : x = Accepted(worker[w], accepted, handler)
  OBVIOUS
<1>7. PICK r2 : r2 = WithAccepted(worker[w], x)
  OBVIOUS
<1>8. worker' = [worker EXCEPT ![w] = r2] /\ AddOutputEvent(w, "connected", x)
  <2>1. worker' = [worker EXCEPT ![w].free = Tail(@),
                                 ![w].connector[Head(worker[w].free)] = x]
        /\ AddOutputEvent(w, "connected", x)
    BY <1>4, <1>6 DEF Accepted
  <2>2. [worker EXCEPT ![w].free = Tail(@), ![w].connector[Head(worker[w].free)] = x]
          = [worker EXCEPT ![w] = [worker[w] EXCEPT !.free = Tail(@),
                                                    !.connector[Head(worker[w].free)] = x]]
    BY <1>2 DEF TypeOK, Worker
  <2> QED
    BY <2>1, <2>2, <1>7 DEF WithAccepted
<1>9. /\ r2 \in Worker /\ Kept(worker[w], r2)
      /\ x \in Connector /\ Named(w, r2, x.id, x.number)
      /\ WorkerOK(w, in_free[w], call, in_queue[w], r2, dropped[w], data[w], out_queue[w],
                  accepted + 1)
  BY <1>1, <1>2, <1>3, <1>5, <1>6, <1>7, WorkerAccepts
<1>10. Told(w, out_queue[w], r2)
  BY <1>9 DEF WorkerOK
<1>11. PICK o \in Seq(OutputEvent) :
         out_queue' = [out_queue EXCEPT ![w] = o] /\ Told(w, o, r2)
  BY <1>2, <1>8, <1>9, <1>10, OutputAdded
<1>12. accepted' = accepted + 1 /\ UNCHANGED <<master_vars, in_queue, in_free, data, dropped>>
  BY DEF AcceptConnection
<1>13. Becomes(w, r2, in_free[w], data[w], o, dropped[w])
  <2>1. /\ dropped = [dropped EXCEPT ![w] = dropped[w]]
        /\ in_free = [in_free EXCEPT ![w] = in_free[w]]
        /\ data = [data EXCEPT ![w] = data[w]]
    BY <1>2, SameThere DEF TypeOK
  <2> QED
    BY <2>1, <1>8, <1>11, <1>12 DEF Becomes
<1>14. WorkerOK(w, in_free[w], call, in_queue[w], r2, dropped[w], data[w], o, accepted')
  BY <1>9, <1>11, <1>12 DEF WorkerOK
<1>15. accepted' \in Nat /\ accepted <= accepted' /\ accepted' <= MaxConnections
  <2>1. MaxConnections \in Nat
    BY NetAssumption, Fields
  <2> QED
    BY <2>1, <1>1, <1>3, <1>12
<1> QED
  BY <1>1, <1>3, <1>9, <1>13, <1>14, <1>15, BusyStep

(* What the thread of a worker does.                                         *)
LEMMA WorkerKeeps ==
  ASSUME IInv, NEW w \in Workers, WorkerGoesOn(w) \/ WorkerMay(w)
  PROVE  IInv'
<1>1. CASE WorkerGoesOn(w)
  BY <1>1, LoopKeeps, PopInputKeeps, SendToKeeps, ListsKeep, DisconnectKeeps
     DEF WorkerGoesOn
<1>2. CASE WorkerMay(w)
  BY <1>2, LoopKeeps, HandleInputKeeps, AcceptConnectionKeeps, ConnectorWritesKeeps,
     ConnectorClosesKeeps DEF WorkerMay
<1> QED
  BY <1>1, <1>2
-----------------------------------------------------------------------------
(* Steps of the master's thread. *)

(* The call when there is none.                                              *)
LEMMA NoCallType ==
  NoCall \in Call /\ NoCall.op = "none" /\ 0 \in Workers /\ 0 \in Numbers
<1>1. 0 \in Workers /\ 0 \in Numbers
  BY NetAssumption, Fields DEF Workers, Numbers
<1> QED
  BY <1>1 DEF NoCall, Call

(* A peer connector belongs to one of the workers.                           *)
LEMMA PeerWorkerType ==
  ASSUME NEW index \in Nat
  PROVE  PeerWorker(index) \in Workers
BY NetAssumption DEF PeerWorker, Workers

(* A connection that the client knows is one of the worker that Send turns   *)
(* to, or has been.                                                          *)
LEMMA TargetNamed ==
  ASSUME TypeOK, KnownOK, PeersOK, NEW c \in Targets
  PROVE  /\ c.id \in Nat /\ c.number \in Numbers /\ WorkerOf(c.id) \in Workers
         /\ \/ Named(WorkerOf(c.id), worker[WorkerOf(c.id)], c.id, c.number)
            \/ IsPeerId(c.id)
<1>1. CASE c \in known
  <2>1. PICK v \in Workers : Named(v, worker[v], c.id, c.number)
    BY <1>1 DEF KnownOK
  <2>2. worker[v] \in Worker
    BY WorkerTypes
  <2>3. ParseNetConnectionType(c.id) = kConnector /\ ParseNetWorkerIndex(c.id) = v
    BY <2>1, <2>2, NamedConnector
  <2>4. WorkerOf(c.id) = v
    BY <2>3 DEF WorkerOf
  <2>5. c.id \in Nat /\ c.number \in Numbers
    BY <1>1 DEF TypeOK
  <2> QED
    BY <2>1, <2>4, <2>5
<1>2. CASE c \in {[id |-> id, number |-> 0] : id \in Range(peers)}
  <2>1. PICK id \in Range(peers) : c = [id |-> id, number |-> 0]
    BY <1>2
  <2>2. PICK list \in Seq(Nat) : list = peers
    BY DEF TypeOK
  <2>3. PICK k \in DOMAIN list : id = list[k]
    BY <2>1, <2>2 DEF Range
  <2>4. id = PeerId(k - 1) /\ Len(list) <= MaxPeers
    BY <2>2, <2>3 DEF PeersOK
  <2>5. PICK p \in 0 .. MaxPeers - 1 : p = k - 1
    BY <2>2, <2>3, <2>4, NetAssumption, Fields
  <2>6. /\ PeerId(p) \in Nat
        /\ ParseNetConnectionType(PeerId(p)) = kPeerConnector
        /\ ParseNetConnectionIndex(PeerId(p)) = p
    BY ParsedPeerId
  <2>7. c.id = PeerId(p) /\ c.number = 0
    BY <2>1, <2>4, <2>5
  <2>8. WorkerOf(c.id) = PeerWorker(p)
    BY <2>6, <2>7 DEF WorkerOf, kConnector, kPeerConnector
  <2>9. WorkerOf(c.id) \in Workers
    BY <2>5, <2>8, PeerWorkerType
  <2>10. IsPeerId(c.id)
    BY <2>7 DEF IsPeerId
  <2> QED
    BY <2>6, <2>7, <2>9, <2>10, NoCallType
<1> QED
  BY <1>1, <1>2 DEF Targets

(* The master changes the queues and the buffers of worker w, if of any.     *)
OnlyQueues(w) ==
  /\ up' = up
  /\ \A v \in Workers \ {w} :
       /\ in_queue'[v] = in_queue[v] /\ in_free'[v] = in_free[v]
       /\ out_queue'[v] = out_queue[v] /\ data'[v] = data[v]
       /\ Taken(v, call') = Taken(v, call)
  /\ UNCHANGED <<worker, dropped, accepted>>

(* A step of the master keeps what is true of the workers it leaves alone.   *)
LEMMA MasterStep ==
  ASSUME IInv, up, TypeOK', CallOK', KnownOK', PeersOK',
         NEW w \in Workers, OnlyQueues(w),
         WorkerOK(w, in_free'[w], call', in_queue'[w], worker[w], dropped[w], data'[w],
                  out_queue'[w], accepted)
  PROVE  IInv'
<1>1. TypeOK /\ UpOK /\ accepted \in Nat
  BY DEF IInv, TypeOK
<1>2. ASSUME NEW v \in Workers
      PROVE  WorkerOK(v, in_free'[v], call', in_queue'[v], worker'[v], dropped'[v],
                      data'[v], out_queue'[v], accepted')
  <2>1. CASE v = w
    BY <2>1 DEF OnlyQueues
  <2>2. CASE v # w
    <3>1. WorkerOK(v, in_free[v], call, in_queue[v], worker[v], dropped[v], data[v],
                   out_queue[v], accepted)
      BY <1>1 DEF UpOK
    <3>2. worker[v] \in Worker
      BY <1>1, WorkerTypes
    <3>3. Taken(v, call') = Taken(v, call)
      BY <2>2 DEF OnlyQueues
    <3>4. accepted <= accepted
      BY <1>1
    <3>5. WorkerOK(v, in_free[v], call', in_queue[v], worker[v], dropped[v], data[v],
                   out_queue[v], accepted)
      BY <1>1, <3>1, <3>2, <3>3, <3>4, WorkerSame
    <3> QED
      BY <2>2, <3>5 DEF OnlyQueues
  <2> QED
    BY <2>1, <2>2
<1>3. UpOK' /\ up'
  BY <1>2 DEF UpOK, OnlyQueues
<1> QED
  BY <1>3 DEF IInv

(* Only the call changes; a buffer that Send had it keeps. *)
OnlyCall ==
  /\ up' = up /\ known' = known
  /\ UNCHANGED <<queue_vars, data, worker, dropped, accepted>>
  /\ \A w \in Workers : Taken(w, call') = Taken(w, call)

(* Steps of the master that move no buffer and no event.                     *)
LEMMA CallStep ==
  ASSUME IInv, up, OnlyCall, acceptors' \in Seq(Nat), peers' = peers, call' \in Call, CallOK'
  PROVE  IInv'
<1>1. TypeOK /\ UpOK /\ accepted \in Nat
  BY DEF IInv, TypeOK
<1>2. TypeOK'
  BY <1>1 DEF TypeOK, OnlyCall, queue_vars
<1>3. KnownOK' /\ PeersOK'
  BY <1>1 DEF UpOK, KnownOK, PeersOK, OnlyCall
<1>4. PICK w : w \in Workers
  BY NoCallType
<1>5. OnlyQueues(w)
  BY <1>4 DEF OnlyQueues, OnlyCall, queue_vars
<1>6. WorkerOK(w, in_free'[w], call', in_queue'[w], worker[w], dropped[w], data'[w],
               out_queue'[w], accepted)
  <2>1. WorkerOK(w, in_free[w], call, in_queue[w], worker[w], dropped[w], data[w],
                 out_queue[w], accepted)
    BY <1>1, <1>4 DEF UpOK
  <2>2. worker[w] \in Worker
    BY <1>1, <1>4, WorkerTypes
  <2>3. Taken(w, call') = Taken(w, call)
    BY <1>4 DEF OnlyCall
  <2>4. accepted <= accepted
    BY <1>1
  <2>5. WorkerOK(w, in_free[w], call', in_queue[w], worker[w], dropped[w], data[w],
                 out_queue[w], accepted)
    BY <1>1, <1>4, <2>1, <2>2, <2>3, <2>4, WorkerSame
  <2> QED
    BY <2>5 DEF OnlyCall, queue_vars
<1> QED
  BY <1>2, <1>3, <1>4, <1>5, <1>6, MasterStep

(* A call that neither has a buffer nor is to push one.                      *)
LEMMA IdleCall ==
  ASSUME NEW c, c.op \notin {"send", "push"}
  PROVE  \A w \in Workers : Taken(w, c) = {}
BY DEF Taken

(* AddAcceptor and Uninit begin, and Uninit goes on.                         *)
LEMMA QuietCallsKeep ==
  ASSUME IInv, AddAcceptor \/ Uninit \/ UninitStops \/ UninitWakes \/ UninitJoins
  PROVE  IInv'
<1>1. call.op \notin {"send", "push"} /\ up
  <2>1. call.op \in {"none", "stop", "wake", "join"} /\ (call.op = "none" => up)
    BY DEF AddAcceptor, Uninit, UninitStops, UninitWakes, UninitJoins, ClientRuns
  <2> QED
    BY <2>1 DEF IInv, DownOK
<1>2. TypeOK /\ UpOK
  BY <1>1 DEF IInv
<1>3. call \in Call /\ acceptors \in Seq(Nat) /\ NoCall \in Call
  BY <1>2, NoCallType DEF TypeOK
<1>4. call' \in Call /\ call'.op \notin {"send", "push"} /\ acceptors' \in Seq(Nat)
  <2>1. CASE AddAcceptor
    <3>1. PICK n \in Nat : n = Len(acceptors)
      BY <1>3
    <3>2. PICK id \in Nat : id = InitNetConnectionID(kAcceptor, 0, n)
      BY <3>1, Fields DEF InitNetConnectionID, kAcceptor
    <3>3. acceptors' = Append(acceptors, id) /\ call' = [NoCall EXCEPT !.op = "accept", !.id = id]
      BY <2>1, <3>1, <3>2 DEF AddAcceptor
    <3>4. call' \in Call /\ call'.op = "accept"
      BY <1>3, <3>2, <3>3 DEF Call
    <3>5. Append(acceptors, id) \in Seq(Nat)
      BY <1>3, <3>2, AppendRange
    <3> QED
      BY <3>3, <3>4, <3>5
  <2>2. CASE Uninit
    BY <2>2, <1>3 DEF Uninit, Call
  <2>3. CASE UninitStops \/ UninitWakes \/ UninitJoins
    BY <2>3, <1>3 DEF UninitStops, UninitWakes, UninitJoins, Call
  <2> QED
    BY <2>1, <2>2, <2>3
<1>5. OnlyCall /\ peers' = peers
  <2>1. \A w \in Workers : Taken(w, call') = Taken(w, call)
    BY <1>1, <1>4, IdleCall
  <2> QED
    BY <2>1 DEF OnlyCall, AddAcceptor, Uninit, UninitStops, UninitWakes, UninitJoins
<1>6. CallOK'
  BY <1>4 DEF CallOK
<1> QED
  BY <1>1, <1>4, <1>5, <1>6, CallStep

(* Send begins where it has seen room for its event.                         *)
LEMMA SendKeeps ==
  ASSUME IInv, NEW c \in Targets, Send(c)
  PROVE  IInv'
<1>1. up /\ call.op = "none"
  BY DEF Send, ClientRuns
<1>2. TypeOK /\ KnownOK /\ PeersOK
  BY <1>1 DEF IInv, UpOK
<1>3. PICK w : w = WorkerOf(c.id)
  OBVIOUS
<1>4. /\ c.id \in Nat /\ c.number \in Numbers /\ w \in Workers
      /\ Named(w, worker[w], c.id, c.number) \/ IsPeerId(c.id)
  BY <1>2, <1>3, TargetNamed
<1>5. call' = [NoCall EXCEPT !.op = "send", !.w = w, !.id = c.id, !.number = c.number]
  BY <1>3 DEF Send
<1>6. /\ call' \in Call /\ call'.op = "send" /\ call'.w = w /\ call'.id = c.id
      /\ call'.number = c.number
  BY <1>4, <1>5, NoCallType DEF Call
<1>7. UNCHANGED <<up, acceptors, peers, known, queue_vars, data, worker, dropped, accepted>>
  BY DEF Send
<1>8. CallOK'
  <2>1. Len(in_queue[w]) < InputEvents
    BY <1>3 DEF Send, HasRoom
  <2> QED
    BY <2>1, <1>4, <1>6, <1>7 DEF CallOK, queue_vars, Named
<1>9. OnlyCall
  <2>1. \A v \in Workers : Taken(v, call') = Taken(v, call)
    BY <1>1, <1>6 DEF Taken
  <2> QED
    BY <2>1, <1>7 DEF OnlyCall
<1>10. acceptors' \in Seq(Nat) /\ peers' = peers
  BY <1>2, <1>7 DEF TypeOK
<1> QED
  BY <1>1, <1>6, <1>8, <1>9, <1>10, CallStep

(* Send finds a buffer and fills it, or finds none.                          *)
LEMMA SendTakesKeeps ==
  ASSUME IInv, SendTakes
  PROVE  IInv'
<1>1. call.op = "send" /\ up
  BY DEF SendTakes, IInv, DownOK
<1>2. TypeOK /\ UpOK /\ CallOK /\ KnownOK /\ PeersOK
  BY <1>1 DEF IInv, UpOK
<1>3. PICK w \in Workers : w = call.w
  BY <1>2 DEF TypeOK, Call
<1>4. PICK number \in Numbers : number = call.number
  BY <1>2 DEF TypeOK, Call
<1>5. /\ in_queue[w] \in Seq(InputEvent) /\ in_free[w] \in Seq(Buffers)
      /\ out_queue[w] \in Seq(OutputEvent) /\ data[w] \in [Buffers -> Nat]
      /\ worker[w] \in Worker /\ dropped[w] \in SUBSET Buffers
      /\ accepted \in Nat /\ accepted <= MaxConnections
  BY <1>2, WorkerTypes
<1>6. /\ Len(in_queue[w]) < InputEvents
      /\ Named(w, worker[w], call.id, number) \/ IsPeerId(call.id)
  BY <1>1, <1>2, <1>3, <1>4 DEF CallOK
<1>7. UNCHANGED <<up, acceptors, peers, known, in_queue, out_queue, worker, dropped, accepted>>
  BY DEF SendTakes
<1>8. CASE call' = NoCall /\ UNCHANGED <<in_free, data>>
  <2>1. \A v \in Workers : Taken(v, call') = Taken(v, call)
    BY <1>1, <1>8, NoCallType DEF Taken
  <2>2. OnlyCall
    BY <2>1, <1>7, <1>8 DEF OnlyCall, queue_vars
  <2>3. CallOK' /\ call' \in Call
    BY <1>8, NoCallType DEF CallOK
  <2>4. acceptors' \in Seq(Nat) /\ peers' = peers
    BY <1>2, <1>7 DEF TypeOK
  <2> QED
    BY <2>2, <2>3, <2>4, <1>1, CallStep
<1>9. CASE /\ in_free[call.w] # <<>>
           /\ LET b == Head(in_free[call.w]) IN
              /\ in_free' = [in_free EXCEPT ![call.w] = Tail(@)]
              /\ data' = [data EXCEPT ![call.w][b] = call.number]
              /\ call' = [call EXCEPT !.op = "push", !.buffer = b]
  <2>1. PICK f \in Seq(Buffers) : f = in_free[w]
    BY <1>5
  <2>2. f # <<>>
    BY <2>1, <1>3, <1>9
  <2>3. PICK b \in Buffers : b = Head(f)
    BY <2>2
  <2>4. PICK t \in Seq(Buffers) : t = Tail(f)
    BY <2>2, HeadTailProperties
  <2>5. number \in Nat
    BY <1>4 DEF Numbers
  <2>6. PICK d \in [Buffers -> Nat] : d = [data[w] EXCEPT ![b] = number]
    BY <2>3, <2>5, <1>5
  <2>7. d[b] = number /\ \A x \in Buffers : x # b => d[x] = data[w][x]
    BY <2>3, <2>6, <1>5
  <2>8. /\ in_free' = [in_free EXCEPT ![w] = t] /\ data' = [data EXCEPT ![w] = d]
        /\ call' = [call EXCEPT !.op = "push", !.buffer = b]
    <3>1. /\ in_free' = [in_free EXCEPT ![call.w] = Tail(@)]
          /\ data' = [data EXCEPT ![call.w][Head(in_free[call.w])] = call.number]
          /\ call' = [call EXCEPT !.op = "push", !.buffer = Head(in_free[call.w])]
      BY <1>9
    <3>2. Head(in_free[call.w]) = b
      BY <1>3, <2>1, <2>3
    <3>3. call' = [call EXCEPT !.op = "push", !.buffer = b]
      BY <3>1, <3>2
    <3>4. in_free' = [in_free EXCEPT ![w] = t]
      BY <3>1, <1>3, <2>1, <2>4
    <3>5. data' = [data EXCEPT ![w][b] = number]
      BY <3>1, <3>2, <1>3, <1>4
    <3>6. data' = [data EXCEPT ![w] = d]
      BY <3>5, <2>6
    <3> QED
      BY <3>3, <3>4, <3>6
  <2>9. /\ call' \in Call /\ call'.op = "push" /\ call'.buffer = b /\ call'.w = w
        /\ call'.id = call.id /\ call'.number = number
    BY <1>2, <1>3, <1>4, <2>3, <2>8 DEF TypeOK, Call
  <2>10. TypeOK'
    BY <1>2, <1>7, <2>4, <2>6, <2>8, <2>9 DEF TypeOK
  <2>11. in_free'[w] = t /\ data'[w] = d
    BY <1>2, <2>8 DEF TypeOK
  <2>12. CallOK'
    BY <1>6, <1>7, <2>3, <2>7, <2>9, <2>11 DEF CallOK, Named
  <2>13. KnownOK' /\ PeersOK'
    BY <1>2, <1>7 DEF KnownOK, PeersOK
  <2>14. OnlyQueues(w)
    <3>1. ASSUME NEW v \in Workers \ {w}
          PROVE  Taken(v, call') = Taken(v, call)
      BY <1>3, <2>9 DEF Taken
    <3> QED
      BY <3>1, <1>2, <1>7, <2>8 DEF OnlyQueues, TypeOK
  <2>15. WorkerOK(w, in_free'[w], call', in_queue'[w], worker[w], dropped[w], data'[w],
                  out_queue'[w], accepted)
    <3>1. WorkerOK(w, f, call, in_queue[w], worker[w], dropped[w], data[w], out_queue[w],
                   accepted)
      BY <1>2, <2>1 DEF UpOK
    <3>2. Taken(w, call) = {}
      BY <1>1 DEF Taken
    <3>3. \A x \in Buffers : x # Head(f) => d[x] = data[w][x]
      BY <2>3, <2>7
    <3>4. PICK c2 : c2 = call'
      OBVIOUS
    <3>5. c2.op = "push" /\ c2.w = w /\ c2.buffer = Head(f)
      BY <2>3, <2>9, <3>4
    <3>6. WorkerOK(w, Tail(f), c2, in_queue[w], worker[w], dropped[w], d, out_queue[w],
                   accepted)
      BY <1>5, <2>2, <3>1, <3>2, <3>3, <3>5, WorkerTakes, ZenonT(60)
    <3> QED
      BY <3>4, <3>6, <2>4, <2>11, <1>7
  <2> QED
    BY <2>10, <2>12, <2>13, <2>14, <2>15, <1>1, MasterStep
<1> QED
  BY <1>8, <1>9 DEF SendTakes

(* Send pushes its event: there still is room, for nobody else pushes.       *)
LEMMA SendPushesKeeps ==
  ASSUME IInv, SendPushes
  PROVE  IInv'
<1>1. call.op = "push" /\ up
  BY DEF SendPushes, IInv, DownOK
<1>2. TypeOK /\ UpOK /\ CallOK /\ KnownOK /\ PeersOK
  BY <1>1 DEF IInv, UpOK
<1>3. PICK w \in Workers : w = call.w
  BY <1>2 DEF TypeOK, Call
<1>4. PICK c \in Call : c = call
  BY <1>2 DEF TypeOK
<1>5. /\ in_queue[w] \in Seq(InputEvent) /\ in_free[w] \in Seq(Buffers)
      /\ out_queue[w] \in Seq(OutputEvent) /\ data[w] \in [Buffers -> Nat]
      /\ worker[w] \in Worker /\ dropped[w] \in SUBSET Buffers
      /\ accepted \in Nat /\ accepted <= MaxConnections
  BY <1>2, WorkerTypes
<1>6. /\ c.op = "push" /\ c.w = w /\ c.id \in Nat /\ c.buffer \in Buffers
      /\ data[w][c.buffer] = c.number
      /\ Named(w, worker[w], c.id, c.number) \/ IsPeerId(c.id)
      /\ Len(in_queue[w]) < InputEvents
  BY <1>1, <1>2, <1>3, <1>4 DEF CallOK, Call
<1>7. PICK e : e = Event("send", c.id, c.buffer)
  OBVIOUS
<1>8. e \in InputEvent /\ e.type = "send" /\ e.id = c.id /\ e.buffer = c.buffer
  BY <1>6, <1>7 DEF Event, InputEvent
<1>9. Meant(w, worker[w], e, data[w])
  BY <1>6, <1>8, NetAssumption DEF Meant
<1>10. PICK q \in Seq(InputEvent) : q = Append(in_queue[w], e)
  BY <1>5, <1>8, AppendRange
<1>11. in_queue' = [in_queue EXCEPT ![w] = q] /\ call' = NoCall
  BY <1>3, <1>4, <1>6, <1>7, <1>10 DEF SendPushes, HasRoom, Put
<1>12. UNCHANGED <<up, acceptors, peers, known, in_free, out_queue, data, worker, dropped,
                   accepted>>
  BY DEF SendPushes
<1>13. TypeOK'
  BY <1>2, <1>10, <1>11, <1>12, NoCallType DEF TypeOK
<1>14. CallOK' /\ KnownOK' /\ PeersOK'
  BY <1>2, <1>11, <1>12, NoCallType DEF CallOK, KnownOK, PeersOK
<1>15. OnlyQueues(w)
  <2>1. ASSUME NEW v \in Workers \ {w}
        PROVE  Taken(v, call') = Taken(v, call)
    BY <1>3, <1>11, NoCallType DEF Taken
  <2> QED
    BY <2>1, <1>2, <1>11, <1>12 DEF OnlyQueues, TypeOK
<1>16. WorkerOK(w, in_free'[w], call', in_queue'[w], worker[w], dropped[w], data'[w],
                out_queue'[w], accepted)
  <2>1. WorkerOK(w, in_free[w], c, in_queue[w], worker[w], dropped[w], data[w],
                 out_queue[w], accepted)
    BY <1>2, <1>4 DEF UpOK
  <2>2. Taken(w, NoCall) = {}
    BY NoCallType DEF Taken
  <2>3. WorkerOK(w, in_free[w], NoCall, Append(in_queue[w], e), worker[w], dropped[w],
                 data[w], out_queue[w], accepted)
    BY <1>5, <1>6, <1>8, <1>9, <2>1, <2>2, WorkerSent
  <2>4. in_queue'[w] = Append(in_queue[w], e)
    BY <1>2, <1>10, <1>11 DEF TypeOK
  <2> QED
    BY <2>3, <2>4, <1>11, <1>12
<1> QED
  BY <1>1, <1>13, <1>14, <1>15, <1>16, MasterStep

(* The master tells worker w something that needs no buffer.                 *)
LEMMA TellKeeps ==
  ASSUME IInv, up, call.op \notin {"send", "push"},
         NEW w \in Workers, NEW e \in InputEvent, e.type # "send",
         Meant(w, worker[w], e, data[w]), in_queue' = Put(in_queue, w, e),
         UNCHANGED <<up, acceptors, known, in_free, out_queue, data, worker, dropped,
                     accepted>>,
         peers' \in Seq(Nat), PeersOK', call' \in Call, call'.op \notin {"send", "push"}
  PROVE  IInv'
<1>1. TypeOK /\ UpOK /\ KnownOK
  BY DEF IInv, UpOK
<1>2. /\ in_queue[w] \in Seq(InputEvent) /\ worker[w] \in Worker
  BY <1>1, WorkerTypes
<1>3. PICK q \in Seq(InputEvent) : q = Append(in_queue[w], e)
  BY <1>2, AppendRange
<1>4. in_queue' = [in_queue EXCEPT ![w] = q]
  BY <1>3 DEF Put
<1>5. TypeOK'
  BY <1>1, <1>3, <1>4 DEF TypeOK
<1>6. CallOK' /\ KnownOK'
  BY <1>1 DEF CallOK, KnownOK
<1>7. \A v \in Workers : Taken(v, call') = {} /\ Taken(v, call) = {}
  BY IdleCall
<1>8. OnlyQueues(w)
  BY <1>1, <1>4, <1>7 DEF OnlyQueues, TypeOK
<1>9. WorkerOK(w, in_free'[w], call', in_queue'[w], worker[w], dropped[w], data'[w],
               out_queue'[w], accepted)
  <2>1. WorkerOK(w, in_free[w], call, in_queue[w], worker[w], dropped[w], data[w],
                 out_queue[w], accepted)
    BY <1>1 DEF UpOK
  <2>2. WorkerOK(w, in_free[w], call, Append(in_queue[w], e), worker[w], dropped[w],
                 data[w], out_queue[w], accepted)
    BY <2>1, <1>2, WorkerTold
  <2>3. WorkerOK(w, in_free[w], call, q, worker[w], dropped[w], data[w], out_queue[w],
                 accepted)
    BY <2>2, <1>3
  <2>4. accepted \in Nat /\ accepted <= accepted
    BY <1>1 DEF TypeOK
  <2>5. Taken(w, call') = Taken(w, call)
    BY <1>7
  <2>6. WorkerOK(w, in_free[w], call', q, worker[w], dropped[w], data[w], out_queue[w],
                 accepted)
    BY <2>3, <2>4, <2>5, <1>2, WorkerSame
  <2>7. in_queue'[w] = q
    BY <1>1, <1>4 DEF TypeOK
  <2> QED
    BY <2>6, <2>7
<1> QED
  BY <1>5, <1>6, <1>8, <1>9, MasterStep

(* AddAcceptor goes from worker to worker.                                   *)
LEMMA TellAcceptorKeeps ==
  ASSUME IInv, TellAcceptor
  PROVE  IInv'
<1>1. call.op = "accept" /\ up
  BY DEF TellAcceptor, IInv, DownOK
<1>2. TypeOK /\ PeersOK
  BY <1>1 DEF IInv, UpOK
<1>3. PICK c \in Call : c = call
  BY <1>2 DEF TypeOK
<1>4. c.op = "accept" /\ c.w \in Workers /\ c.id \in Nat
  BY <1>1, <1>3 DEF Call
<1>5. call' \in Call /\ call'.op \notin {"send", "push"}
  <2>1. CASE c.w + 1 \in Workers
    <3>1. call' = [c EXCEPT !.w = c.w + 1]
      BY <2>1, <1>3 DEF TellAcceptor
    <3> QED
      BY <3>1, <2>1, <1>4 DEF Call
  <2>2. CASE c.w + 1 \notin Workers
    BY <2>2, <1>3, NoCallType DEF TellAcceptor
  <2> QED
    BY <2>1, <2>2
<1>6. UNCHANGED <<up, acceptors, peers, known, in_free, out_queue, data, worker, dropped,
                  accepted>>
  BY DEF TellAcceptor
<1>7. peers' \in Seq(Nat) /\ acceptors' \in Seq(Nat) /\ PeersOK'
  BY <1>2, <1>6 DEF TypeOK, PeersOK
<1>8. CASE in_queue' = Put(in_queue, call.w, Event("accept", call.id, None))
  <2>1. PICK e : e = Event("accept", c.id, None)
    OBVIOUS
  <2>2. e \in InputEvent /\ e.type = "accept" /\ e.buffer = None
    BY <2>1, <1>4 DEF Event, InputEvent
  <2>3. Meant(c.w, worker[c.w], e, data[c.w])
    BY <2>2 DEF Meant
  <2>4. in_queue' = Put(in_queue, c.w, e)
    BY <2>1, <1>3, <1>8
  <2>5. e.type # "send" /\ call.op \notin {"send", "push"}
    BY <2>2, <1>1
  <2> QED
    BY <2>2, <2>3, <2>4, <2>5, <1>1, <1>4, <1>5, <1>6, <1>7, TellKeeps
<1>9. CASE UNCHANGED in_queue
  <2>1. \A v \in Workers : Taken(v, call') = Taken(v, call)
    BY <1>1, <1>5, IdleCall
  <2>2. OnlyCall
    BY <2>1, <1>6, <1>9 DEF OnlyCall, queue_vars
  <2>3. CallOK'
    BY <1>5 DEF CallOK
  <2> QED
    BY <2>2, <2>3, <1>1, <1>5, <1>6, <1>7, CallStep
<1> QED
  BY <1>8, <1>9 DEF TellAcceptor

(* AddPeerConnector gives its id to a worker.                                *)
LEMMA AddPeerConnectorKeeps ==
  ASSUME IInv, AddPeerConnector
  PROVE  IInv'
<1>1. up /\ call.op = "none"
  BY DEF AddPeerConnector, ClientRuns
<1>2. TypeOK /\ PeersOK
  BY <1>1 DEF IInv, UpOK
<1>3. PICK list \in Seq(Nat) : list = peers
  BY <1>2 DEF TypeOK
<1>4. PICK n \in Nat : n = Len(list)
  OBVIOUS
<1>5. n < MaxPeers /\ MaxPeers \in Nat
  BY <1>3, <1>4, NetAssumption, Fields DEF AddPeerConnector
<1>6. PICK id \in Nat : id = PeerId(n)
  BY <1>5, ParsedPeerId
<1>7. PICK w \in Workers : w = PeerWorker(n)
  BY PeerWorkerType
<1>8. PICK e : e = Event("peer", id, None)
  OBVIOUS
<1>9. e \in InputEvent /\ e.type = "peer" /\ e.buffer = None /\ e.type # "send"
  BY <1>8 DEF Event, InputEvent
<1>10. Meant(w, worker[w], e, data[w])
  BY <1>9 DEF Meant
<1>11. peers' = Append(list, id) /\ in_queue' = Put(in_queue, w, e)
  BY <1>3, <1>4, <1>6, <1>7, <1>8 DEF AddPeerConnector, PeerId
<1>12. UNCHANGED <<up, acceptors, call, known, in_free, out_queue, data, worker, dropped,
                   accepted>>
  BY DEF AddPeerConnector
<1>13. PICK list2 \in Seq(Nat) : list2 = Append(list, id)
  BY AppendRange
<1>14. /\ Len(list2) = n + 1 /\ DOMAIN list2 = 1 .. n + 1 /\ DOMAIN list = 1 .. n
       /\ list2[n + 1] = id /\ \A k \in 1 .. n : list2[k] = list[k]
  BY <1>4, <1>13
<1>15. Len(list2) <= MaxPeers /\ \A k \in DOMAIN list2 : list2[k] = PeerId(k - 1)
  <2>1. \A k \in 1 .. n : list[k] = PeerId(k - 1)
    BY <1>2, <1>3, <1>14 DEF PeersOK
  <2>2. (n + 1) - 1 = n
    OBVIOUS
  <2>3. list2[n + 1] = PeerId((n + 1) - 1)
    BY <2>2, <1>6, <1>14
  <2>4. \A k \in 1 .. n + 1 : k \in 1 .. n \/ k = n + 1
    OBVIOUS
  <2> QED
    BY <2>1, <2>3, <2>4, <1>5, <1>14
<1>16. peers' \in Seq(Nat) /\ PeersOK'
  BY <1>11, <1>13, <1>15 DEF PeersOK
<1>17. call' \in Call /\ call'.op \notin {"send", "push"} /\ call.op \notin {"send", "push"}
  BY <1>1, <1>2, <1>12 DEF TypeOK
<1> QED
  BY <1>1, <1>9, <1>10, <1>11, <1>12, <1>16, <1>17, TellKeeps

(* Disconnect names a connection that the client knows.                      *)
LEMMA DisconnectCallKeeps ==
  ASSUME IInv, NEW c \in Targets, Disconnect(c)
  PROVE  IInv'
<1>1. up /\ call.op = "none" /\ ParseNetConnectionType(c.id) = kConnector
  BY DEF Disconnect, ClientRuns
<1>2. TypeOK /\ KnownOK /\ PeersOK
  BY <1>1 DEF IInv, UpOK
<1>3. PICK w : w = WorkerOf(c.id)
  OBVIOUS
<1>4. /\ c.id \in Nat /\ c.number \in Numbers /\ w \in Workers
      /\ Named(w, worker[w], c.id, c.number) \/ IsPeerId(c.id)
  BY <1>2, <1>3, TargetNamed
<1>5. Named(w, worker[w], c.id, c.number)
  BY <1>1, <1>4, PeerIdParsed
<1>6. PICK e : e = Event("disconnect", c.id, None)
  OBVIOUS
<1>7. e \in InputEvent /\ e.type = "disconnect" /\ e.id = c.id /\ e.buffer = None
      /\ e.type # "send"
  BY <1>4, <1>6 DEF Event, InputEvent
<1>8. Meant(w, worker[w], e, data[w])
  BY <1>4, <1>5, <1>7 DEF Meant
<1>9. in_queue' = Put(in_queue, w, e)
  BY <1>3, <1>6 DEF Disconnect
<1>10. UNCHANGED <<up, acceptors, peers, call, known, in_free, out_queue, data, worker,
                   dropped, accepted>>
  BY DEF Disconnect, master_vars
<1>11. peers' \in Seq(Nat) /\ PeersOK' /\ call' \in Call
       /\ call'.op \notin {"send", "push"} /\ call.op \notin {"send", "push"}
  BY <1>1, <1>2, <1>10 DEF TypeOK, PeersOK
<1> QED
  BY <1>1, <1>4, <1>7, <1>8, <1>9, <1>10, <1>11, TellKeeps

(* Update gets to an output event of worker w: the client may learn of a     *)
(* connection.                                                               *)
LEMMA HandleOutputKeeps ==
  ASSUME IInv, NEW w \in Workers, HandleOutputEvent(w)
  PROVE  IInv'
<1>1. up /\ call.op = "none" /\ out_queue[w] # <<>>
  BY DEF HandleOutputEvent, GetOutputEvent, ClientRuns
<1>2. TypeOK /\ UpOK /\ KnownOK /\ PeersOK
  BY <1>1 DEF IInv, UpOK
<1>3. PICK o \in Seq(OutputEvent) : o = out_queue[w]
  BY <1>2 DEF TypeOK
<1>4. PICK n \in Nat : n = Len(o)
  OBVIOUS
<1>5. n >= 1 /\ DOMAIN o = 1 .. n
  BY <1>1, <1>3, <1>4
<1>6. PICK e \in OutputEvent : e = o[1]
  BY <1>5
<1>7. Head(o) = e
  BY <1>1, <1>3, <1>6
<1>8. PICK t \in Seq(OutputEvent) : t = Tail(o)
  BY <1>1, <1>3, HeadTailProperties
<1>9. DOMAIN t = 1 .. n - 1 /\ \A k \in 1 .. n - 1 : t[k] = o[k + 1]
  BY <1>1, <1>3, <1>4, <1>5, <1>8, HeadTailProperties
<1>10. /\ WorkerOK(w, in_free[w], call, in_queue[w], worker[w], dropped[w], data[w], o,
                   accepted)
       /\ Told(w, o, worker[w])
  BY <1>2, <1>3 DEF UpOK, WorkerOK
<1>11. Told(w, t, worker[w])
  <2>1. \A k \in 1 .. n - 1 : k + 1 \in 1 .. n
    OBVIOUS
  <2> QED
    BY <2>1, <1>5, <1>9, <1>10 DEF Told
<1>12. out_queue' = [out_queue EXCEPT ![w] = t]
  BY <1>3, <1>8 DEF HandleOutputEvent, GetOutputEvent
<1>13. \/ known' = known
       \/ /\ known' = known \cup {[id |-> e.id, number |-> e.number]}
          /\ e.type = "connected"
  <2>1. Head(out_queue[w]) = e
    BY <1>3, <1>7
  <2>2. known' = IF /\ HasHandler(e.handler) /\ e.type = "connected"
                    /\ ParseNetConnectionType(e.id) = kConnector
                 THEN known \cup {[id |-> e.id, number |-> e.number]} ELSE known
    BY <2>1 DEF HandleOutputEvent
  <2> QED
    BY <2>2
<1>14. UNCHANGED <<up, acceptors, peers, call, in_queue, in_free, data, worker, dropped,
                   accepted>>
  BY DEF HandleOutputEvent
<1>15. TypeOK'
  <2>1. e.id \in Nat /\ e.number \in Numbers
    BY DEF OutputEvent
  <2>2. known' \in SUBSET [id: Nat, number: Numbers]
    BY <2>1, <1>2, <1>13 DEF TypeOK
  <2> QED
    BY <2>2, <1>2, <1>12, <1>14 DEF TypeOK
<1>16. KnownOK'
  <2> SUFFICES ASSUME NEW x \in known'
               PROVE  \E v \in Workers : Named(v, worker[v], x.id, x.number)
    BY <1>14 DEF KnownOK
  <2>1. CASE x \in known
    BY <2>1, <1>2 DEF KnownOK
  <2>2. CASE x = [id |-> e.id, number |-> e.number] /\ e.type = "connected"
    <3>1. Named(w, worker[w], e.id, e.number)
      BY <2>2, <1>5, <1>6, <1>10 DEF Told
    <3>2. x.id = e.id /\ x.number = e.number
      BY <2>2
    <3> QED
      BY <3>1, <3>2
  <2> QED
    BY <2>1, <2>2, <1>13
<1>17. CallOK' /\ PeersOK'
  BY <1>1, <1>2, <1>14 DEF CallOK, PeersOK
<1>18. OnlyQueues(w)
  BY <1>2, <1>12, <1>14 DEF OnlyQueues, TypeOK
<1>19. WorkerOK(w, in_free'[w], call', in_queue'[w], worker[w], dropped[w], data'[w],
                out_queue'[w], accepted)
  <2>1. WorkerOK(w, in_free[w], call, in_queue[w], worker[w], dropped[w], data[w], t,
                 accepted)
    BY <1>10, <1>11 DEF WorkerOK
  <2>2. out_queue'[w] = t
    BY <1>2, <1>12 DEF TypeOK
  <2> QED
    BY <2>1, <2>2, <1>14
<1> QED
  BY <1>1, <1>15, <1>16, <1>17, <1>18, <1>19, MasterStep
-----------------------------------------------------------------------------
(* Workers come and go. *)

(* A worker's record when it is there anew: its connectors are all free and  *)
(* have their first ids.                                                     *)
LEMMA NewWorkerType ==
  ASSUME NEW w \in Workers
  PROVE  /\ NewWorker(w) \in Worker /\ NewWorker(w).at = "test"
         /\ IsInjective(NewWorker(w).free)
         /\ \A i \in Slots : /\ NewWorker(w).connector[i].id = SlotId(w, i, 0)
                             /\ NewWorker(w).connector[i].write = <<>>
                             /\ ~ InUse(NewWorker(w).connector[i])
<1>1. PICK r : r = NewWorker(w)
  OBVIOUS
<1>2. PICK free : free = [i \in 1 .. ConnectorCount |-> i - 1]
  OBVIOUS
<1>3. PICK cs : cs = [i \in Slots |-> [id |-> InitNetConnectionID(kConnector, w, i),
                                       number |-> 0, handler |-> kNetConnectionIDInvalid,
                                       write |-> <<>>]]
  OBVIOUS
<1>4. /\ r.at = "test" /\ r.event = None /\ r.todo = 0
      /\ r.acceptors = <<>> /\ r.peers = <<>> /\ r.connector = cs /\ r.free = free
      /\ r = [at |-> "test", event |-> None, todo |-> 0, acceptors |-> <<>>,
              peers |-> <<>>, connector |-> cs, free |-> free]
  BY <1>1, <1>2, <1>3 DEF NewWorker
<1>5. ConnectorCount \in Nat
  BY NetAssumption, Fields
<1>6. free \in Seq(Slots) /\ IsInjective(free)
  <2>1. free \in [1 .. ConnectorCount -> Slots]
    BY <1>2, <1>5 DEF Slots
  <2>2. \A g \in [1 .. ConnectorCount -> Slots] : g \in Seq(Slots)
    BY <1>5, SeqDef
  <2> QED
    BY <2>1, <2>2, <1>2, <1>5 DEF IsInjective
<1>7. ASSUME NEW i \in Slots
      PROVE  /\ cs[i] \in Connector /\ cs[i].id = SlotId(w, i, 0)
             /\ cs[i].write = <<>> /\ ~ InUse(cs[i])
  <2>1. 0 \in Times
    BY Fields DEF Times
  <2>2. SlotId(w, i, 0) \in Nat
    BY <2>1, ParsedSlotId
  <2>3. InitNetConnectionID(kConnector, w, i) = SlotId(w, i, 0)
    <3>1. w * WorkerUnit \in Nat /\ i \in Nat /\ 0 * (WorkerUnit * 256) = 0 /\ 0 * Indexes = 0
      BY Fields DEF Workers, Slots
    <3> QED
      BY <3>1 DEF InitNetConnectionID, SlotId, kConnector
  <2>4. kNetConnectionIDInvalid \in Nat
    BY Fields DEF kNetConnectionIDInvalid
  <2>5. cs[i] = [id |-> SlotId(w, i, 0), number |-> 0,
                 handler |-> kNetConnectionIDInvalid, write |-> <<>>]
    BY <2>3, <1>3
  <2>6. 0 \in Numbers
    BY NoCallType
  <2> QED
    BY <2>2, <2>4, <2>5, <2>6 DEF Connector, InUse
<1>8. cs \in [Slots -> Connector]
  BY <1>3, <1>7
<1>9. r \in Worker
  BY <1>4, <1>6, <1>8 DEF Worker
<1> QED
  BY <1>1, <1>4, <1>6, <1>7, <1>9

(* The same of one whose thread is not there.                                *)
LEMMA EndedWorkerType ==
  ASSUME NEW w \in Workers
  PROVE  /\ [NewWorker(w) EXCEPT !.at = "ended"] \in Worker
         /\ [NewWorker(w) EXCEPT !.at = "ended"].at = "ended"
         /\ \A i \in Slots : [NewWorker(w) EXCEPT !.at = "ended"].connector[i].write = <<>>
<1>1. PICK r \in Worker : r = NewWorker(w)
  BY NewWorkerType
<1>2. PICK r2 : r2 = [r EXCEPT !.at = "ended"]
  OBVIOUS
<1>3. r2 \in Worker /\ r2.at = "ended" /\ r2.connector = r.connector
  BY <1>2, RecordGoes
<1> QED
  BY <1>1, <1>2, <1>3, NewWorkerType

(* There are no workers, or none any more. *)
Nothing ==
  /\ up = FALSE /\ acceptors = <<>> /\ peers = <<>> /\ call = NoCall /\ known = {}
  /\ in_queue = [w \in Workers |-> <<>>] /\ in_free = [w \in Workers |-> <<>>]
  /\ out_queue = [w \in Workers |-> <<>>]
  /\ data = [w \in Workers |-> [b \in Buffers |-> 0]]
  /\ worker = [w \in Workers |-> [NewWorker(w) EXCEPT !.at = "ended"]]
  /\ dropped = [w \in Workers |-> {}] /\ accepted = 0

(* Then nothing can be wrong.                                                *)
LEMMA NoWorkers == Nothing => IInv
<1> SUFFICES ASSUME Nothing PROVE IInv
  OBVIOUS
<1> USE DEF Nothing
<1>1. TypeOK
  <2>1. worker \in [Workers -> Worker]
    BY EndedWorkerType
  <2>2. data \in [Workers -> [Buffers -> Nat]]
    OBVIOUS
  <2>3. /\ in_queue \in [Workers -> Seq(InputEvent)]
        /\ in_free \in [Workers -> Seq(Buffers)]
        /\ out_queue \in [Workers -> Seq(OutputEvent)]
        /\ dropped \in [Workers -> SUBSET Buffers]
    OBVIOUS
  <2>4. accepted \in Nat /\ accepted <= MaxConnections
    BY NetAssumption, Fields
  <2>5. up \in BOOLEAN /\ acceptors \in Seq(Nat) /\ peers \in Seq(Nat) /\ call \in Call
        /\ known \in SUBSET [id: Nat, number: Numbers]
    <3>1. up \in BOOLEAN
      BY Zenon
    <3>2. acceptors \in Seq(Nat) /\ peers \in Seq(Nat)
      OBVIOUS
    <3>3. call \in Call
      BY NoCallType
    <3>4. known \in SUBSET [id: Nat, number: Numbers]
      OBVIOUS
    <3> QED
      BY <3>1, <3>2, <3>3, <3>4
  <2> QED
    BY <2>1, <2>2, <2>3, <2>4, <2>5 DEF TypeOK
<1>2. DownOK
  <2>1. ASSUME NEW w \in Workers
        PROVE  /\ in_queue[w] = <<>> /\ out_queue[w] = <<>> /\ dropped[w] = {}
               /\ worker[w].at = "ended"
               /\ \A i \in Slots : worker[w].connector[i].write = <<>>
    BY EndedWorkerType
  <2> QED
    BY <2>1, NoCallType DEF DownOK
<1> QED
  BY <1>1, <1>2 DEF IInv

(* So it is when the master is constructed.                                  *)
LEMMA InitIInv == Init => IInv
BY NoWorkers DEF Init, Nothing

(* Uninit goes from worker to worker, and after the last one nothing is      *)
(* left.                                                                     *)
LEMMA DeleteWorkerKeeps ==
  ASSUME IInv, DeleteWorker
  PROVE  IInv'
<1>1. call.op = "delete" /\ up
  BY DEF DeleteWorker, IInv, DownOK
<1>2. TypeOK
  BY DEF IInv
<1>3. CASE call.w + 1 \in Workers /\ up' = up
  <2>1. /\ call' = [NoCall EXCEPT !.op = "stop", !.w = call.w + 1]
        /\ UNCHANGED <<up, acceptors, peers, known, queue_vars, data, worker, dropped,
                       accepted>>
    BY <1>3 DEF DeleteWorker
  <2>2. call' \in Call /\ call'.op = "stop"
    BY <2>1, <1>3, NoCallType DEF Call
  <2>3. \A v \in Workers : Taken(v, call') = Taken(v, call)
    BY <2>2, <1>1, IdleCall
  <2>4. OnlyCall
    BY <2>1, <2>3 DEF OnlyCall
  <2>5. CallOK' /\ acceptors' \in Seq(Nat) /\ peers' = peers
    BY <2>1, <2>2, <1>2 DEF CallOK, TypeOK
  <2> QED
    BY <2>2, <2>4, <2>5, <1>1, CallStep
<1>4. CASE call.w + 1 \notin Workers
  <2>1. /\ up' = FALSE /\ acceptors' = <<>> /\ peers' = <<>> /\ call' = NoCall /\ known' = {}
        /\ in_queue' = [w \in Workers |-> <<>>]
        /\ in_free' = [w \in Workers |-> <<>>]
        /\ out_queue' = [w \in Workers |-> <<>>]
        /\ data' = [w \in Workers |-> [b \in Buffers |-> 0]]
        /\ worker' = [w \in Workers |-> [NewWorker(w) EXCEPT !.at = "ended"]]
        /\ dropped' = [w \in Workers |-> {}] /\ accepted' = 0
    BY <1>4 DEF DeleteWorker
  <2>2. Nothing'
    BY <2>1 DEF Nothing
  <2>3. Nothing' => IInv'
    BY NoWorkers, PTL
  <2> QED
    BY <2>2, <2>3
<1> QED
  BY <1>3, <1>4 DEF DeleteWorker

(* A worker that is new has its buffers free and nothing else.               *)
LEMMA NewWorkerOK ==
  ASSUME NEW w \in Workers, NEW f \in Seq(Buffers), IsInjective(f),
         \A x : x \in Range(f) <=> x \in Buffers,
         NEW c, Taken(w, c) = {}, NEW d
  PROVE  WorkerOK(w, f, c, <<>>, NewWorker(w), {}, d, <<>>, 0)
<1>1. PICK r \in Worker : r = NewWorker(w)
  BY NewWorkerType
<1>2. /\ r.at = "test" /\ IsInjective(r.free)
      /\ \A i \in Slots : /\ r.connector[i].id = SlotId(w, i, 0)
                          /\ r.connector[i].write = <<>> /\ ~ InUse(r.connector[i])
  BY <1>1, NewWorkerType
<1>3. PICK q \in Seq(InputEvent) : q = <<>>
  BY EmptySeq
<1>4. DOMAIN q = {}
  BY <1>3
<1>5. \A i \in Slots : Range(r.connector[i].write) = {}
  BY <1>2 DEF Range
<1>6. Stored(w, f, c, q, r, {})
  <2>1. \A x : x \notin BuffersOf(q)
    BY <1>4, QueueBuffers
  <2>2. InHand(r) = {}
    BY <1>2 DEF InHand
  <2>3. \A x : x \notin Writes(r)
    BY <1>5 DEF Writes
  <2>4. InOnePlace(Range(f), Taken(w, c), BuffersOf(q), InHand(r), Writes(r), {})
    BY <2>1, <2>2, <2>3 DEF InOnePlace
  <2>5. SentOnce(q)
    BY <1>4 DEF SentOnce
  <2>6. WrittenOnce(r)
    <3>1. \A i \in Slots : IsInjective(r.connector[i].write)
      BY <1>2 DEF IsInjective
    <3> QED
      BY <3>1, <1>5 DEF WrittenOnce
  <2> QED
    BY <2>4, <2>5, <2>6 DEF Stored
<1>7. ConnectorsOK(w, r, 0)
  <2>1. 0 \in Times
    BY Fields DEF Times
  <2>2. ASSUME NEW i \in Slots
        PROVE  ConnectorOK(w, i, r.connector[i], 0)
    BY <2>1, <1>2 DEF ConnectorOK
  <2>3. \A k \in DOMAIN r.free : ~ InUse(r.connector[r.free[k]])
    <3>1. PICK list \in Seq(Slots) : list = r.free
      BY DEF Worker
    <3>2. \A k \in DOMAIN list : list[k] \in Slots
      OBVIOUS
    <3> QED
      BY <3>1, <3>2, <1>2
  <2> QED
    BY <2>2, <2>3, <1>2 DEF ConnectorsOK
<1>8. EventsOK(w, q, r, d)
  BY <1>2, <1>4 DEF EventsOK
<1>9. Told(w, <<>>, r)
  BY DEF Told
<1>10. Serves(r, d)
  BY <1>5 DEF Serves
<1> QED
  BY <1>1, <1>3, <1>6, <1>7, <1>8, <1>9, <1>10 DEF WorkerOK

(* Init of the master makes the workers.                                     *)
LEMMA MasterInitKeeps ==
  ASSUME IInv, MasterInit
  PROVE  IInv'
<1>1. TypeOK /\ DownOK /\ call.op = "none"
  BY DEF MasterInit, IInv
<1>2. PICK f \in Seq(Buffers) : f = SetToSeq(Buffers)
  BY NetAssumption, SetToSeqProperties
<1>3. IsInjective(f) /\ \A x : x \in Range(f) <=> x \in Buffers
  BY <1>2, NetAssumption, SetToSeqProperties
<1>4. /\ up' = TRUE
      /\ in_free' = [w \in Workers |-> f] /\ worker' = [w \in Workers |-> NewWorker(w)]
      /\ UNCHANGED <<acceptors, peers, call, known, in_queue, out_queue, data, dropped,
                     accepted>>
  BY <1>2 DEF MasterInit
<1>5. TypeOK'
  <2>1. worker' \in [Workers -> Worker]
    BY <1>4, NewWorkerType
  <2>2. in_free' \in [Workers -> Seq(Buffers)]
    BY <1>4
  <2>3. up' \in BOOLEAN
    BY <1>4, Zenon
  <2> QED
    BY <2>1, <2>2, <2>3, <1>1, <1>4 DEF TypeOK
<1>6. CallOK' /\ KnownOK' /\ PeersOK'
  <2>1. CallOK'
    BY <1>1, <1>4 DEF CallOK
  <2>2. KnownOK'
    BY <1>1, <1>4 DEF DownOK, KnownOK
  <2>3. PeersOK'
    <3>1. peers' = <<>>
      BY <1>1, <1>4 DEF DownOK
    <3>2. Len(<<>>) = 0 /\ 0 <= MaxPeers /\ DOMAIN <<>> = {}
      BY NetAssumption, Fields
    <3> QED
      BY <3>1, <3>2 DEF PeersOK
  <2> QED
    BY <2>1, <2>2, <2>3
<1>7. ASSUME NEW w \in Workers
      PROVE  WorkerOK(w, in_free'[w], call', in_queue'[w], worker'[w], dropped'[w],
                      data'[w], out_queue'[w], accepted')
  <2>1. Taken(w, call) = {}
    BY <1>1 DEF Taken
  <2>2. WorkerOK(w, f, call, <<>>, NewWorker(w), {}, data[w], <<>>, 0)
    BY <2>1, <1>3, NewWorkerOK
  <2>3. /\ in_queue[w] = <<>> /\ out_queue[w] = <<>> /\ dropped[w] = {} /\ accepted = 0
    BY <1>1 DEF DownOK
  <2>4. in_free'[w] = f /\ worker'[w] = NewWorker(w)
    BY <1>4
  <2> QED
    BY <2>2, <2>3, <2>4, <1>4
<1>8. UpOK'
  BY <1>6, <1>7 DEF UpOK
<1> QED
  BY <1>4, <1>5, <1>8 DEF IInv
-----------------------------------------------------------------------------
(* The theorems *)

(* Every step of the master and of the workers keeps the invariant.          *)
LEMMA NextIInv == IInv /\ [Next]_vars => IInv'
<1> SUFFICES ASSUME IInv, [Next]_vars
             PROVE  IInv'
  OBVIOUS
<1>1. CASE ClientCalls
  <2>1. CASE MasterInit
    BY <2>1, MasterInitKeeps
  <2>2. CASE AddPeerConnector
    BY <2>2, AddPeerConnectorKeeps
  <2>3. CASE AddAcceptor \/ Uninit
    BY <2>3, QuietCallsKeep
  <2>4. ASSUME NEW c \in Targets, Send(c) \/ Disconnect(c)
        PROVE  IInv'
    BY <2>4, SendKeeps, DisconnectCallKeeps
  <2>5. ASSUME NEW w \in Workers, HandleOutputEvent(w)
        PROVE  IInv'
    BY <2>5, HandleOutputKeeps
  <2> QED
    BY <1>1, <2>1, <2>2, <2>3, <2>4, <2>5 DEF ClientCalls
<1>2. CASE MasterGoesOn
  <2>1. CASE TellAcceptor
    BY <2>1, TellAcceptorKeeps
  <2>2. CASE SendTakes
    BY <2>2, SendTakesKeeps
  <2>3. CASE SendPushes
    BY <2>3, SendPushesKeeps
  <2>4. CASE UninitStops \/ UninitWakes \/ UninitJoins
    BY <2>4, QuietCallsKeep
  <2>5. CASE DeleteWorker
    BY <2>5, DeleteWorkerKeeps
  <2> QED
    BY <1>2, <2>1, <2>2, <2>3, <2>4, <2>5 DEF MasterGoesOn
<1>3. ASSUME NEW w \in Workers, WorkerGoesOn(w) \/ WorkerMay(w)
      PROVE  IInv'
  BY <1>3, WorkerKeeps
<1>4. CASE UNCHANGED vars
  <2>1. UNCHANGED <<up, acceptors, peers, call, known, in_queue, in_free, out_queue, data,
                    worker, dropped, accepted>>
    BY <1>4 DEF vars, master_vars, queue_vars
  <2>2. TypeOK'
    BY <2>1 DEF IInv, TypeOK
  <2>3. up => UpOK'
    BY <2>1 DEF IInv, UpOK, CallOK, KnownOK, PeersOK
  <2>4. ~up => DownOK'
    BY <2>1 DEF IInv, DownOK
  <2> QED
    BY <2>1, <2>2, <2>3, <2>4 DEF IInv
<1> QED
  BY <1>1, <1>2, <1>3, <1>4 DEF Next

(* IInv is an invariant.                                                     *)
THEOREM IInvariance == Spec => []IInv
<1> QED
  BY InitIInv, NextIInv, PTL DEF Spec

(* Send, SendTo, FreeInputBuffer: each input buffer is in one place: free,   *)
(* on its way between the threads, or dropped for want of a peer connector.  *)
THEOREM BuffersAreConserved == Spec => []BuffersConserved
<1>1. IInv => BuffersConserved
  <2> SUFFICES ASSUME IInv, up, NEW w \in Workers
               PROVE  LET places == Places(w) IN
                        /\ UNION Range(places) = Buffers
                        /\ \A p, q \in DOMAIN places : p < q => places[p] \cap places[q] = {}
    BY DEF BuffersConserved
  <2>1. Stored(w, in_free[w], call, in_queue[w], worker[w], dropped[w])
    BY DEF IInv, UpOK, WorkerOK
  <2>2. PICK a : a = Range(in_free[w])
    OBVIOUS
  <2>3. PICK b : b = Taken(w, call)
    OBVIOUS
  <2>4. PICK c : c = BuffersOf(in_queue[w])
    OBVIOUS
  <2>5. PICK d : d = InHand(worker[w])
    OBVIOUS
  <2>6. PICK e : e = Writes(worker[w])
    OBVIOUS
  <2>7. PICK f : f = dropped[w]
    OBVIOUS
  <2>8. Places(w) = <<a, b, c, d, e, f>>
    BY <2>2, <2>3, <2>4, <2>5, <2>6, <2>7 DEF Places, Taken, InHand, Writes, At
  <2>9. InOnePlace(a, b, c, d, e, f)
    BY <2>1, <2>2, <2>3, <2>4, <2>5, <2>6, <2>7 DEF Stored
  <2>10. PICK places : places = <<a, b, c, d, e, f>>
    OBVIOUS
  <2>11. /\ DOMAIN places = 1 .. 6
         /\ places[1] = a /\ places[2] = b /\ places[3] = c
         /\ places[4] = d /\ places[5] = e /\ places[6] = f
    BY <2>10
  <2>12. \A x : x \in UNION Range(places) <=> \E p \in 1 .. 6 : x \in places[p]
    BY <2>11 DEF Range
  <2>13. \A p \in 1 .. 6 : p = 1 \/ p = 2 \/ p = 3 \/ p = 4 \/ p = 5 \/ p = 6
    OBVIOUS
  <2>14. \A x : x \in UNION Range(places) <=>
                  x \in a \/ x \in b \/ x \in c \/ x \in d \/ x \in e \/ x \in f
    BY <2>11, <2>12, <2>13
  <2>15. UNION Range(places) = Buffers
    BY <2>9, <2>14 DEF InOnePlace
  <2>16. ASSUME NEW p \in 1 .. 6, NEW q \in 1 .. 6, p < q
         PROVE  places[p] \cap places[q] = {}
    <3>1. /\ \A x \in a : x \notin b /\ x \notin c /\ x \notin d /\ x \notin e /\ x \notin f
          /\ \A x \in b : x \notin c /\ x \notin d /\ x \notin e /\ x \notin f
          /\ \A x \in c : x \notin d /\ x \notin e /\ x \notin f
          /\ \A x \in d : x \notin e /\ x \notin f
          /\ \A x \in e : x \notin f
      BY <2>9 DEF InOnePlace
    <3>2. CASE p = 1
      BY <3>1, <3>2, <2>11, <2>13, <2>16
    <3>3. CASE p = 2
      BY <3>1, <3>3, <2>11, <2>13, <2>16
    <3>4. CASE p = 3
      BY <3>1, <3>4, <2>11, <2>13, <2>16
    <3>5. CASE p = 4
      BY <3>1, <3>5, <2>11, <2>13, <2>16
    <3>6. CASE p = 5
      BY <3>1, <3>6, <2>11, <2>13, <2>16
    <3>7. CASE p = 6
      BY <3>7, <2>13, <2>16
    <3> QED
      BY <3>2, <3>3, <3>4, <3>5, <3>6, <3>7, <2>13
  <2> QED
    BY <2>8, <2>10, <2>11, <2>15, <2>16
<1> QED
  BY <1>1, IInvariance, PTL

(* GetConnector, FreeNetConnector: what a connector has to write was sent to *)
(* the connection it serves.                                                 *)
THEOREM ConnectionsAreKeptApart == Spec => []NoCrossTalk
<1>1. IInv => NoCrossTalk
  <2> SUFFICES ASSUME IInv, NEW w \in Workers, NEW i \in Slots,
                      NEW b \in Range(worker[w].connector[i].write)
               PROVE  data[w][b] = worker[w].connector[i].number
    BY DEF NoCrossTalk
  <2>1. CASE up
    <3>1. Serves(worker[w], data[w])
      BY <2>1 DEF IInv, UpOK, WorkerOK
    <3> QED
      BY <3>1 DEF Serves
  <2>2. CASE ~up
    <3>1. worker[w].connector[i].write = <<>>
      BY <2>2 DEF IInv, DownOK
    <3> QED
      BY <3>1 DEF Range
  <2> QED
    BY <2>1, <2>2
<1> QED
  BY <1>1, IInvariance, PTL

=============================================================================
