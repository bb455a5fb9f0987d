-------------------------- MODULE NetConnectionId --------------------------
(***************************************************************************)
(* The connection ids of net/net_define.h: numbers with bit fields.  From  *)
(* the lowest bit up: 32 bits of index, 16 of increment, a worker of       *)
(* twelve bits, and the type eight bits above the worker's lowest, inside  *)
(* its field.  The shifts and masks of the code are divisions by how many  *)
(* values the fields below have, and remainders.                           *)
(***************************************************************************)
EXTENDS Naturals

CONSTANTS
  Indexes,    \* the values of the index, 2^32
  Increments  \* the values of the increment, 2^16

ASSUME FieldsAssumption == Indexes \in Nat \ {0} /\ Increments \in Nat \ {0}

(* What the lowest bit of the worker stands for. *)
WorkerUnit == Increments * Indexes

kConnector == 0
kPeerConnector == 1
kAcceptor == 2

(* -1, which is no id: its type, parsed, is none of the three. *)
kNetConnectionIDInvalid == WorkerUnit * 65536 - 1

ParseNetConnectionType(id) == id \div (WorkerUnit * 256)

ParseNetConnectionIndex(id) == id % Indexes

ParseNetWorkerIndex(id) == (id \div WorkerUnit) % 4096

InitNetConnectionID(type, worker_index, index) ==
  type * (WorkerUnit * 256) + worker_index * WorkerUnit + index

NextNetConnectionIDSame(id) == id   \* Mutant: the increment is forgotten.

(* The mask of the sum spans the increment and the worker: when the former   *)
(* wraps, the latter is counted up.                                          *)
NextNetConnectionID(id) ==
  (id \div (WorkerUnit * 4096)) * (WorkerUnit * 4096)
    + ((id \div Indexes + 1) % (Increments * 4096)) * Indexes
    + ParseNetConnectionIndex(id)
=============================================================================
