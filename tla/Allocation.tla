----------------------------- MODULE Allocation -----------------------------
(***************************************************************************)
(* The port allocator of an NLBPool (internalcontroller/allocation.go).    *)
(* A ledger A is a function from the UIDs of bindings that were ever given *)
(* an endpoint to leases [svc, shard, port, nodePort, tomb]; svc stands    *)
(* for the Service UID and the port name, tomb for Tombstone.  Leases are  *)
(* never removed from the map.                                             *)
(***************************************************************************)
EXTENDS Integers, FiniteSets

CONSTANTS Occupancy, MaxShards, PortStart, MaxWorkers, \* PoolSpec
          Explicit,                  \* AllocationMode = "Explicit"
          RequestedPort              \* spec.requestedPort of every binding

workerLimit(max) == IF max = 0 THEN 20 ELSE max

ValidatePool(occupancy, shards, start, workers, explicit) ==
    /\ workers \in 0..512
    /\ occupancy * workerLimit(workers) <= 1024
    /\ occupancy \in 1..50
    /\ shards \in 1..100
    /\ IF explicit THEN shards = 1 /\ start = 1
                   ELSE start >= 1024 /\ start + occupancy - 1 <= 65535

(* reconcile and Allocate return early on a pool that does not validate,   *)
(* so everything below is about one that does.                             *)
ASSUME PoolValid ==
    /\ Explicit \in BOOLEAN
    /\ {Occupancy, MaxShards, PortStart, MaxWorkers} \subseteq Nat
    /\ ValidatePool(Occupancy, MaxShards, PortStart, MaxWorkers, Explicit)

Shards == 0 .. MaxShards - 1

Slots == Shards \X (PortStart .. PortStart + Occupancy - 1)

(* Mutant: retired endpoints are handed out again.                         *)
OccupiedByActive(A) ==
    {<<A[u].shard, A[u].port>> : u \in {v \in DOMAIN A : ~A[v].tomb}}

(* Tombstones included: a retired endpoint is never free again.            *)
Occupied(A) == {<<A[u].shard, A[u].port>> : u \in DOMAIN A}

ServicePortTaken(A, s) == \E u \in DOMAIN A : ~A[u].tomb /\ A[u].svc = s

(* The order in which the two loops over shards and offsets look at slots. *)
Before(s, t) == s[1] < t[1] \/ (s[1] = t[1] /\ s[2] <= t[2])

(* The slot the search ends with: the requested one while the pool has     *)
(* room, or the first free one.                                            *)
Chosen(A, u, s) ==
    IF Explicit
    THEN /\ RequestedPort[u] \in 1..65535
         /\ s = <<0, RequestedPort[u]>>
         /\ Cardinality(DOMAIN A) < Occupancy
    ELSE /\ RequestedPort[u] = 0
         /\ s \in Slots
         /\ \A t \in Slots \ Occupied(A) : Before(s, t)

(* Allocate(p, b, serviceUID) succeeds for the unallocated binding u with  *)
(* slot s; every other case is one of its errors.                          *)
Allocate(A, u, svc, s) ==
    ~ServicePortTaken(A, svc) /\ s \notin Occupied(A) /\ Chosen(A, u, s)

(* The candidates among which Allocate looks for u.                        *)
Candidates(u) == IF Explicit THEN {<<0, RequestedPort[u]>>} ELSE Slots

WithLease(A, u, l) == [v \in DOMAIN A \cup {u} |-> IF v = u THEN l ELSE A[v]]
=============================================================================
