------------------------------ MODULE Capacity ------------------------------
(***************************************************************************)
(* The limits along the chain of one shard: a GatewayPool whose spec is    *)
(* accepted hands out leases; its Gateway has a listener for each; the     *)
(* adapter accepts the Gateway and makes an NLBPool of the size it derives *)
(* from the worker annotation; the engine leases a port of the NLB to each *)
(* route and fills one backend set after the other with the workers.  Each *)
(* limit is computed by another component, from the same two numbers.      *)
(***************************************************************************)
EXTENDS Integers, Sequences, FiniteSets

CONSTANTS
    Specs,     \* GatewayPool specs to try: [occ, gateways, start, workers]
    Counts     \* numbers of worker nodes observed

ASSUME CapacityConstants ==
    /\ Specs \subseteq [occ : Int, gateways : Int, start : Int, workers : Int]
    /\ Counts \subseteq Nat

VARIABLES
    spec,       \* spec of the GatewayPool, frozen
    leased,     \* leases on this shard, retired ones included
    retired,    \* the retired ones
    listeners,  \* listeners of the Gateway, 0 before it is created
    pool,       \* spec of the NLBPool [occ, workers], occ 0 before it exists
    nodes,      \* workers observed
    pinned,     \* workers recorded in the NLBPool
    sets        \* sizes of the backend sets, one for each NLB lease

capacityVars == <<spec, leased, retired, listeners, pool, nodes, pinned, sets>>

Budget == 1024        \* backends of one network load balancer
MinOf(a, b) == IF a <= b THEN a ELSE b
workerLimit(w) == IF w = 0 THEN 20 ELSE w

(* Validate, of the GatewayPool's spec                                     *)
Validate(s) ==
    LET w == workerLimit(s.workers)
    IN  /\ w \in 1..512 /\ s.occ * w <= Budget
        /\ s.occ \in 1..50 /\ s.gateways \in 1..100
        /\ s.start >= 1024 /\ s.start + s.occ - 1 <= 65535

(* gatewayWorkers: listeners a Gateway with this annotation may have       *)
capacity(w) == MinOf(50, Budget \div workerLimit(w))
validateGateway(count, w) == w \in 0..512 /\ count \in 1..capacity(w)

(* ValidatePool, of an Explicit pool                                       *)
ValidatePool(p) == /\ p.workers \in 0..512 /\ p.occ * workerLimit(p.workers) <= Budget
                   /\ p.occ \in 1..50

(* validateBackendBudget, for backend set i and n destinations; the        *)
(* backends of a set of size n are numbered.                               *)
Total(S) == Cardinality(UNION {{j} \X (1..sets[j]) : j \in S})
validateBackendBudget(i, n) == n <= 512 /\ n + Total(DOMAIN sets \ {i}) <= Budget

CapacityInit ==
    /\ spec \in Specs
    /\ leased = 0 /\ retired = 0 /\ listeners = 0
    /\ pool = [occ |-> 0, workers |-> 0]
    /\ nodes \in Counts /\ pinned = 0 /\ sets = <<>>

-----------------------------------------------------------------------------
(* The allocator reserves one of the shard's slots, or retires a lease; the*)
(* slot stays occupied.                                                    *)
Reserve == /\ Validate(spec) /\ leased < spec.occ /\ leased' = leased + 1
           /\ UNCHANGED <<spec, retired, listeners, pool, nodes, pinned, sets>>
Retire == /\ retired < leased /\ retired' = retired + 1
          /\ UNCHANGED <<spec, leased, listeners, pool, nodes, pinned, sets>>

(* desiredGateway: a listener for every lease in use, or one placeholder.  *)
WriteGateway ==
    /\ Validate(spec) /\ leased > 0
    /\ listeners' = IF leased = retired THEN 1 ELSE leased - retired
    /\ listeners' # listeners
    /\ UNCHANGED <<spec, leased, retired, pool, nodes, pinned, sets>>

(* Mutant: the pool is as large as the Gateway is at the time.             *)
ensurePoolOfListeners ==
    /\ listeners > 0 /\ pool.occ = 0 /\ validateGateway(listeners, spec.workers)
    /\ pool' = [occ |-> listeners, workers |-> spec.workers]
    /\ UNCHANGED <<spec, leased, retired, listeners, nodes, pinned, sets>>

(* The adapter accepts the Gateway and creates its NLBPool.                *)
ensurePool ==
    /\ listeners > 0 /\ pool.occ = 0 /\ validateGateway(listeners, spec.workers)
    /\ pool' = [occ |-> capacity(spec.workers), workers |-> spec.workers]
    /\ UNCHANGED <<spec, leased, retired, listeners, nodes, pinned, sets>>

(* Allocate: one NLB lease for a route that has a lease of the allocator.  *)
AllocatePort ==
    /\ pool.occ > 0 /\ ValidatePool(pool)
    /\ Len(sets) < leased /\ Len(sets) < pool.occ /\ sets' = Append(sets, 0)
    /\ UNCHANGED <<spec, leased, retired, listeners, pool, nodes, pinned>>

(* Nodes come and go.                                                      *)
Observe == /\ nodes' \in Counts \ {nodes}
           /\ UNCHANGED <<spec, leased, retired, listeners, pool, pinned, sets>>

(* Mutant: an inventory of any size is recorded.                           *)
PinWorkersAll ==
    /\ pool.occ > 0 /\ nodes # pinned /\ pinned' = nodes
    /\ UNCHANGED <<spec, leased, retired, listeners, pool, nodes, sets>>

(* clusterWorkers and prepareWorkers: more workers than the limit are not  *)
(* recorded.                                                               *)
PinWorkers ==
    /\ pool.occ > 0 /\ nodes # pinned /\ nodes <= workerLimit(pool.workers)
    /\ pinned' = nodes
    /\ UNCHANGED <<spec, leased, retired, listeners, pool, nodes, sets>>

(* Destinations of one binding: the workers, those recorded that are still *)
(* there while there are too many, or none.                                *)
Desired(n) == n \in {0, pinned} \cup {m \in Counts : m <= pinned /\ nodes # pinned}

(* StepBackends, on one backend set                                        *)
StepBackends(i) ==
    \E n \in Counts \cup {0} :
        /\ Desired(n) /\ n <= workerLimit(pool.workers) /\ validateBackendBudget(i, n)
        /\ sets[i] # n /\ sets' = [sets EXCEPT ![i] = n]
        /\ UNCHANGED <<spec, leased, retired, listeners, pool, nodes, pinned>>

CapacityNext ==
    \/ Reserve \/ Retire \/ WriteGateway \/ ensurePool \/ AllocatePort
    \/ Observe \/ PinWorkers \/ \E i \in DOMAIN sets : StepBackends(i)

CapacitySpec == CapacityInit /\ [][CapacityNext]_capacityVars

-----------------------------------------------------------------------------
(* Properties.                                                             *)

(* What one component makes, the next one accepts: the adapter takes every *)
(* Gateway of a valid GatewayPool, the engine takes the adapter's NLBPool, *)
(* and the NLBPool, whose leases are as permanent, has a port for every    *)
(* route that the allocator has given one.                                 *)
NeverRefused ==
    /\ listeners > 0 => validateGateway(listeners, spec.workers)
    /\ pool.occ > 0 => ValidatePool(pool) /\ leased <= pool.occ

(* The check against 1024 backends never refuses the recorded workers,     *)
(* whichever backend sets still have the workers of an earlier inventory:  *)
(* the BackendCapacityError of validateBackendBudget cannot hold up a pool *)
(* with a valid spec.                                                      *)
BudgetNeverHit == \A i \in DOMAIN sets : validateBackendBudget(i, pinned)

=============================================================================
