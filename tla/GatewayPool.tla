---------------------------- MODULE GatewayPool ----------------------------
(***************************************************************************)
(* The GatewayPool allocator (internalgatewaypool): it leases the UDPRoutes*)
(* annotated with a pool to listeners of Gateways it generates, and points *)
(* the ParentRefs of each route at its listener.  The Gateway adapter, the *)
(* users and the garbage collector are the environment.                    *)
(*                                                                         *)
(* A pass for one pool reads the pool, lists routes and pools, and makes   *)
(* at most one change.  What it has read is in my[r].  A read followed by  *)
(* a conditional write of the same object is one step; a save of the pool  *)
(* is a step of its own, taken after the reads of other objects it uses.   *)
(***************************************************************************)
EXTENDS Integers, FiniteSets

CONSTANTS
    Pools,           \* UIDs of GatewayPools
    PoolName,        \* metadata.name of every pool; a name may be used again
    Routes,          \* UIDs of UDPRoutes, numbered in the order of names
    Services,        \* (Service, port, health port, mode) a route may target
    FirstTarget,     \* the one every route is created with
    Occupancy, MaxGateways, PortStart, MaxWorkers,  \* GatewayPoolSpec
    Replicas,        \* controller processes; leader election picks one
    Plans            \* bounds on what users and the world do in a behaviour

(* A plan bounds a behaviour: the pools and routes that users create, the  *)
(* kinds of disturbance that happen, and how many there are at most.       *)
PlanSet == [pools : SUBSET Pools, routes : SUBSET Routes,
            kinds : SUBSET STRING, left : Nat]

Validate(occupancy, gateways, start, workers) ==
    LET limit == IF workers = 0 THEN 20 ELSE workers
    IN  /\ limit \in 1..512 /\ occupancy * limit <= 1024
        /\ occupancy \in 1..50 /\ gateways \in 1..100
        /\ start >= 1024 /\ start + occupancy - 1 <= 65535

(* Reconcile returns early on a pool that does not validate.               *)
ASSUME GatewayPoolValid ==
    /\ {Occupancy, MaxGateways, PortStart, MaxWorkers} \subseteq Nat
    /\ Validate(Occupancy, MaxGateways, PortStart, MaxWorkers)
    /\ Pools \cup Routes \subseteq Nat \ {0}
    /\ FirstTarget \in [Routes -> Services]
    /\ Replicas # {} /\ Plans \subseteq PlanSet

VARIABLES
    pool,      \* the GatewayPool objects without their allocations
    led,       \* status.allocations of every pool
    route,     \* the UDPRoute objects
    svc,       \* what routeService makes of every Service: uid and ok
    gate,      \* the Gateway of every pool and shard
    archive,   \* the ledger archive of every pool
    leader,    \* the replica that holds the lease
    pc, my,    \* where every replica is in its pass, and what it has read
    stale,     \* replicas whose copy of their pool is out of date
    dirty,     \* <<replica, route>>: listed, and written since
    plan       \* the plan of the behaviour; plan.left disturbances remain

poolVars == <<pool, led, stale>>
routeVars == <<route, dirty>>
ctlVars == <<pc, my>>
vars == <<poolVars, routeVars, svc, gate, archive, leader, ctlVars, plan>>

-----------------------------------------------------------------------------
(* Values.                                                                 *)

Shards == 0 .. MaxGateways - 1
Slots == Shards \X (PortStart .. PortStart + Occupancy - 1)
Names == {PoolName[p] : p \in Pools}

(* spec.parentRefs of a route: empty, one reference to the route's own     *)
(* listener on the Gateway <<pool, shard>>, or anything else.              *)
NoParent == <<>>
OtherParent == <<0, 0>>
Parents == {NoParent, OtherParent} \cup (Pools \X Shards)

Foreign == 0        \* the name of a listener no lease accounts for
NoArchive == [none |-> TRUE]
NoLeases == [u \in {} |-> {}]
Exists(x) == x.st \in {"live", "deleting"}
Deleted(x) == [x EXCEPT !.st = IF x.fin THEN "deleting" ELSE "gone"]

NewPool == [st |-> "none", fin |-> FALSE, frozen |-> FALSE, drift |-> FALSE,
            gws |-> [k \in Shards |-> 0], rejected |-> {}]
Unborn == [u \in Routes |-> [st |-> "unborn", fin |-> FALSE, ann |-> "none",
                             parent |-> NoParent,
                             svc |-> FirstTarget[u]]]
Blank == [p |-> 0, obj |-> NewPool, a |-> NoLeases, rts |-> Unborn,
          others |-> {}, todo |-> {}, rej |-> {}]

Init ==
    /\ pool = [p \in Pools |-> NewPool]
    /\ led = [p \in Pools |-> NoLeases]
    /\ route = Unborn
    /\ svc = [s \in Services |-> [uid |-> 1, ok |-> TRUE]]
    /\ gate = [p \in Pools |-> [k \in Shards |->
                  [st |-> "none", uid |-> 0, lst |-> {}]]]
    /\ archive = [p \in Pools |-> NoArchive]
    /\ leader = CHOOSE r \in Replicas : TRUE
    /\ pc = [r \in Replicas |-> "idle"]
    /\ my = [r \in Replicas |-> Blank]
    /\ stale = {} /\ dirty = {}
    /\ plan \in Plans

-----------------------------------------------------------------------------
(* The ledger.  A lease is [svc, shard, port, tomb, attached]; svc stands  *)
(* for the Service UID, its ports and the backend mode.                    *)

(* Mutant: retired endpoints are handed out again.                         *)
OccupiedByActive(A) ==
    {<<A[u].shard, A[u].port>> : u \in {v \in DOMAIN A : ~A[v].tomb}}

Occupied(A) == {<<A[u].shard, A[u].port>> : u \in DOMAIN A}
ServicePortTaken(A, s) == \E u \in DOMAIN A : ~A[u].tomb /\ A[u].svc = s
Before(s, t) == s[1] < t[1] \/ (s[1] = t[1] /\ s[2] <= t[2])

(* reserve succeeds for a route without a lease with the first free slot;  *)
(* every other case is one of its errors.                                  *)
reserve(A, s, slot) ==
    /\ ~ServicePortTaken(A, s)
    /\ slot \in Slots \ Occupied(A)
    /\ \A t \in Slots \ Occupied(A) : Before(slot, t)

NewLease(s, slot) == [svc |-> s, shard |-> slot[1], port |-> slot[2],
                      tomb |-> FALSE, attached |-> FALSE]
WithLease(A, u, l) == [v \in DOMAIN A \cup {u} |-> IF v = u THEN l ELSE A[v]]

matchesParent(t, p, a) == t.parent = <<p, a.shard>>

(* Listeners of the Gateway of shard k, as <<owner, port>>.                *)
LeasesOn(A, k) == {u \in DOMAIN A : A[u].shard = k}
Listeners(A, U) == {<<u, A[u].port>> : u \in U}

(* The active leases, or one inert placeholder when all are retired.       *)
desiredGateway(A, k) ==
    LET active == {u \in LeasesOn(A, k) : ~A[u].tomb}
    IN  IF active # {} THEN Listeners(A, active)
        ELSE Listeners(A, {u \in LeasesOn(A, k) :
                              \A v \in LeasesOn(A, k) : A[u].port <= A[v].port})

(* Mutant: any listener may be overwritten.                                *)
compatibleGatewayAny(A, k, lst) == TRUE

(* Whatever is there belongs to a lease, active or retired.                *)
compatibleGateway(A, k, lst) == lst \subseteq Listeners(A, LeasesOn(A, k))

-----------------------------------------------------------------------------
(* How a pass reads and writes.                                            *)

(* Something that may go wrong, if the plan has it.                        *)
Disturb(kind) == /\ kind \in plan.kinds /\ plan.left > 0
                 /\ plan' = [plan EXCEPT !.left = @ - 1]

Goto(r, label) == pc' = [pc EXCEPT ![r] = label]
EndPass(r) == Goto(r, "idle") /\ my' = [my EXCEPT ![r] = Blank]

(* Any write to a pool outdates the copies of it.                          *)
WritePool(p, obj, A) ==
    /\ pool' = [pool EXCEPT ![p] = obj]
    /\ led' = [led EXCEPT ![p] = A]
    /\ stale' = stale \cup {q \in Replicas : my[q].p = p}

WriteRoute(u, t) ==
    /\ route' = [route EXCEPT ![u] = t]
    /\ dirty' = dirty \cup ({q \in Replicas : my[q].p # 0} \X {u})

(* Mutant: the status is written without a check for conflicts.            *)
saveUnchecked(r) ==
    LET m == my[r]
    IN  /\ pc[r] = "save"
        /\ WritePool(m.p, [pool[m.p] EXCEPT !.gws = m.obj.gws, !.rejected = m.rej],
                     m.a)
        /\ EndPass(r)
        /\ UNCHANGED <<routeVars, svc, gate, archive, leader, plan>>

(* save: Status().Update of the copy, refused on a conflict.  Every caller *)
(* returns, whatever the outcome.                                          *)
save(r) ==
    LET m == my[r]
    IN  /\ pc[r] = "save"
        /\ IF r \in stale THEN UNCHANGED poolVars
           ELSE WritePool(m.p, [m.obj EXCEPT !.rejected = m.rej], m.a)
        /\ EndPass(r)
        /\ UNCHANGED <<routeVars, svc, gate, archive, leader, plan>>

(* The save a pass ends with: ledger A and the rejections R.               *)
ToSave(r, A, R) == /\ my' = [my EXCEPT ![r].a = A, ![r].rej = R]
                   /\ Goto(r, "save")

-----------------------------------------------------------------------------
(* A pass: the part before the loop over the routes.                       *)

Due(r, p) == /\ r = leader /\ pc[r] = "idle" /\ Exists(pool[p])
             /\ ~(pool[p].frozen /\ pool[p].drift)

AddPoolFinalizer(r, p) ==
    /\ Due(r, p) /\ pool[p].st = "live" /\ ~pool[p].fin
    /\ WritePool(p, [pool[p] EXCEPT !.fin = TRUE], led[p])
    /\ UNCHANGED <<routeVars, svc, gate, archive, leader, ctlVars, plan>>

FreezeSpec(r, p) ==
    /\ Due(r, p) /\ pool[p].st = "live" /\ pool[p].fin /\ ~pool[p].frozen
    /\ WritePool(p, [pool[p] EXCEPT !.frozen = TRUE, !.rejected = {}], led[p])
    /\ UNCHANGED <<routeVars, svc, gate, archive, leader, ctlVars, plan>>

(* Get of a pool that is live, or of one that cleanup has to finish.       *)
StartPass(r, p) ==
    /\ Due(r, p) /\ pool[p].fin
    /\ \/ pool[p].st = "live" /\ pool[p].frozen /\ Goto(r, "routes")
       \/ pool[p].st = "deleting" /\ Goto(r, "archive")
    /\ my' = [my EXCEPT ![r].p = p, ![r].obj = pool[p], ![r].a = led[p]]
    /\ stale' = stale \ {r}
    /\ UNCHANGED <<pool, led, routeVars, svc, gate, archive, leader, plan>>

ListRoutes(r) ==
    /\ pc[r] = "routes" /\ Goto(r, "pools")
    /\ my' = [my EXCEPT ![r].rts = route]
    /\ dirty' = dirty \ ({r} \X Routes)
    /\ UNCHANGED <<poolVars, route, svc, gate, archive, leader, plan>>

(* Leases of routes that were not listed.                                  *)
Vanished(m) == {u \in DOMAIN m.a : ~Exists(m.rts[u]) /\ ~m.a[u].tomb}

Relevant(m, u) == /\ m.rts[u].st = "live"
                  /\ m.rts[u].ann = PoolName[m.p] \/ u \in DOMAIN m.a

(* Mutant: other pools are not looked at.                                  *)
ProblemIgnoresOthers(m, u) ==
    LET t == m.rts[u]
        has == u \in DOMAIN m.a
    IN  CASE t.parent # NoParent /\ (has => ~matchesParent(t, m.p, m.a[u])) ->
                "parent"
          [] has /\ m.a[u].attached /\ t.parent = NoParent -> "detached"
          [] OTHER -> IF t.ann # PoolName[m.p] THEN "annotation" ELSE ""

(* The reason to reject a route that needs no look at its Service; of      *)
(* several the code keeps the last.                                        *)
Problem(m, u) ==
    LET t == m.rts[u]
        has == u \in DOMAIN m.a
    IN  CASE t.parent # NoParent /\ (has => ~matchesParent(t, m.p, m.a[u])) ->
                "parent"
          [] ~has /\ u \in m.others /\ t.parent = NoParent -> "leased"
          [] has /\ m.a[u].attached /\ t.parent = NoParent -> "detached"
          [] OTHER -> IF has /\ m.a[u].tomb THEN "retired"
                      ELSE IF t.ann # PoolName[m.p] THEN "annotation" ELSE ""

(* Mutant: earlier rejections are carried over.                            *)
ListPoolsCarries(r) ==
    LET others == UNION {DOMAIN led[q] :
                            q \in {p \in Pools : Exists(pool[p])} \ {my[r].p}}
        m == [my[r] EXCEPT !.others = others]
        mine == {u \in Routes : Relevant(m, u)}
    IN  /\ pc[r] = "pools"
        /\ IF Vanished(m) # {} THEN Goto(r, "retire") /\ my' = [my EXCEPT ![r] = m]
           ELSE /\ Goto(r, "scan")
                /\ my' = [my EXCEPT ![r] = [m EXCEPT
                     !.todo = {u \in mine : Problem(m, u) = ""},
                     !.rej = m.obj.rejected \cup {<<u, Problem(m, u)>> :
                                 u \in {v \in mine : Problem(m, v) # ""}}]]
        /\ UNCHANGED <<poolVars, routeVars, svc, gate, archive, leader, plan>>

ListPools(r) ==
    LET others == UNION {DOMAIN led[q] :
                            q \in {p \in Pools : Exists(pool[p])} \ {my[r].p}}
        m == [my[r] EXCEPT !.others = others]
        mine == {u \in Routes : Relevant(m, u)}
    IN  /\ pc[r] = "pools"
        /\ IF Vanished(m) # {} THEN Goto(r, "retire") /\ my' = [my EXCEPT ![r] = m]
           ELSE /\ Goto(r, "scan")
                /\ my' = [my EXCEPT ![r] = [m EXCEPT
                     !.todo = {u \in mine : Problem(m, u) = ""},
                     !.rej = {<<u, Problem(m, u)>> :
                                 u \in {v \in mine : Problem(m, v) # ""}}]]
        /\ UNCHANGED <<poolVars, routeVars, svc, gate, archive, leader, plan>>

RetireLease(r) ==
    /\ pc[r] = "retire"
    /\ \E u \in Vanished(my[r]) :
          ToSave(r, [my[r].a EXCEPT ![u].tomb = TRUE], my[r].obj.rejected)
    /\ UNCHANGED <<poolVars, routeVars, svc, gate, archive, leader, plan>>

-----------------------------------------------------------------------------
(* The loop over the routes: those that pass Problem have their Service    *)
(* read, in the order of names.  A save in the middle of the loop stores   *)
(* only the rejections found so far.                                       *)

Turn(r, u) == /\ pc[r] = "scan"
              /\ u \in my[r].todo /\ \A v \in my[r].todo : u <= v
Target(r, u) == <<my[r].rts[u].svc, svc[my[r].rts[u].svc].uid>>
Usable(r, u) == svc[my[r].rts[u].svc].ok
SoFar(r, u) == {x \in my[r].rej : x[1] < u}

NextRoute(r, u, why) ==
    my' = [my EXCEPT ![r].todo = @ \ {u},
                     ![r].rej = IF why = "" THEN @ ELSE @ \cup {<<u, why>>}]

(* An invalid or missing Service, a lease with another target, or nothing  *)
(* to do for this route.                                                   *)
KeepRoute(r, u) ==
    LET has == u \in DOMAIN my[r].a
        same == my[r].a[u].svc = Target(r, u)
        unrecorded == /\ matchesParent(my[r].rts[u], my[r].p, my[r].a[u])
                      /\ ~my[r].a[u].attached
    IN  /\ Turn(r, u)
        /\ \/ ~Usable(r, u) /\ NextRoute(r, u, "service")
           \/ Usable(r, u) /\ has /\ ~same /\ NextRoute(r, u, "target")
           \/ Usable(r, u) /\ has /\ same /\ ~unrecorded /\ NextRoute(r, u, "")
        /\ UNCHANGED <<poolVars, routeVars, svc, gate, archive, leader, pc, plan>>

RecordAttached(r, u) ==
    /\ Turn(r, u) /\ Usable(r, u)
    /\ u \in DOMAIN my[r].a /\ my[r].a[u].svc = Target(r, u)
    /\ matchesParent(my[r].rts[u], my[r].p, my[r].a[u]) /\ ~my[r].a[u].attached
    /\ ToSave(r, [my[r].a EXCEPT ![u].attached = TRUE], SoFar(r, u))
    /\ UNCHANGED <<poolVars, routeVars, svc, gate, archive, leader, plan>>

Reserve(r, u) ==
    /\ Turn(r, u) /\ Usable(r, u) /\ u \notin DOMAIN my[r].a
    /\ \E slot \in Slots :
          /\ reserve(my[r].a, Target(r, u), slot)
          /\ ToSave(r, WithLease(my[r].a, u, NewLease(Target(r, u), slot)),
                    SoFar(r, u))
    /\ UNCHANGED <<poolVars, routeVars, svc, gate, archive, leader, plan>>

ReserveRefused(r, u) ==
    /\ Turn(r, u) /\ Usable(r, u) /\ u \notin DOMAIN my[r].a
    /\ ~ \E slot \in Slots : reserve(my[r].a, Target(r, u), slot)
    /\ NextRoute(r, u, "reserve")
    /\ UNCHANGED <<poolVars, routeVars, svc, gate, archive, leader, pc, plan>>

EndScan(r) ==
    /\ pc[r] = "scan" /\ my[r].todo = {} /\ Goto(r, "gateways")
    /\ my' = [my EXCEPT ![r].todo = {my[r].a[u].shard : u \in DOMAIN my[r].a}]
    /\ UNCHANGED <<poolVars, routeVars, svc, gate, archive, leader, plan>>

-----------------------------------------------------------------------------
(* The loop over the Gateways of the leases.                               *)

AtGateway(r, k) == /\ pc[r] = "gateways"
                   /\ k \in my[r].todo /\ \A j \in my[r].todo : k <= j
Gateway(r, k) == gate[my[r].p][k]
Recorded(r, k) == my[r].obj.gws[k]

(* ownedGateway: the UID is the recorded one, if one is recorded.          *)
ownedGateway(r, k) == Recorded(r, k) \in {0, Gateway(r, k).uid}

Sound(r, k) == /\ Gateway(r, k).st = "live" /\ ownedGateway(r, k)
               /\ compatibleGateway(my[r].a, k, Gateway(r, k).lst)

(* Mutant: a recorded Gateway that is missing is created again.            *)
CreateGatewayAgain(r, k) ==
    /\ AtGateway(r, k) /\ Gateway(r, k).st = "none"
    /\ gate' = [gate EXCEPT ![my[r].p][k] =
                   [st |-> "live", uid |-> @.uid + 1,
                    lst |-> desiredGateway(my[r].a, k)]]
    /\ EndPass(r)
    /\ UNCHANGED <<poolVars, routeVars, svc, archive, leader, plan>>

CreateGateway(r, k) ==
    /\ AtGateway(r, k) /\ Gateway(r, k).st = "none" /\ Recorded(r, k) = 0
    /\ gate' = [gate EXCEPT ![my[r].p][k] =
                   [st |-> "live", uid |-> @.uid + 1,
                    lst |-> desiredGateway(my[r].a, k)]]
    /\ EndPass(r)
    /\ UNCHANGED <<poolVars, routeVars, svc, archive, leader, plan>>

(* A recorded Gateway is missing or has another UID, or the one found is   *)
(* terminating or was retargeted: the pass fails.                          *)
GatewayRefused(r, k) ==
    /\ AtGateway(r, k) /\ ~Sound(r, k)
    /\ Gateway(r, k).st = "none" => Recorded(r, k) # 0
    /\ EndPass(r)
    /\ UNCHANGED <<poolVars, routeVars, svc, gate, archive, leader, plan>>

RecordGateway(r, k) ==
    /\ AtGateway(r, k) /\ Sound(r, k) /\ Recorded(r, k) = 0
    /\ my' = [my EXCEPT ![r].obj.gws[k] = Gateway(r, k).uid]
    /\ Goto(r, "save")
    /\ UNCHANGED <<poolVars, routeVars, svc, gate, archive, leader, plan>>

UpdateGateway(r, k) ==
    /\ AtGateway(r, k) /\ Sound(r, k) /\ Recorded(r, k) # 0
    /\ Gateway(r, k).lst # desiredGateway(my[r].a, k)
    /\ gate' = [gate EXCEPT ![my[r].p][k].lst = desiredGateway(my[r].a, k)]
    /\ EndPass(r)
    /\ UNCHANGED <<poolVars, routeVars, svc, archive, leader, plan>>

NextGateway(r, k) ==
    /\ AtGateway(r, k) /\ Sound(r, k) /\ Recorded(r, k) # 0
    /\ Gateway(r, k).lst = desiredGateway(my[r].a, k)
    /\ my' = [my EXCEPT ![r].todo = @ \ {k}]
    /\ UNCHANGED <<poolVars, routeVars, svc, gate, archive, leader, pc, plan>>

-----------------------------------------------------------------------------
(* Attachment, and the end of a pass that had nothing to change.           *)

Unattached(m) ==
    {u \in DOMAIN m.a : /\ ~m.a[u].tomb /\ m.rts[u].st = "live"
                        /\ m.rts[u].parent = NoParent
                        /\ \A x \in m.rej : x[1] # u}

AtAttach(r) == pc[r] = "gateways" /\ my[r].todo = {}

(* Update of the route as it was listed; refused if it changed since.      *)
AttachRoute(r, u) ==
    /\ AtAttach(r) /\ u \in Unattached(my[r])
    /\ IF <<r, u>> \in dirty THEN UNCHANGED routeVars
       ELSE WriteRoute(u, [my[r].rts[u] EXCEPT
                              !.parent = <<my[r].p, my[r].a[u].shard>>,
                              !.fin = TRUE])
    /\ EndPass(r)
    /\ UNCHANGED <<poolVars, svc, gate, archive, leader, plan>>

FinishPass(r) ==
    /\ AtAttach(r) /\ Unattached(my[r]) = {}
    /\ IF my[r].rej = my[r].obj.rejected THEN EndPass(r)
       ELSE Goto(r, "save") /\ UNCHANGED my
    /\ UNCHANGED <<poolVars, routeVars, svc, gate, archive, leader, plan>>

-----------------------------------------------------------------------------
(* cleanup of a pool that is being deleted.                                *)

(* Mutant: the archive does not name the Gateways.                         *)
LedgerWithoutGateways(m) ==
    [a |-> m.a, gws |-> NewPool.gws, rejected |-> m.obj.rejected]

Ledger(m) == [a |-> m.a, gws |-> m.obj.gws, rejected |-> m.obj.rejected]

CreateArchive(r) ==
    /\ pc[r] = "archive" /\ archive[my[r].p] = NoArchive
    /\ archive' = [archive EXCEPT ![my[r].p] = Ledger(my[r])]
    /\ EndPass(r)
    /\ UNCHANGED <<poolVars, routeVars, svc, gate, leader, plan>>

(* Mutant: only recorded Gateways are deleted.                             *)
CompareArchiveRecorded(r) ==
    /\ pc[r] = "archive" /\ archive[my[r].p] # NoArchive
    /\ IF archive[my[r].p] # Ledger(my[r]) THEN EndPass(r)
       ELSE /\ Goto(r, "delete")
            /\ my' = [my EXCEPT ![r].todo = {k \in Shards : my[r].obj.gws[k] # 0}]
    /\ UNCHANGED <<poolVars, routeVars, svc, gate, archive, leader, plan>>

(* An archive with anything but this ledger stops the cleanup.             *)
CompareArchive(r) ==
    /\ pc[r] = "archive" /\ archive[my[r].p] # NoArchive
    /\ IF archive[my[r].p] # Ledger(my[r]) THEN EndPass(r)
       ELSE /\ Goto(r, "delete")
            /\ my' = [my EXCEPT ![r].todo =
                  {k \in Shards : my[r].obj.gws[k] # 0}
                     \cup {my[r].a[u].shard : u \in DOMAIN my[r].a}]
    /\ UNCHANGED <<poolVars, routeVars, svc, gate, archive, leader, plan>>

(* Mutant: leaves the Gateways to the garbage collector.                   *)
DeleteGatewayWaits(r, k) ==
    /\ pc[r] = "delete" /\ k \in my[r].todo
    /\ IF Gateway(r, k).st = "none"
       THEN my' = [my EXCEPT ![r].todo = @ \ {k}] /\ UNCHANGED pc
       ELSE EndPass(r)
    /\ UNCHANGED <<poolVars, routeVars, svc, gate, archive, leader, plan>>

(* The names are in a map: any order.  A Gateway that is there is deleted, *)
(* or waited for, and the pass ends.                                       *)
DeleteGateway(r, k) ==
    /\ pc[r] = "delete" /\ k \in my[r].todo
    /\ IF Gateway(r, k).st = "none"
       THEN my' = [my EXCEPT ![r].todo = @ \ {k}] /\ UNCHANGED <<pc, gate>>
       ELSE /\ gate' = IF ownedGateway(r, k)
                       THEN [gate EXCEPT ![my[r].p][k].st = "deleting"]
                       ELSE gate
            /\ EndPass(r)
    /\ UNCHANGED <<poolVars, routeVars, svc, archive, leader, plan>>

ReleasePool(r) ==
    /\ pc[r] = "delete" /\ my[r].todo = {}
    /\ IF r \in stale THEN UNCHANGED poolVars
       ELSE WritePool(my[r].p, [my[r].obj EXCEPT !.st = "gone", !.fin = FALSE],
                      my[r].a)
    /\ EndPass(r)
    /\ UNCHANGED <<routeVars, svc, gate, archive, leader, plan>>

(* A crash, a lost reply or a failed call ends a pass anywhere.            *)
Abort(r) ==
    /\ Disturb("abort") /\ pc[r] # "idle" /\ EndPass(r)
    /\ UNCHANGED <<poolVars, routeVars, svc, gate, archive, leader>>

-----------------------------------------------------------------------------
(* The environment.                                                        *)

CreatePool(p) ==
    /\ p \in plan.pools /\ pool[p].st = "none"
    /\ \A q \in Pools : PoolName[q] = PoolName[p] => ~Exists(pool[q])
    /\ WritePool(p, [pool[p] EXCEPT !.st = "live"], led[p])
    /\ UNCHANGED <<routeVars, svc, gate, archive, leader, ctlVars, plan>>

DeletePool(p) ==
    /\ "deletePool" \in plan.kinds /\ pool[p].st = "live"
    /\ WritePool(p, Deleted(pool[p]), led[p])
    /\ UNCHANGED <<routeVars, svc, gate, archive, leader, ctlVars, plan>>

(* An edit of the frozen spec, or its reversal.                            *)
EditSpec(p) ==
    /\ Disturb("spec") /\ Exists(pool[p]) /\ pool[p].frozen
    /\ WritePool(p, [pool[p] EXCEPT !.drift = ~@], led[p])
    /\ UNCHANGED <<routeVars, svc, gate, archive, leader, ctlVars>>

(* The annotations that name a pool of the plan.                           *)
PlanNames == {PoolName[p] : p \in plan.pools}

CreateRoute(u) ==
    /\ u \in plan.routes /\ route[u].st = "unborn"
    /\ \E n \in PlanNames :
          WriteRoute(u, [route[u] EXCEPT !.st = "live", !.ann = n])
    /\ UNCHANGED <<poolVars, svc, gate, archive, leader, ctlVars, plan>>

DeleteRoute(u) ==
    /\ "delete" \in plan.kinds /\ route[u].st = "live"
    /\ WriteRoute(u, Deleted(route[u]))
    /\ UNCHANGED <<poolVars, svc, gate, archive, leader, ctlVars, plan>>

Reannotate(u) ==
    /\ Disturb("annotate") /\ route[u].st = "live"
    /\ \E n \in (PlanNames \cup {"none"}) \ {route[u].ann} :
          WriteRoute(u, [route[u] EXCEPT !.ann = n])
    /\ UNCHANGED <<poolVars, svc, gate, archive, leader, ctlVars>>

Retarget(u) ==
    /\ Disturb("retarget") /\ route[u].st = "live"
    /\ \E s \in Services \ {route[u].svc} :
          WriteRoute(u, [route[u] EXCEPT !.svc = s])
    /\ UNCHANGED <<poolVars, svc, gate, archive, leader, ctlVars>>

(* A user empties, replaces or restores the ParentRefs.                    *)
EditParent(u) ==
    /\ Disturb("parent") /\ route[u].st = "live"
    /\ \E x \in {NoParent, OtherParent}
                 \cup {<<p, led[p][u].shard>> : p \in {q \in Pools : u \in DOMAIN led[q]}} :
          x # route[u].parent /\ WriteRoute(u, [route[u] EXCEPT !.parent = x])
    /\ UNCHANGED <<poolVars, svc, gate, archive, leader, ctlVars>>

ServiceEvent(s) ==
    /\ \E u \in plan.routes : s = route[u].svc
    /\ \/ Disturb("invalid") /\ svc' = [svc EXCEPT ![s].ok = ~@]
       \/ Disturb("recreate") /\ svc' = [svc EXCEPT ![s].uid = @ + 1]
    /\ UNCHANGED <<poolVars, routeVars, gate, archive, leader, ctlVars>>

(* A user deletes a Gateway, or removes or adds a listener of one; at      *)
(* least one listener stays.                                               *)
GatewayEvent(p, k) ==
    /\ gate[p][k].st = "live"
    /\ \/ Disturb("deleteGateway")
          /\ gate' = [gate EXCEPT ![p][k].st = "deleting"]
       \/ Disturb("dropListener")
          /\ \E l \in gate[p][k].lst :
                /\ gate[p][k].lst # {l}
                /\ gate' = [gate EXCEPT ![p][k].lst = @ \ {l}]
       \/ Disturb("foreign")
          /\ gate' = [gate EXCEPT ![p][k].lst = @ \cup {<<Foreign, PortStart>>}]
    /\ UNCHANGED <<poolVars, routeVars, svc, archive, leader, ctlVars>>

(* A Gateway restored from a backup: same name and labels, another UID.    *)
RestoreGateway(p, k) ==
    /\ Disturb("restore") /\ gate[p][k].st = "none" /\ gate[p][k].lst # {}
    /\ gate' = [gate EXCEPT ![p][k].st = "live", ![p][k].uid = @ + 1]
    /\ UNCHANGED <<poolVars, routeVars, svc, archive, leader, ctlVars>>

(* The garbage collector, when the owner is gone or in a foreground        *)
(* deletion.                                                               *)
CollectGateway(p, k) ==
    /\ pool[p].st \in {"deleting", "gone"} /\ gate[p][k].st = "live"
    /\ gate' = [gate EXCEPT ![p][k].st = "deleting"]
    /\ UNCHANGED <<poolVars, routeVars, svc, archive, leader, ctlVars, plan>>

(* The Gateway adapter retires a Gateway and lets go of its finalizer.     *)
FinishGateway(p, k) ==
    /\ gate[p][k].st = "deleting"
    /\ gate' = [gate EXCEPT ![p][k].st = "none"]
    /\ UNCHANGED <<poolVars, routeVars, svc, archive, leader, ctlVars, plan>>

(* The adapter lets a deleted route go.                                    *)
ReleaseRoute(u) ==
    /\ route[u].st = "deleting"
    /\ WriteRoute(u, [route[u] EXCEPT !.st = "gone", !.fin = FALSE])
    /\ UNCHANGED <<poolVars, svc, gate, archive, leader, ctlVars, plan>>

(* It puts its finalizer on an accepted route, and lets a detached one go. *)
AdapterHold(u) ==
    /\ "adapter" \in plan.kinds /\ route[u].st = "live"
    /\ route[u].fin # (route[u].parent \in Pools \X Shards)
    /\ WriteRoute(u, [route[u] EXCEPT !.fin = ~@])
    /\ UNCHANGED <<poolVars, svc, gate, archive, leader, ctlVars, plan>>

(* Another replica takes over; the deposed one may finish its pass.        *)
ChangeLeader(r) ==
    /\ Disturb("leader") /\ r # leader /\ leader' = r
    /\ UNCHANGED <<poolVars, routeVars, svc, gate, archive, ctlVars>>

-----------------------------------------------------------------------------
Begin(r, p) == AddPoolFinalizer(r, p) \/ FreezeSpec(r, p) \/ StartPass(r, p)

Continue(r) ==
    \/ save(r) \/ ListRoutes(r) \/ ListPools(r) \/ RetireLease(r)
    \/ \E u \in Routes : \/ KeepRoute(r, u) \/ RecordAttached(r, u)
                         \/ Reserve(r, u) \/ ReserveRefused(r, u)
                         \/ AttachRoute(r, u)
    \/ EndScan(r)
    \/ \E k \in Shards : \/ CreateGateway(r, k) \/ GatewayRefused(r, k)
                         \/ RecordGateway(r, k) \/ UpdateGateway(r, k)
                         \/ NextGateway(r, k) \/ DeleteGateway(r, k)
    \/ FinishPass(r)
    \/ CreateArchive(r) \/ CompareArchive(r) \/ ReleasePool(r)

Next ==
    \/ \E r \in Replicas : \/ \E p \in Pools : Begin(r, p)
                           \/ Continue(r) \/ Abort(r) \/ ChangeLeader(r)
    \/ \E p \in Pools : \/ CreatePool(p) \/ DeletePool(p) \/ EditSpec(p)
                        \/ \E k \in Shards : \/ GatewayEvent(p, k)
                                             \/ RestoreGateway(p, k)
                                             \/ CollectGateway(p, k)
                                             \/ FinishGateway(p, k)
    \/ \E u \in Routes : \/ CreateRoute(u) \/ DeleteRoute(u) \/ Reannotate(u)
                         \/ Retarget(u) \/ EditParent(u) \/ AdapterHold(u)
                         \/ ReleaseRoute(u)
    \/ \E s \in Services : ServiceEvent(s)

Spec == Init /\ [][Next]_vars

(* Every return but the last of cleanup asks for another pass, the work    *)
(* queue serves the pools in turn, the adapter finishes deletions, and the *)
(* garbage collector removes what has lost its owner.                      *)
FairSpec == /\ Spec
            /\ \A r \in Replicas : /\ WF_vars(Continue(r))
                                   /\ \A p \in Pools : SF_vars(Begin(r, p))
            /\ \A u \in Routes : WF_vars(ReleaseRoute(u))
            /\ \A p \in Pools, k \in Shards :
                  /\ WF_vars(FinishGateway(p, k))
                  /\ WF_vars(pool[p].st = "gone" /\ CollectGateway(p, k))

-----------------------------------------------------------------------------
(* Properties.                                                             *)

(* No two routes of a pool are ever given the same port of the same        *)
(* Gateway, retired leases included, whatever leaders overlap (reserve).   *)
LeaseUnique ==
    \A p \in Pools : \A u, v \in DOMAIN led[p] :
        u # v => <<led[p][u].shard, led[p][u].port>>
                    # <<led[p][v].shard, led[p][v].port>>

(* Two active leases of a pool never forward to one Service port (reserve).*)
ServicePortExclusive ==
    \A p \in Pools : \A u, v \in DOMAIN led[p] :
        u # v /\ ~led[p][u].tomb /\ ~led[p][v].tomb
           => led[p][u].svc # led[p][v].svc

(* "durable BEFORE any Gateway or ParentRef mutation": what a Gateway      *)
(* listens on, and the listener a route points at, is in the saved ledger. *)
DurableFirst ==
    /\ \A p \in Pools, k \in Shards : gate[p][k].st # "none" =>
          \A l \in gate[p][k].lst : l[1] # Foreign =>
             /\ l[1] \in DOMAIN led[p]
             /\ led[p][l[1]].shard = k /\ led[p][l[1]].port = l[2]
    /\ \A u \in Routes, p \in Pools, k \in Shards :
          route[u].parent = <<p, k>> => u \in DOMAIN led[p] /\ led[p][u].shard = k

(* One leader at a time: a route has leases in two pools at no time, since *)
(* a pass looks at the ledgers of the other pools before it reserves.      *)
OnePoolPerRoute ==
    "leader" \notin plan.kinds =>
    \A p, q \in Pools :
        p # q /\ Exists(pool[p]) /\ Exists(pool[q])
           => DOMAIN led[p] \cap DOMAIN led[q] = {}

(* When a pool is gone its archive holds exactly its last ledger, so no    *)
(* lease was granted or retired between the archive and the end (cleanup). *)
ArchiveFaithful ==
    \A p \in Pools : pool[p].st = "gone" /\ pool[p].frozen =>
        archive[p] = [a |-> led[p], gws |-> pool[p].gws,
                      rejected |-> pool[p].rejected]

(* One leader at a time, and no Gateway restored from a backup: a pool is  *)
(* not released while a Gateway of it is left, recorded or not (cleanup    *)
(* takes the names from both maps).                                        *)
PoolOutlivesGateways ==
    plan.kinds \cap {"leader", "restore"} = {} =>
    \A p \in Pools, k \in Shards :
        pool[p].st = "gone" => gate[p][k].st = "none"

(* A lease keeps its Service, Gateway and port, and a tombstone stays.     *)
LeasePermanent ==
    [][\A p \in Pools : \A u \in DOMAIN led[p] :
          /\ u \in DOMAIN led'[p]
          /\ [led'[p][u] EXCEPT !.tomb = FALSE, !.attached = FALSE]
                = [led[p][u] EXCEPT !.tomb = FALSE, !.attached = FALSE]
          /\ led[p][u].tomb => led'[p][u].tomb]_vars

(* A pass that updates a Gateway never takes away the listener of a route  *)
(* that still exists, even when a deposed leader works from an old ledger: *)
(* compatibleGateway refuses what that ledger does not know.               *)
ListenerKept ==
    [][my' # my => \A p \in Pools, k \in Shards :
          gate[p][k].st = "live" /\ gate'[p][k].st = "live" =>
             \A l \in gate[p][k].lst \ gate'[p][k].lst : ~Exists(route[l[1]])]_vars

(* One leader at a time: a pass never attaches a route whose attachment is *)
(* on record ("refusing silent reattachment"), and never creates a Gateway *)
(* for a shard whose Gateway is on record ("refusing silent VIP            *)
(* replacement"): what a user took away stays away.                        *)
NoSilentRepair ==
    [][my' # my /\ "leader" \notin plan.kinds =>
          \A p \in Pools :
             /\ \A u \in DOMAIN led[p] :
                   /\ route[u].parent = NoParent
                   /\ route'[u].parent = <<p, led[p][u].shard>>
                   => ~led[p][u].attached
             /\ \A k \in Shards :
                   gate[p][k].st = "none" /\ gate'[p][k].st = "live"
                   => pool[p].gws[k] = 0]_vars

(* Leases of all pools as one ledger of what LeaseLedger promises.         *)
Owners == Pools \X Routes
PoolSlots == Pools \X Slots
Granted == {x \in Owners : x[2] \in DOMAIN led[x[1]]}
LL == INSTANCE LeaseLedger WITH
        Slots <- PoolSlots,
        lease <- [x \in Granted |-> <<x[1], <<led[x[1]][x[2]].shard,
                                              led[x[1]][x[2]].port>>>>],
        retired <- {x \in Granted : led[x[1]][x[2]].tomb}

(* The allocator keeps the promise of LeaseLedger for every pool at once.  *)
ImplementsLedger == LL!LedgerSpec

(* What a pass would make of route u now, given the saved ledger of p.     *)
Now(p) == [Blank EXCEPT !.p = p, !.a = led[p], !.rts = route,
             !.others = UNION {DOMAIN led[q] :
                            q \in {x \in Pools : Exists(pool[x])} \ {p}}]
Verdict(p, u) ==
    LET t == route[u]
        target == <<t.svc, svc[t.svc].uid>>
    IN  IF Problem(Now(p), u) # "" THEN Problem(Now(p), u)
        ELSE IF ~svc[t.svc].ok THEN "service"
        ELSE IF u \in DOMAIN led[p]
             THEN IF led[p][u].svc # target THEN "target" ELSE ""
        ELSE IF ~ \E slot \in Slots : reserve(led[p], target, slot)
             THEN "reserve" ELSE ""

(* Every Gateway on record is the one found, and nobody tampered with it.  *)
Healthy(p) ==
    /\ pool[p].st = "live" /\ ~pool[p].drift
    /\ \A k \in Shards : LeasesOn(led[p], k) # {} =>
          /\ gate[p][k].st = "live" \/ (gate[p][k].st = "none" /\ pool[p].gws[k] = 0)
          /\ pool[p].gws[k] \in {0, gate[p][k].uid}
          /\ \A l \in gate[p][k].lst : l[1] # Foreign

Attached(p, u) ==
    /\ u \in DOMAIN led[p] /\ led[p][u].attached
    /\ matchesParent(route[u], p, led[p][u])
    /\ <<u, led[p][u].port>> \in gate[p][led[p][u].shard].lst

(* When users leave things alone, a pool with sound Gateways ends up with  *)
(* every route either attached to its listener or rejected, the status     *)
(* gives exactly the current reasons, and vanished routes are retired.     *)
EventuallySettled ==
    <>[](\A p \in Pools : Healthy(p) =>
           LET mine == {u \in Routes : Relevant(Now(p), u)}
           IN  /\ pool[p].rejected = {<<u, Verdict(p, u)>> :
                                u \in {v \in mine : Verdict(p, v) # ""}}
               /\ \A u \in mine : Verdict(p, u) = "" => Attached(p, u)
               /\ Vanished(Now(p)) = {})

(* A Gateway stands in the place of the one on record of a pool that is    *)
(* being deleted: ownedGateway refuses it, and cleanup waits for a repair  *)
(* by hand.  It takes a deposed leader that read the ledger before the     *)
(* record was saved and creates the Gateway after it was collected.        *)
Replaced(p) ==
    /\ "leader" \in plan.kinds /\ pool[p].st = "deleting"
    /\ \E k \in Shards : /\ gate[p][k].st = "live"
                         /\ pool[p].gws[k] \notin {0, gate[p][k].uid}

(* A deleted pool goes in the end, and so do all Gateways generated for    *)
(* it, for good: one that a deposed leader creates after the pool is gone  *)
(* is collected too.  Only a replaced Gateway can stop cleanup.            *)
DeletionCompletes ==
    \A p \in Pools : pool[p].st = "deleting" ~>
        [](\/ Replaced(p)
           \/ pool[p].st = "gone" /\ \A k \in Shards : gate[p][k].st = "none")
=============================================================================
