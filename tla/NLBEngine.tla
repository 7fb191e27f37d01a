----------------------------- MODULE NLBEngine -----------------------------
(***************************************************************************)
(* The NLBPool controller (internalcontroller): one pool, its              *)
(* TunnelBindings, the Services and Nodes they resolve to, the OCI network *)
(* load balancers (NLBs) of the pool, and the replicas of the controller.  *)
(*                                                                         *)
(* A reconcile pass reads the pool, lists the bindings, observes the       *)
(* endpoints and the NLBs, makes at most one change and returns.  A pass   *)
(* is a sequence of steps here: whatever it read is kept in my[r] and may  *)
(* be out of date when it is used.  A read followed by an update of the    *)
(* same object is one step, because the API server refuses the update      *)
(* unless nothing was written in between.                                  *)
(***************************************************************************)
EXTENDS Allocation

CONSTANTS
    Bindings,        \* UIDs of TunnelBindings, numbered in the order of names
    Services,        \* (Service, port name) pairs that bindings may target
    Service, Mode,   \* spec.service and spec.mode of every binding
    Hosts,           \* addresses: worker nodes (also of Pods in PodIP mode)
    NodePorts,       \* UDP node ports (target ports in PodIP mode)
    FirstDest,       \* where every Service's endpoint is to begin with
    ProvisionEmpty,  \* spec.provisionEmpty of the pool
    Replicas,        \* controller processes; leader election picks one
    Plans            \* bounds on what users and the world do in a behaviour

(* A plan bounds a behaviour: the bindings that users create, the kinds of *)
(* disturbance that happen, and how many disturbances there are at most.   *)
PlanSet == [bindings : SUBSET Bindings, kinds : SUBSET STRING, left : Nat]

ASSUME EngineConstants ==
    /\ Bindings \subseteq Nat \ {0}
    /\ Service \in [Bindings -> Services]
    /\ Mode \in [Bindings -> {"NodePort", "PodIP", "NodePortCluster"}]
    /\ RequestedPort \in [Bindings -> Nat]
    /\ Hosts # {}
    /\ NodePorts # {} /\ NodePorts \subseteq Nat \ {0}
    /\ FirstDest \in [Services -> Hosts \X NodePorts]
    /\ ProvisionEmpty \in BOOLEAN
    /\ Replicas # {}
    /\ Plans \subseteq PlanSet

VARIABLES
    pool,      \* the NLBPool object without its allocations
    alloc,     \* status.allocations of the pool
    bind,      \* the TunnelBinding objects
    svc,       \* what a verified read of every Service yields
    nodes,     \* the Node objects
    nlb,       \* lifecycleState of the NLB of every shard
    op,        \* the work request in progress on every NLB
    listeners, bsets,   \* listeners and backend sets of all NLBs
    leader,    \* the replica that holds the lease
    pc, my,    \* where every replica is in its pass, and what it has read
    stale,     \* replicas whose copy of the pool is not the latest version
    plan       \* the plan of the behaviour; plan.left disturbances remain

poolVars == <<pool, alloc, stale>>
worldVars == <<svc, nodes>>
cloudVars == <<nlb, op, listeners, bsets>>
ctlVars == <<pc, my>>
vars == <<poolVars, bind, worldVars, cloudVars, leader, ctlVars, plan>>

-----------------------------------------------------------------------------
(* Values.                                                                 *)

(* status.pendingWork: the shard of a running work request, or one of      *)
NoWork == -1
WorkDone == -2

NoOp == [kind |-> "none", name |-> 0, port |-> 0, be |-> {}]
Foreign == 0        \* the name of a set or listener that no lease accounts for

Dests == Hosts \X NodePorts
Exists(b) == b.st \in {"live", "deleting"}
Suspended(b) == b.gen % 2 = 1    \* spec edits only toggle spec.suspended

NewPool == [st |-> "live", fin |-> FALSE, frozen |-> FALSE,
            pending |-> NoWork, shards |-> [k \in Shards |-> "none"],
            workers |-> {}]
NoLeases == [u \in {} |-> {}]
Unborn == [u \in Bindings |-> [st |-> "unborn", fin |-> FALSE, gen |-> 0,
                               cond |-> "none", og |-> 0]]

(* What a replica holds between passes: nothing that was read.             *)
NoView == [seen |-> FALSE, unread |-> FALSE,
           nodes |-> [h \in Hosts |-> "absent"],
           svc |-> [s \in Services |->
                      [uid |-> 0, ok |-> FALSE, st |-> "bad",
                       host |-> CHOOSE h \in Hosts : TRUE,
                       port |-> CHOOSE p \in NodePorts : TRUE]]]
NoSnap == [seen |-> FALSE, lst |-> {}, sets |-> {}]
Blank == [p |-> NewPool, a |-> NoLeases, bs |-> Unborn, todo |-> {},
          es |-> NoView, cs |-> [k \in Shards |-> NoSnap]]

Init ==
    /\ pool = NewPool
    /\ alloc = NoLeases
    /\ bind = Unborn
    /\ plan \in Plans
    /\ svc = [s \in Services |->
                 [uid |-> 1, ok |-> TRUE, st |-> "ready",
                  host |-> FirstDest[s][1], port |-> FirstDest[s][2]]]
    /\ nodes = [h \in Hosts |-> "ready"]
    /\ nlb = [k \in Shards |-> "NONE"]
    /\ op = [k \in Shards |-> NoOp]
    /\ listeners = {} /\ bsets = {}
    /\ leader = CHOOSE r \in Replicas : TRUE
    /\ pc = [r \in Replicas |-> "idle"]
    /\ my = [r \in Replicas |-> Blank]
    /\ stale = {}

-----------------------------------------------------------------------------
(* Endpoint resolution, as the engine uses it.  A Service reads as         *)
(* uid (its incarnation), ok (it exists and passes validateBindingService),*)
(* st (one ready endpoint, a verified gap, or an ownership problem), and   *)
(* the host and port of its single destination.                            *)

(* Mutant: a gap is a problem like any other.                              *)
ResolveGapAsBad(es, u, a) ==
    LET v == es.svc[Service[u]]
        ok == /\ <<Service[u], v.uid>> = a.svc /\ v.ok /\ v.st = "ready"
              /\ Mode[u] = "NodePort" => es.nodes[v.host] = "ready"
    IN  [be |-> IF ok THEN {<<v.host, v.port>>} ELSE {},
         why |-> IF ok THEN "ok" ELSE "bad"]

(* No gap is tolerated for a Pod address: another Pod may get it next.     *)
resolvePodIP(v) ==
    [be  |-> IF v.st = "ready" THEN {<<v.host, v.port>>} ELSE {},
     why |-> IF v.st = "ready" THEN "ok" ELSE "bad"]

Resolve(es, u, a) ==
    LET v == es.svc[Service[u]]
        wrong == <<Service[u], v.uid>> # a.svc \/ ~v.ok
        bad == \/ wrong \/ v.st = "bad"
               \/ v.st = "ready" /\ es.nodes[v.host] # "ready"
    IN  IF ~wrong /\ Mode[u] = "PodIP" THEN resolvePodIP(v)
        ELSE [be  |-> IF bad \/ v.st = "gap" THEN {} ELSE {<<v.host, v.port>>},
              why |-> IF bad THEN "bad" ELSE IF v.st = "gap" THEN "gap" ELSE "ok"]

clusterWorkers(es, pinned) ==
    {h \in Hosts : \/ es.nodes[h] = "ready"
                   \/ es.nodes[h] = "unready" /\ h \in pinned}
Ambiguous(es) == \E h \in Hosts : es.nodes[h] = "ambiguous"

Overflow(ws) == Cardinality(ws) > workerLimit(MaxWorkers)

resolveCluster(es, u, a, ws) ==
    LET v == es.svc[Service[u]]
        bad == \/ <<Service[u], v.uid>> # a.svc \/ ~v.ok \/ v.st = "bad"
               \/ v.port # a.nodePort \/ ws = {}
    IN  [be  |-> IF bad THEN {} ELSE ws \X {v.port},
         why |-> IF ~bad /\ v.st = "ready" THEN "ok" ELSE "bad"]

(* The backends that a live binding should have, and whether it is served  *)
(* ("ok"), waits in a verified gap ("gap") or has a problem ("bad"), as    *)
(* far as the observations m tell.                                         *)
Desired(m, u) ==
    LET ws == clusterWorkers(m.es, m.p.workers)
        kept == resolveCluster(m.es, u, m.a[u], ws \cap m.p.workers)
    IN  CASE Suspended(m.bs[u]) -> [be |-> {}, why |-> "bad"]
          [] ~Suspended(m.bs[u]) /\ Mode[u] # "NodePortCluster" ->
                Resolve(m.es, u, m.a[u])
          [] OTHER -> IF Ambiguous(m.es) THEN [be |-> {}, why |-> "bad"]
                      ELSE IF Overflow(ws) THEN [kept EXCEPT !.why = "bad"]
                      ELSE resolveCluster(m.es, u, m.a[u], ws)

-----------------------------------------------------------------------------
(* How a pass reads and writes.                                            *)

(* Something that may go wrong, if the plan has it.                        *)
Disturb(kind) == /\ kind \in plan.kinds /\ plan.left > 0
                 /\ plan' = [plan EXCEPT !.left = @ - 1]

EndPass(r) == /\ pc' = [pc EXCEPT ![r] = "idle"]
              /\ my' = [my EXCEPT ![r] = Blank]

(* Mutant: the save is not refused on a conflict.                          *)
savePoolBlindly(r, p, a) ==
    /\ pool' = p /\ alloc' = a /\ stale' = Replicas
    /\ EndPass(r)

(* savePool and Update of the pool: refused on a conflict.  Every caller   *)
(* returns, whatever the outcome.                                          *)
savePool(r, p, a) ==
    /\ IF r \in stale THEN UNCHANGED poolVars
       ELSE pool' = p /\ alloc' = a /\ stale' = Replicas
    /\ EndPass(r)

(* What becomes of a deleting binding when the engine's finalizer goes: it *)
(* is gone, unless somebody else's finalizer still holds it.               *)
Released == {"gone"} \cup {st \in {"deleting"} : "held" \in plan.kinds}

(* Update of a binding the pass has listed: refused if it has changed.     *)
updateBinding(r, u, b) ==
    /\ bind' = IF bind[u] = my[r].bs[u] THEN [bind EXCEPT ![u] = b] ELSE bind
    /\ EndPass(r)

NextBinding(r, u) ==
    /\ my' = [my EXCEPT ![r].todo = @ \ {u}]
    /\ pc' = [pc EXCEPT ![r] = "loop"]

(* Mutant: the generation is not compared.                                 *)
bindingStatusByCond(r, u, c) ==
    LET b == my[r].bs[u]
    IN  IF b.cond = c THEN NextBinding(r, u) /\ UNCHANGED bind
        ELSE IF Exists(bind[u])
        THEN /\ bind' = [bind EXCEPT ![u].cond = c, ![u].og = b.gen]
             /\ NextBinding(r, u)
        ELSE EndPass(r) /\ UNCHANGED bind

(* bindingStatus: patches the Configured condition with the generation that*)
(* was listed, if it changes; the pass fails when the object is gone.      *)
bindingStatus(r, u, c) ==
    LET b == my[r].bs[u]
    IN  IF b.cond = c /\ b.og = b.gen THEN NextBinding(r, u) /\ UNCHANGED bind
        ELSE IF Exists(bind[u])
        THEN /\ bind' = [bind EXCEPT ![u].cond = c, ![u].og = b.gen]
             /\ NextBinding(r, u)
        ELSE EndPass(r) /\ UNCHANGED bind

(* The binding whose turn it is in the loop over the sorted list.          *)
IsCurrent(r, u) == u \in my[r].todo /\ \A v \in my[r].todo : u <= v

(* The lists of a snapshot are read one after the other: the Services and  *)
(* their endpoints are in es when the Nodes are read.                      *)
newEndpointSnapshot(es) == [es EXCEPT !.seen = TRUE, !.nodes = nodes]

get(k) == [seen |-> TRUE, lst |-> {l \in listeners : l.shard = k},
           sets |-> {s \in bsets : s.shard = k}]

(* A call OCI accepts starts a work request on the NLB.  The ID of the     *)
(* request is in the copy of the pool that the next step saves.            *)
Issue(r, k, o, p) ==
    IF nlb[k] = "ACTIVE"
    THEN /\ op' = [op EXCEPT ![k] = o]
         /\ nlb' = [nlb EXCEPT ![k] = "UPDATING"]
         /\ my' = [my EXCEPT ![r].p = [p EXCEPT !.pending = k]]
         /\ pc' = [pc EXCEPT ![r] = "save"]
    ELSE EndPass(r) /\ UNCHANGED <<nlb, op>>

(* EnsureShard: create the NLB when neither the status nor the tags of an  *)
(* existing one name it; fail unless it is ACTIVE; go on to next when the  *)
(* status is up to date, else save it.                                     *)
CreateNLB(r, k) ==
    /\ my[r].p.shards[k] = "none" /\ nlb[k] = "NONE"
    /\ nlb' = [nlb EXCEPT ![k] = "UPDATING"]
    /\ op' = [op EXCEPT ![k] = [NoOp EXCEPT !.kind = "create"]]
    /\ my' = [my EXCEPT ![r].p.shards[k] = "id", ![r].p.pending = k]
    /\ pc' = [pc EXCEPT ![r] = "save"]
    /\ UNCHANGED <<listeners, bsets>>

DiscoverNLB(r, k, next) ==
    LET seen == my[r].cs[k].seen
        snap == IF seen THEN my[r].cs[k] ELSE get(k)
    IN  /\ ~(my[r].p.shards[k] = "none" /\ nlb[k] = "NONE")
        /\ IF ~seen /\ nlb[k] # "ACTIVE" THEN EndPass(r)
           ELSE IF my[r].p.shards[k] # "ip"
           THEN /\ my' = [my EXCEPT ![r].p.shards[k] = "ip",
                                    ![r].p.pending = NoWork]
                /\ pc' = [pc EXCEPT ![r] = "save"]
           ELSE /\ my' = [my EXCEPT ![r].cs[k] = snap]
                /\ pc' = [pc EXCEPT ![r] = next]
        /\ UNCHANGED cloudVars

EnsureShard(r, k, next) == CreateNLB(r, k) \/ DiscoverNLB(r, k, next)

(* Mutants: the set is deleted before its listener; backend lists are      *)
(* compared by their length.                                               *)
StepBackendsSetFirst(snap, u, port, be, remove) ==
    LET hasListener == \E l \in snap.lst : l.name = u
        hasSet == \E s \in snap.sets : s.name = u
        same == \E s \in snap.sets : s.name = u /\ s.be = be
        do(kind) == [kind |-> kind, name |-> u, port |-> port, be |-> {}]
    IN  IF remove
        THEN IF hasSet THEN do("deleteSet")
             ELSE IF hasListener THEN do("deleteListener") ELSE NoOp
        ELSE IF ~same THEN [do("putSet") EXCEPT !.be = be]
             ELSE IF ~hasListener THEN do("createListener") ELSE NoOp
StepBackendsByLength(snap, u, port, be, remove) ==
    LET hasListener == \E l \in snap.lst : l.name = u
        hasSet == \E s \in snap.sets : s.name = u
        same == \E s \in snap.sets :
                    s.name = u /\ Cardinality(s.be) = Cardinality(be)
        do(kind) == [kind |-> kind, name |-> u, port |-> port, be |-> {}]
    IN  IF remove
        THEN IF hasListener THEN do("deleteListener")
             ELSE IF hasSet THEN do("deleteSet") ELSE NoOp
        ELSE IF ~same THEN [do("putSet") EXCEPT !.be = be]
             ELSE IF ~hasListener THEN do("createListener") ELSE NoOp

(* The next mutation StepBackends asks for to bring lease u to backends be *)
(* (or to nothing), NoOp when there is none.                               *)
StepBackends(snap, u, port, be, remove) ==
    LET hasListener == \E l \in snap.lst : l.name = u
        hasSet == \E s \in snap.sets : s.name = u
        same == \E s \in snap.sets : s.name = u /\ s.be = be
        do(kind) == [kind |-> kind, name |-> u, port |-> port, be |-> {}]
    IN  IF remove
        THEN IF hasListener THEN do("deleteListener")
             ELSE IF hasSet THEN do("deleteSet") ELSE NoOp
        ELSE IF ~same THEN [do("putSet") EXCEPT !.be = be]
             ELSE IF ~hasListener THEN do("createListener") ELSE NoOp

(* Names on the NLB that no lease of the shard accounts for.               *)
Unowned(snap, a, k) ==
    \E x \in snap.lst \cup snap.sets :
        ~ (x.name \in DOMAIN a /\ a[x.name].shard = k)

(* Mutant: looks at the binding's own set.                                 *)
destinationConflictOwn(snap, u, be) ==
    \E s \in snap.sets : s.name = u /\ s.be \cap be # {}

destinationConflict(snap, u, be) ==
    \E s \in snap.sets : s.name # u /\ s.be \cap be # {}

canRetainBackend(snap, es, a, u) ==
    /\ ~Unowned(snap, a, a[u].shard)
    /\ \E s \in snap.sets :
          /\ s.name = u /\ Cardinality(s.be) = 1
          /\ \A d \in s.be : /\ d[2] = es.svc[Service[u]].port
                             /\ es.nodes[d[1]] = "ready"
    /\ \E l \in snap.lst : l.name = u /\ l.port = a[u].port

-----------------------------------------------------------------------------
(* A pass: the part before the list of bindings.                           *)

Due(r) == r = leader /\ pc[r] = "idle" /\ pool.st # "gone"

AddPoolFinalizer(r) ==
    /\ Due(r) /\ ~pool.fin /\ pool.st = "live"
    /\ pool' = [pool EXCEPT !.fin = TRUE] /\ stale' = Replicas
    /\ UNCHANGED <<alloc, bind, worldVars, cloudVars, leader, ctlVars, plan>>

Ready == pool.fin \/ pool.st = "deleting"

FreezeSpec(r) ==
    /\ Due(r) /\ Ready /\ ~pool.frozen
    /\ pool' = [pool EXCEPT !.frozen = TRUE] /\ stale' = Replicas
    /\ UNCHANGED <<alloc, bind, worldVars, cloudVars, leader, ctlVars, plan>>

(* Cloud.Work reports the request as ended, whether it succeeded or not.   *)
FinishWork(r) ==
    /\ Due(r) /\ Ready /\ pool.frozen /\ pool.pending = WorkDone
    /\ pool' = [pool EXCEPT !.pending = NoWork] /\ stale' = Replicas
    /\ UNCHANGED <<alloc, bind, worldVars, cloudVars, leader, ctlVars, plan>>

StartPass(r) ==
    /\ Due(r) /\ Ready /\ pool.frozen /\ pool.pending = NoWork
    /\ pc' = [pc EXCEPT ![r] = IF ProvisionEmpty /\ pool.st = "live"
                               THEN "provision" ELSE "list"]
    /\ my' = [my EXCEPT ![r].p = pool, ![r].a = alloc]
    /\ stale' = stale \ {r}
    /\ UNCHANGED <<pool, alloc, bind, worldVars, cloudVars, leader, plan>>

Provision(r) ==
    /\ pc[r] = "provision"
    /\ EnsureShard(r, 0, "list")
    /\ UNCHANGED <<poolVars, bind, worldVars, leader, plan>>

ListBindings(r) ==
    /\ pc[r] = "list"
    /\ my' = [my EXCEPT ![r].bs = bind,
                        ![r].todo = {u \in Bindings : Exists(bind[u])}]
    /\ pc' = [pc EXCEPT ![r] = "loop"]
    /\ UNCHANGED <<poolVars, bind, worldVars, cloudVars, leader, plan>>

-----------------------------------------------------------------------------
(* The loop over the bindings.                                             *)

Looping(r, u) == pc[r] = "loop" /\ IsCurrent(r, u)
Leased(r, u) == u \in DOMAIN my[r].a
Active(r, u) == Leased(r, u) /\ ~my[r].a[u].tomb
Deleting(r, u) == my[r].bs[u].st = "deleting"

(* Mutant: the finalizer goes although the lease is still active.          *)
ReleaseBindingEarly(r, u) ==
    /\ Looping(r, u) /\ Deleting(r, u) /\ my[r].bs[u].fin
    /\ updateBinding(r, u, [bind[u] EXCEPT !.st = "gone", !.fin = FALSE])
    /\ UNCHANGED <<poolVars, worldVars, cloudVars, leader, plan>>

(* A deleting binding without a lease, or with a retired one, is released. *)
ReleaseBinding(r, u) ==
    /\ Looping(r, u) /\ ~Active(r, u)
    /\ Deleting(r, u) /\ my[r].bs[u].fin
    /\ \E st \in Released :
          updateBinding(r, u, [bind[u] EXCEPT !.st = st, !.fin = FALSE])
    /\ UNCHANGED <<poolVars, worldVars, cloudVars, leader, plan>>

(* Nothing to do for a retired lease, or for a deleting binding without a  *)
(* lease, once the engine's finalizer is off.                              *)
SkipBinding(r, u) ==
    /\ Looping(r, u) /\ ~Active(r, u)
    /\ IF Deleting(r, u) THEN ~my[r].bs[u].fin ELSE Leased(r, u)
    /\ NextBinding(r, u)
    /\ UNCHANGED <<poolVars, bind, worldVars, cloudVars, leader, plan>>

AddBindingFinalizer(r, u) ==
    /\ Looping(r, u) /\ ~Deleting(r, u) /\ ~my[r].bs[u].fin
    /\ Active(r, u) \/ (~Leased(r, u) /\ my[r].p.st = "live")
    /\ updateBinding(r, u, [bind[u] EXCEPT !.fin = TRUE])
    /\ UNCHANGED <<poolVars, worldVars, cloudVars, leader, plan>>

(* The steps that admit a binding without a lease.                         *)
Admitting(r, u) ==
    /\ Looping(r, u) /\ ~Leased(r, u) /\ ~Deleting(r, u)
    /\ my[r].p.st = "live" /\ my[r].bs[u].fin /\ ~Suspended(my[r].bs[u])

Cluster(u) == Mode[u] = "NodePortCluster"
Workers(r) == clusterWorkers(my[r].es, my[r].p.workers)
WorkerProblem(r) == Ambiguous(my[r].es) \/ Overflow(Workers(r))

(* Mutant: only a worker that is gone makes the inventory change.          *)
WorkersGone(r) == ~WorkerProblem(r) /\ ~(my[r].p.workers \subseteq Workers(r))

WorkersChanged(r) == ~WorkerProblem(r) /\ Workers(r) # my[r].p.workers

(* The endpoint snapshot of the pass is taken when it is first needed.     *)
NeedsSnapshot(r, u) ==
    \/ Admitting(r, u) /\ Cluster(u) /\ svc[Service[u]].ok
    \/ /\ Looping(r, u) /\ Active(r, u) /\ my[r].bs[u].fin
       /\ ~Deleting(r, u) /\ ~Suspended(my[r].bs[u])

SnapshotEndpoints(r, u) ==
    /\ NeedsSnapshot(r, u) /\ ~my[r].es.seen
    /\ my[r].es.unread => Active(r, u)
    /\ my' = [my EXCEPT ![r].es.svc = svc]
    /\ pc' = [pc EXCEPT ![r] = "nodes"]
    /\ UNCHANGED <<poolVars, bind, worldVars, cloudVars, leader, plan>>

SnapshotNodes(r) ==
    /\ pc[r] = "nodes"
    /\ my' = [my EXCEPT ![r].es = newEndpointSnapshot(@)]
    /\ pc' = [pc EXCEPT ![r] = "loop"]
    /\ UNCHANGED <<poolVars, bind, worldVars, cloudVars, leader, plan>>

(* A snapshot that fails while a binding is admitted is the workerProblem  *)
(* of the rest of the pass.                                                *)
FailSnapshot(r, u) ==
    /\ Admitting(r, u) /\ NeedsSnapshot(r, u)
    /\ ~my[r].es.seen /\ ~my[r].es.unread /\ Disturb("abort")
    /\ my' = [my EXCEPT ![r].es.unread = TRUE]
    /\ UNCHANGED <<poolVars, bind, worldVars, cloudVars, leader, pc>>

(* A binding with a lease is not touched on account of such a failure.     *)
ReturnUnread(r, u) ==
    /\ NeedsSnapshot(r, u) /\ Active(r, u) /\ Cluster(u)
    /\ my[r].es.seen /\ my[r].es.unread
    /\ EndPass(r)
    /\ UNCHANGED <<poolVars, bind, worldVars, cloudVars, leader, plan>>

(* prepareWorkers: the inventory is saved before any native write uses it. *)
PinWorkers(r, u) ==
    /\ NeedsSnapshot(r, u) /\ Cluster(u)
    /\ my[r].es.seen /\ ~my[r].es.unread /\ WorkersChanged(r)
    /\ savePool(r, [my[r].p EXCEPT !.workers = Workers(r)], my[r].a)
    /\ UNCHANGED <<bind, worldVars, cloudVars, leader, plan>>

WorkersPrepared(r, u) ==
    Cluster(u) => my[r].es.seen /\ ~my[r].es.unread /\ ~WorkersChanged(r)

(* The Service and worker checks that precede Allocate.                    *)
Admissible(r, u) ==
    /\ svc[Service[u]].ok
    /\ Cluster(u) => ~WorkerProblem(r) /\ Workers(r) # {}

ServiceID(u) == <<Service[u], svc[Service[u]].uid>>

(* Mutant: the lease is kept in memory and the pass goes on.               *)
AllocateLeaseUnsaved(r, u) ==
    /\ Admitting(r, u) /\ WorkersPrepared(r, u) /\ Admissible(r, u)
    /\ \E s \in Candidates(u) :
          /\ Allocate(my[r].a, u, ServiceID(u), s)
          /\ my' = [my EXCEPT ![r].a = WithLease(my[r].a, u,
                [svc |-> ServiceID(u), shard |-> s[1], port |-> s[2],
                 nodePort |-> IF Cluster(u) THEN svc[Service[u]].port ELSE 0,
                 tomb |-> FALSE])]
    /\ UNCHANGED <<poolVars, bind, worldVars, cloudVars, leader, pc, plan>>

(* The lease is saved before any cloud call is made for it.                *)
AllocateLease(r, u) ==
    /\ Admitting(r, u) /\ WorkersPrepared(r, u) /\ Admissible(r, u)
    /\ \E s \in Candidates(u) :
          /\ Allocate(my[r].a, u, ServiceID(u), s)
          /\ savePool(r, my[r].p, WithLease(my[r].a, u,
                [svc |-> ServiceID(u), shard |-> s[1], port |-> s[2],
                 nodePort |-> IF Cluster(u) THEN svc[Service[u]].port ELSE 0,
                 tomb |-> FALSE]))
    /\ UNCHANGED <<bind, worldVars, cloudVars, leader, plan>>

(* A binding that gets no lease now is told so and skipped.                *)
RejectBinding(r, u) ==
    /\ Looping(r, u) /\ ~Leased(r, u) /\ ~Deleting(r, u)
    /\ \/ my[r].p.st = "deleting"
       \/ my[r].bs[u].fin /\ Suspended(my[r].bs[u])
       \/ Admitting(r, u) /\ ~svc[Service[u]].ok
       \/ Admitting(r, u) /\ Cluster(u) /\ my[r].es.unread
       \/ /\ Admitting(r, u) /\ WorkersPrepared(r, u)
          /\ \/ ~Admissible(r, u)
             \/ \A s \in Candidates(u) : ~Allocate(my[r].a, u, ServiceID(u), s)
    /\ bindingStatus(r, u, "False")
    /\ UNCHANGED <<poolVars, worldVars, cloudVars, leader, plan>>

(* A failed read of the Service counts as a rejection.                     *)
RejectUnread(r, u) ==
    /\ Admitting(r, u) /\ Disturb("abort")
    /\ bindingStatus(r, u, "False")
    /\ UNCHANGED <<poolVars, worldVars, cloudVars, leader>>

(* A binding with an active lease: make sure that its NLB is there ...     *)
ProvisionShard(r, u) ==
    /\ Looping(r, u) /\ Active(r, u)
    /\ Deleting(r, u) \/ my[r].bs[u].fin
    /\ NeedsSnapshot(r, u) => my[r].es.seen /\ WorkersPrepared(r, u)
    /\ EnsureShard(r, my[r].a[u].shard, "step")
    /\ UNCHANGED <<poolVars, bind, worldVars, leader, plan>>

(* ... then leave its flow alone during a verified gap ...                 *)
Holds(r, u) ==
    LET m == my[r]
    IN  /\ ~Deleting(r, u) /\ Desired(my[r], u).why = "gap"
        /\ canRetainBackend(m.cs[m.a[u].shard], m.es, m.a, u)

HoldBackend(r, u) ==
    /\ pc[r] = "step" /\ IsCurrent(r, u) /\ Active(r, u) /\ Holds(r, u)
    /\ bindingStatus(r, u, "False")
    /\ UNCHANGED <<poolVars, worldVars, cloudVars, leader, plan>>

(* ... or take the one step that brings it closer to what is desired.      *)
Wanted(r, u) ==
    LET m == my[r]
        want == Desired(my[r], u)
    IN  IF Deleting(r, u) THEN [be |-> {}, why |-> "bad"]
        ELSE IF destinationConflict(m.cs[m.a[u].shard], u, want.be)
        THEN [be |-> {}, why |-> "bad"] ELSE want

NextStep(r, u) ==
    StepBackends(my[r].cs[my[r].a[u].shard], u, my[r].a[u].port,
                 Wanted(r, u).be, Deleting(r, u))

Stepping(r, u) ==
    pc[r] = "step" /\ IsCurrent(r, u) /\ Active(r, u) /\ ~Holds(r, u)
Clean(r, u) ==
    LET k == my[r].a[u].shard IN ~Unowned(my[r].cs[k], my[r].a, k)

MutateNLB(r, u) ==
    /\ Stepping(r, u) /\ Clean(r, u) /\ NextStep(r, u) # NoOp
    /\ Issue(r, my[r].a[u].shard, NextStep(r, u), my[r].p)
    /\ UNCHANGED <<poolVars, bind, worldVars, listeners, bsets, leader, plan>>

(* Mutant: retired as soon as the listener is gone.                        *)
RetireLeaseEarly(r, u) ==
    /\ Stepping(r, u) /\ Clean(r, u) /\ Deleting(r, u)
    /\ NextStep(r, u).kind # "deleteListener"
    /\ savePool(r, my[r].p, [my[r].a EXCEPT ![u].tomb = TRUE])
    /\ UNCHANGED <<bind, worldVars, cloudVars, leader, plan>>

(* Nothing left in OCI: the lease of a deleting binding is retired.        *)
RetireLease(r, u) ==
    /\ Stepping(r, u) /\ Clean(r, u) /\ NextStep(r, u) = NoOp /\ Deleting(r, u)
    /\ savePool(r, my[r].p, [my[r].a EXCEPT ![u].tomb = TRUE])
    /\ UNCHANGED <<bind, worldVars, cloudVars, leader, plan>>

(* Mutant: reported although there is a step left to take.                 *)
ReportEarly(r, u) ==
    /\ Stepping(r, u) /\ Clean(r, u) /\ ~Deleting(r, u)
    /\ bindingStatus(r, u, IF Wanted(r, u).why = "ok" THEN "True" ELSE "False")
    /\ UNCHANGED <<poolVars, worldVars, cloudVars, leader, plan>>

ReportConverged(r, u) ==
    /\ Stepping(r, u) /\ Clean(r, u) /\ NextStep(r, u) = NoOp /\ ~Deleting(r, u)
    /\ bindingStatus(r, u, IF Wanted(r, u).why = "ok" THEN "True" ELSE "False")
    /\ UNCHANGED <<poolVars, worldVars, cloudVars, leader, plan>>

(* "unowned listener on shard": the pass fails and changes nothing.        *)
RefuseForeign(r, u) ==
    /\ Stepping(r, u) /\ ~Clean(r, u)
    /\ EndPass(r)
    /\ UNCHANGED <<poolVars, bind, worldVars, cloudVars, leader, plan>>

SavePending(r) ==
    /\ pc[r] = "save"
    /\ savePool(r, my[r].p, my[r].a)
    /\ UNCHANGED <<bind, worldVars, cloudVars, leader, plan>>

-----------------------------------------------------------------------------
(* After the loop: leases without a binding, retired leases, and the pool. *)

Sweeping(r) == pc[r] = "loop" /\ my[r].todo = {}

Orphans(r) == {u \in DOMAIN my[r].a :
                  ~my[r].a[u].tomb /\ ~Exists(my[r].bs[u])}

(* Mutant: tombstones are not looked at.                                   *)
SweptOrphans(r) == Orphans(r)

(* What the sweep passes to Step: the orphans, then the tombstones.        *)
Swept(r) == IF Orphans(r) # {} THEN Orphans(r)
            ELSE {u \in DOMAIN my[r].a : my[r].a[u].tomb}
Placed(r, u) == my[r].p.shards[my[r].a[u].shard] # "none"
SweptSnap(r, u) == my[r].cs[my[r].a[u].shard]
Removal(r, u) == StepBackends(SweptSnap(r, u), u, my[r].a[u].port, {}, TRUE)

SweepGet(r, u) ==
    /\ Sweeping(r) /\ u \in Swept(r) /\ Placed(r, u) /\ ~SweptSnap(r, u).seen
    /\ LET k == my[r].a[u].shard
       IN  IF nlb[k] # "ACTIVE" THEN EndPass(r)
           ELSE my' = [my EXCEPT ![r].cs[k] = get(k)] /\ UNCHANGED pc
    /\ UNCHANGED <<poolVars, bind, worldVars, cloudVars, leader, plan>>

SweepRemove(r, u) ==
    /\ Sweeping(r) /\ u \in Swept(r) /\ Placed(r, u) /\ SweptSnap(r, u).seen
    /\ IF ~Clean(r, u) THEN EndPass(r) /\ UNCHANGED <<nlb, op>>
       ELSE /\ Removal(r, u) # NoOp
            /\ Issue(r, my[r].a[u].shard, Removal(r, u), my[r].p)
    /\ UNCHANGED <<poolVars, bind, worldVars, listeners, bsets, leader, plan>>

QuarantineOrphan(r, u) ==
    /\ Sweeping(r) /\ u \in Orphans(r)
    /\ \/ ~Placed(r, u)
       \/ SweptSnap(r, u).seen /\ Clean(r, u) /\ Removal(r, u) = NoOp
    /\ savePool(r, my[r].p, [my[r].a EXCEPT ![u].tomb = TRUE])
    /\ UNCHANGED <<bind, worldVars, cloudVars, leader, plan>>

SweepDone(r) ==
    /\ Sweeping(r) /\ Orphans(r) = {}
    /\ \A u \in Swept(r) : Placed(r, u) =>
          SweptSnap(r, u).seen /\ Clean(r, u) /\ Removal(r, u) = NoOp

(* Mutants: bindings still listed are not counted; waits for an empty map. *)
ReleasePoolEarly(r) ==
    /\ SweepDone(r) /\ my[r].p.st = "deleting"
    /\ savePool(r, [my[r].p EXCEPT !.fin = FALSE, !.st = "gone"], my[r].a)
    /\ UNCHANGED <<bind, worldVars, cloudVars, leader, plan>>
ReleasePoolEmpty(r) ==
    /\ SweepDone(r) /\ my[r].p.st = "deleting" /\ DOMAIN my[r].a = {}
    /\ \A u \in Bindings : ~Exists(my[r].bs[u])
    /\ savePool(r, [my[r].p EXCEPT !.fin = FALSE, !.st = "gone"], my[r].a)
    /\ UNCHANGED <<bind, worldVars, cloudVars, leader, plan>>

(* The NLBs are retained when the pool goes.                               *)
ReleasePool(r) ==
    /\ SweepDone(r) /\ my[r].p.st = "deleting"
    /\ \A u \in Bindings : ~Exists(my[r].bs[u])
    /\ savePool(r, [my[r].p EXCEPT !.fin = FALSE, !.st = "gone"], my[r].a)
    /\ UNCHANGED <<bind, worldVars, cloudVars, leader, plan>>

FinishPass(r) ==
    /\ SweepDone(r)
    /\ my[r].p.st = "live" \/ \E u \in Bindings : Exists(my[r].bs[u])
    /\ EndPass(r)
    /\ UNCHANGED <<poolVars, bind, worldVars, cloudVars, leader, plan>>

Reconcile(r) ==
    \/ AddPoolFinalizer(r) \/ FreezeSpec(r) \/ FinishWork(r) \/ StartPass(r)
    \/ Provision(r) \/ ListBindings(r) \/ SnapshotNodes(r) \/ SavePending(r)
    \/ \E u \in Bindings :
          \/ ReleaseBinding(r, u) \/ SkipBinding(r, u)
          \/ AddBindingFinalizer(r, u) \/ SnapshotEndpoints(r, u)
          \/ FailSnapshot(r, u) \/ ReturnUnread(r, u)
          \/ PinWorkers(r, u) \/ AllocateLease(r, u) \/ RejectBinding(r, u)
          \/ RejectUnread(r, u)
          \/ ProvisionShard(r, u) \/ HoldBackend(r, u) \/ MutateNLB(r, u)
          \/ RetireLease(r, u) \/ ReportConverged(r, u) \/ RefuseForeign(r, u)
          \/ SweepGet(r, u) \/ SweepRemove(r, u) \/ QuarantineOrphan(r, u)
    \/ ReleasePool(r) \/ FinishPass(r)

-----------------------------------------------------------------------------
(* OCI, as the engine uses it: one work request at a time on an NLB, which *)
(* is not ACTIVE meanwhile.  A listener needs its backend set and a free   *)
(* port; a set in use by a listener is not deleted.                        *)

At(x, k, u) == x.shard = k /\ x.name = u

Applied(k, o) ==
    LET ls == {l \in listeners : ~At(l, k, o.name)}
        ss == {s \in bsets : ~At(s, k, o.name)}
        put == /\ \E s \in bsets : At(s, k, o.name)
               /\ \A l \in listeners : l.shard = k => l.port # o.port
    IN  CASE o.kind = "putSet" -> [lst |-> listeners,
                sets |-> ss \cup {[shard |-> k, name |-> o.name, be |-> o.be]}]
          [] o.kind = "createListener" /\ put -> [sets |-> bsets,
                lst |-> listeners
                    \cup {[shard |-> k, name |-> o.name, port |-> o.port]}]
          [] o.kind = "deleteListener" -> [lst |-> ls, sets |-> bsets]
          [] o.kind = "deleteSet" /\ ls = listeners ->
                [lst |-> listeners, sets |-> ss]
          [] OTHER -> [lst |-> listeners, sets |-> bsets]

(* Whoever asks for the ended request is told so from now on.              *)
WorkEnds(k) ==
    LET ended(p) == IF p.pending = k THEN [p EXCEPT !.pending = WorkDone] ELSE p
    IN  /\ pool' = ended(pool)
        /\ my' = [r \in Replicas |-> IF pc[r] = "save"
                                     THEN [my[r] EXCEPT !.p = ended(@)] ELSE my[r]]
        /\ op' = [op EXCEPT ![k] = NoOp]
        /\ UNCHANGED <<alloc, stale, bind, worldVars, leader, pc>>

WorkSucceeds(k) ==
    /\ op[k] # NoOp
    /\ WorkEnds(k)
    /\ nlb' = [nlb EXCEPT ![k] = "ACTIVE"]
    /\ listeners' = Applied(k, op[k]).lst
    /\ bsets' = Applied(k, op[k]).sets
    /\ UNCHANGED plan

-----------------------------------------------------------------------------
(* Disturbances.                                                           *)

WorkFails(k) ==
    /\ op[k] # NoOp
    /\ Disturb(IF op[k].kind = "create" THEN "failCreate" ELSE "fail")
    /\ WorkEnds(k)
    /\ nlb' = [nlb EXCEPT ![k] = IF op[k].kind = "create" THEN "FAILED"
                                 ELSE "ACTIVE"]
    /\ UNCHANGED <<listeners, bsets>>

(* A pass that ends early: the process dies, a reply is lost, a read or a  *)
(* write fails.                                                            *)
Abort(r) ==
    /\ Disturb("abort") /\ pc[r] # "idle"
    /\ EndPass(r)
    /\ UNCHANGED <<poolVars, bind, worldVars, cloudVars, leader>>

(* Another replica takes the lease; the old one is not stopped mid-pass.   *)
ChangeLeader(r) ==
    /\ Disturb("leader") /\ r # leader
    /\ leader' = r
    /\ UNCHANGED <<poolVars, bind, worldVars, cloudVars, ctlVars>>

CreateBinding(u) ==
    /\ u \in plan.bindings /\ bind[u].st = "unborn"
    /\ bind' = [bind EXCEPT ![u].st = "live"]
    /\ UNCHANGED <<poolVars, worldVars, cloudVars, leader, ctlVars, plan>>

DeleteBinding(u) ==
    /\ "delete" \in plan.kinds /\ bind[u].st = "live"
    /\ \E st \in IF bind[u].fin THEN {"deleting"} ELSE Released :
          bind' = [bind EXCEPT ![u].st = st]
    /\ UNCHANGED <<poolVars, worldVars, cloudVars, leader, ctlVars, plan>>

(* The other finalizers of a deleting binding are removed.                 *)
LetGo(u) ==
    /\ bind[u].st = "deleting" /\ ~bind[u].fin
    /\ bind' = [bind EXCEPT ![u].st = "gone"]
    /\ UNCHANGED <<poolVars, worldVars, cloudVars, leader, ctlVars, plan>>

DeletePool ==
    /\ "deletePool" \in plan.kinds /\ pool.st = "live"
    /\ pool' = [pool EXCEPT !.st = IF pool.fin THEN "deleting" ELSE "gone"]
    /\ stale' = Replicas
    /\ UNCHANGED <<alloc, bind, worldVars, cloudVars, leader, ctlVars, plan>>

(* The Gateway adapter suspends or resumes a binding.                      *)
EditBinding(u) ==
    /\ Disturb("edit") /\ Exists(bind[u])
    /\ bind' = [bind EXCEPT ![u].gen = @ + 1]
    /\ UNCHANGED <<poolVars, worldVars, cloudVars, leader, ctlVars>>

(* An operator removes the finalizer of a binding.                         *)
StripFinalizer(u) ==
    /\ Disturb("strip") /\ bind[u].fin
    /\ \E st \in IF bind[u].st = "live" THEN {"live"} ELSE Released :
          bind' = [bind EXCEPT ![u].fin = FALSE, ![u].st = st]
    /\ UNCHANGED <<poolVars, worldVars, cloudVars, leader, ctlVars>>

(* The Services that the bindings of the plan target.                      *)
Targets == {Service[u] : u \in plan.bindings}

(* Two Services of a cluster never have the same node port.                *)
ServiceEvent(s) ==
    /\ s \in Targets
    /\ \/ \E h \in Hosts : /\ Disturb("move")
                           /\ svc' = [svc EXCEPT ![s].host = h, ![s].st = "ready"]
       \/ Disturb("gap") /\ svc' = [svc EXCEPT ![s].st = "gap"]
       \/ Disturb("bad") /\ svc' = [svc EXCEPT ![s].st = "bad"]
       \/ \E p \in NodePorts \ {svc[x].port : x \in Targets} :
             Disturb("port") /\ svc' = [svc EXCEPT ![s].port = p]
       \/ Disturb("invalid") /\ svc' = [svc EXCEPT ![s].ok = ~@]
       \/ Disturb("recreate") /\ svc' = [svc EXCEPT ![s].uid = @ + 1]
    /\ UNCHANGED <<poolVars, bind, nodes, cloudVars, leader, ctlVars>>

NodeEvent(h) ==
    /\ Disturb("node")
    /\ \E st \in {"ready", "unready", "absent", "ambiguous"} \ {nodes[h]} :
          nodes' = [nodes EXCEPT ![h] = st]
    /\ UNCHANGED <<poolVars, bind, svc, cloudVars, leader, ctlVars>>

(* Somebody else restores a retired listener, or adds a set of their own.  *)
Resurrect(u) ==
    /\ Disturb("resurrect") /\ u \in DOMAIN alloc /\ alloc[u].tomb
    /\ LET k == alloc[u].shard
       IN  /\ nlb[k] = "ACTIVE"
           /\ \A s \in bsets : ~At(s, k, u)
           /\ bsets' = bsets \cup {[shard |-> k, name |-> u, be |-> {}]}
           /\ listeners' = listeners
                 \cup {[shard |-> k, name |-> u, port |-> alloc[u].port]}
    /\ UNCHANGED <<poolVars, bind, worldVars, nlb, op, leader, ctlVars>>

ForeignSet(k) ==
    LET x == [shard |-> k, name |-> Foreign, be |-> {}]
    IN  /\ Disturb("foreign") /\ nlb[k] = "ACTIVE"
        /\ bsets' = IF x \in bsets THEN bsets \ {x} ELSE bsets \cup {x}
        /\ UNCHANGED <<poolVars, bind, worldVars, nlb, op, listeners, leader,
                       ctlVars>>

Environment ==
    \/ \E k \in Shards : WorkFails(k) \/ ForeignSet(k)
    \/ \E r \in Replicas : Abort(r) \/ ChangeLeader(r)
    \/ \E u \in Bindings : \/ CreateBinding(u) \/ DeleteBinding(u) \/ LetGo(u)
                           \/ EditBinding(u) \/ StripFinalizer(u) \/ Resurrect(u)
    \/ DeletePool
    \/ \E s \in Services : ServiceEvent(s)
    \/ \E h \in Hosts : NodeEvent(h)

Next == \/ \E r \in Replicas : Reconcile(r)
        \/ \E k \in Shards : WorkSucceeds(k)
        \/ Environment

Spec == Init /\ [][Next]_vars

(* The controller is requeued until it is done (RequeueAfter on every      *)
(* return), and OCI ends every work request.                               *)
Fairness == /\ \A r \in Replicas : WF_vars(Reconcile(r))
            /\ \A k \in Shards : WF_vars(WorkSucceeds(k))

FairSpec == Spec /\ Fairness

-----------------------------------------------------------------------------
(* Types.                                                                  *)

Lease == [svc : Services \X Nat, shard : Shards, port : Nat, nodePort : Nat,
          tomb : BOOLEAN]
IsLedger(A) == DOMAIN A \subseteq Bindings /\ A \in [DOMAIN A -> Lease]
Pools == [st : {"live", "deleting", "gone"}, fin : BOOLEAN, frozen : BOOLEAN,
          pending : Shards \cup {NoWork, WorkDone},
          shards : [Shards -> {"none", "id", "ip"}], workers : SUBSET Hosts]
BindingLists == [Bindings ->
    [st : {"unborn", "live", "deleting", "gone"}, fin : BOOLEAN, gen : Nat,
     cond : {"none", "True", "False"}, og : Nat]]
ServiceReads == [Services -> [uid : Nat, ok : BOOLEAN,
                              st : {"ready", "gap", "bad"},
                              host : Hosts, port : NodePorts]]
NodeReads == [Hosts -> {"ready", "unready", "absent", "ambiguous"}]
Names == Bindings \cup {Foreign}
ListenerSets == SUBSET [shard : Shards, name : Names, port : Nat]
SetSets == SUBSET [shard : Shards, name : Names, be : SUBSET Dests]
Ops == [kind : {"none", "create", "putSet", "createListener",
                "deleteListener", "deleteSet"},
        name : Names, port : Nat, be : SUBSET Dests]
Copies(A) == [p : Pools, a : {A}, bs : BindingLists, todo : SUBSET Bindings,
              es : [seen : BOOLEAN, unread : BOOLEAN, svc : ServiceReads,
                    nodes : NodeReads],
              cs : [Shards -> [seen : BOOLEAN, lst : ListenerSets,
                               sets : SetSets]]]

(* The persisted state, the native state and what a replica has read have  *)
(* the types the code gives them; every index into the shards is in range. *)
TypeOK ==
    /\ pool \in Pools /\ IsLedger(alloc)
    /\ bind \in BindingLists
    /\ svc \in ServiceReads /\ nodes \in NodeReads
    /\ nlb \in [Shards -> {"NONE", "ACTIVE", "UPDATING", "FAILED"}]
    /\ op \in [Shards -> Ops]
    /\ listeners \in ListenerSets /\ bsets \in SetSets
    /\ leader \in Replicas
    /\ pc \in [Replicas -> {"idle", "provision", "list", "loop", "nodes",
                              "step", "save"}]
    /\ DOMAIN my = Replicas
    /\ \A r \in Replicas : IsLedger(my[r].a) /\ my[r] \in Copies(my[r].a)
    /\ stale \subseteq Replicas
    /\ plan \in PlanSet

-----------------------------------------------------------------------------
(* Properties of the ledger.                                               *)

(* No two leases of a pool, retired ones included, name the same shard and *)
(* port: Allocate reads a copy of the ledger, and savePool must not let a  *)
(* choice made on an old copy through.                                     *)
LeaseUnique ==
    \A u, v \in DOMAIN alloc : u # v =>
        <<alloc[u].shard, alloc[u].port>> # <<alloc[v].shard, alloc[v].port>>

(* A Service port has at most one active lease in a pool (the check at the *)
(* top of Allocate), so its traffic has one public endpoint.               *)
ServicePortExclusive ==
    \A u, v \in DOMAIN alloc :
        ~alloc[u].tomb /\ ~alloc[v].tomb /\ alloc[u].svc = alloc[v].svc => u = v

(* A lease is never dropped or changed, and once retired it stays retired: *)
(* stale clients must never be routed to a new tenant.                     *)
LeasePermanent ==
    [][\A u \in DOMAIN alloc :
          /\ u \in DOMAIN alloc'
          /\ alloc'[u] \in {alloc[u], [alloc[u] EXCEPT !.tomb = TRUE]}]_vars

(* The allocations of a pool implement the abstract port ledger.           *)
Ledger == INSTANCE LeaseLedger WITH
    Owners <- Bindings,
    Slots <- UNION {Candidates(u) : u \in Bindings},
    lease <- [u \in DOMAIN alloc |-> <<alloc[u].shard, alloc[u].port>>],
    retired <- {u \in DOMAIN alloc : alloc[u].tomb}
ImplementsLedger == Ledger!LedgerSpec

-----------------------------------------------------------------------------
(* Properties that relate the ledger and the objects to OCI.               *)

(* "persist allocation BEFORE cloud calls": whatever exists on an NLB, or  *)
(* is being created on it, belongs to a saved lease of that shard, and a   *)
(* listener has the port of its lease.                                     *)
NativeLeased ==
    /\ \A l \in listeners : l.name # Foreign =>
          /\ l.name \in DOMAIN alloc
          /\ alloc[l.name].shard = l.shard /\ alloc[l.name].port = l.port
    /\ \A s \in bsets : s.name # Foreign =>
          s.name \in DOMAIN alloc /\ alloc[s.name].shard = s.shard
    /\ \A k \in Shards : op[k].name # Foreign =>
          /\ op[k].name \in DOMAIN alloc
          /\ alloc[op[k].name].shard = k /\ alloc[op[k].name].port = op[k].port

Native(u) == \/ \E x \in listeners \cup bsets : x.name = u
             \/ \E k \in Shards : op[k].name = u

(* While no deposed leader and nobody else is at work in OCI, a retired    *)
(* lease has nothing left there, not even a request in flight: the         *)
(* tombstone is saved after the last deletion has been seen.               *)
RetiredDark ==
    plan.kinds \cap {"leader", "resurrect"} = {} =>
        \A u \in DOMAIN alloc : alloc[u].tomb => ~Native(u)

(* While one replica is at work and nobody strips a finalizer, a binding   *)
(* that is gone has left no active lease behind, and when the pool is gone *)
(* every lease is retired and nothing of a binding is left on the NLBs     *)
(* (unless somebody else put it back).                                     *)
FinalizersGuard ==
    plan.kinds \cap {"leader", "strip"} = {} =>
    /\ \A u \in DOMAIN alloc : Exists(bind[u]) \/ alloc[u].tomb
    /\ pool.st = "gone" => \A u \in Bindings :
          /\ u \in DOMAIN alloc => alloc[u].tomb
          /\ "resurrect" \notin plan.kinds => ~Native(u)

(* A live binding that reports Configured for its current generation has   *)
(* its listener, on the port the status publishes, and its backend set.    *)
ConfiguredServed ==
    \A u \in Bindings :
        bind[u].st = "live" /\ bind[u].cond = "True" /\ bind[u].og = bind[u].gen
        => /\ u \in DOMAIN alloc /\ ~alloc[u].tomb
           /\ \E l \in listeners : At(l, alloc[u].shard, u)
                                     /\ l.port = alloc[u].port
           /\ \E s \in bsets : At(s, alloc[u].shard, u)

(* While one replica is at work, no destination is in two backend sets of  *)
(* one NLB: OCI would refuse it and every sibling would stall on the error.*)
DestinationExclusive ==
    "leader" \notin plan.kinds =>
        \A s, t \in bsets : s.shard = t.shard /\ s.name # t.name =>
            s.be \cap t.be = {}

(* "Pin Node UID/provider/IP before native writes": when the only replica  *)
(* at work sends backends of a cluster binding to OCI, their workers are   *)
(* in the saved inventory and their port is the node port saved with the   *)
(* lease.                                                                  *)
PinnedBeforeWrite ==
    [][\A k \in Shards : LET o == op'[k] IN
          /\ "leader" \notin plan.kinds
          /\ o # op[k] /\ o.kind = "putSet" /\ Cluster(o.name)
          => o.be \subseteq pool.workers \X {alloc[o.name].nodePort}]_vars

(* While the only thing that happens to a Service is that its endpoint     *)
(* goes, comes back or moves, a flow that is being served is never cut:    *)
(* "no clear-and-readd during a verified gap".                             *)
GapKeepsFlow ==
    [][plan.kinds \subseteq {"gap", "move", "abort", "fail", "failCreate"} =>
          \A s \in bsets :
              s.be # {} /\ (\E l \in listeners : At(l, s.shard, s.name)) =>
                  \E t \in bsets' : At(t, s.shard, s.name) /\ t.be # {}]_vars

-----------------------------------------------------------------------------
(* Liveness, under FairSpec.                                               *)

Now == [p |-> pool, a |-> alloc, bs |-> bind,
        es |-> [svc |-> svc, nodes |-> nodes]]

Settled(u) ==
    LET want == Desired(Now, u)
        k == alloc[u].shard
    IN  /\ \E l \in listeners : At(l, k, u)
        /\ want.why # "gap" =>
              /\ [shard |-> k, name |-> u, be |-> want.be] \in bsets
              /\ bind[u].cond = (IF want.why = "ok" THEN "True" ELSE "False")
              /\ bind[u].og = bind[u].gen

Blocked(u) ==
    \E s \in bsets : /\ s.name # u /\ s.shard = alloc[u].shard
                     /\ s.be \cap Desired(Now, u).be # {}

(* An NLB that could not be created or holds a foreign backend set ends    *)
(* the pass, also for the bindings that come after it in the loop.         *)
NeedsRepair == \/ \E k \in Shards : nlb[k] = "FAILED"
               \/ \E s \in bsets : s.name = Foreign

WorkersUsable ==
    LET ws == clusterWorkers(Now.es, pool.workers)
    IN  ws # {} /\ ~Ambiguous(Now.es) /\ ~Overflow(ws)

Waiting(u) ==
    /\ pool.st = "live" /\ bind[u].st = "live" /\ ~Suspended(bind[u])
    /\ u \notin DOMAIN alloc
    /\ svc[Service[u]].ok /\ (Cluster(u) => WorkersUsable)
    /\ \E s \in Candidates(u) : Allocate(alloc, u, ServiceID(u), s)

(* Once the disturbances are over, every live binding with a lease gets    *)
(* the backends that the Service, the Nodes and the spec now call for      *)
(* (none, if its Service was replaced or it is suspended) and says so, and *)
(* no binding waits for a port that is free, whatever the bindings before  *)
(* it in the loop do; unless an NLB of the pool needs repair by hand, or a *)
(* sibling has the same destination.                                       *)
EventuallySettled ==
    \A u \in Bindings :
        <>[](bind[u].st = "live" /\ ~NeedsRepair =>
                ~Waiting(u) /\ (u \in DOMAIN alloc => Blocked(u) \/ Settled(u)))

(* The deletion of a binding completes.  It waits only while an NLB of the *)
(* pool, its own or another, needs repair, and goes on when a foreign set  *)
(* is taken away.                                                          *)
DeletionCompletes ==
    \A u \in Bindings : <>[](bind[u].st = "deleting" => NeedsRepair)

(* "Tombstones ... must also stay absent in OCI": what a deposed leader or *)
(* somebody else put back is removed for good, and a lease whose binding   *)
(* vanished is retired.                                                    *)
RetiredGoesDark ==
    \A u \in Bindings :
        <>[](u \in DOMAIN alloc /\ ~Exists(bind[u]) =>
                alloc[u].tomb /\ ~Native(u))

(* The deletion of a pool completes once its bindings are gone.            *)
PoolDeletionCompletes ==
    <>[](pool.st # "live" /\ \A u \in Bindings : ~Exists(bind[u]))
        => <>(pool.st = "gone")
=============================================================================
