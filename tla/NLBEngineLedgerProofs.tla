----------------------- MODULE NLBEngineLedgerProofs ------------------------
(***************************************************************************)
(* NLBEngine with any number of overlapping leaders, for every pool that   *)
(* validates, every set of bindings and replicas, and every number and     *)
(* kind of disturbances.  First the types; then the ledger: leases are     *)
(* unique and permanent, and the engine implements LeaseLedger; then what  *)
(* is in OCI, which belongs to saved leases; last, how the view of a pass  *)
(* changes.                                                                *)
(***************************************************************************)
EXTENDS NLBEngine, TLAPS

-----------------------------------------------------------------------------
(* Types.                                                                  *)

(* TypeOK, variable by variable.                                           *)
PcValues == {"idle", "provision", "list", "loop", "nodes", "step", "save"}
CopyOK(m) == IsLedger(m.a) /\ m \in Copies(m.a)
PoolOK == pool \in Pools /\ IsLedger(alloc) /\ stale \subseteq Replicas
CloudOK == /\ nlb \in [Shards -> {"NONE", "ACTIVE", "UPDATING", "FAILED"}]
           /\ op \in [Shards -> Ops]
           /\ listeners \in ListenerSets /\ bsets \in SetSets
WorldOK == svc \in ServiceReads /\ nodes \in NodeReads
CtlOK == /\ pc \in [Replicas -> PcValues]
         /\ DOMAIN my = Replicas /\ \A r \in Replicas : CopyOK(my[r])

(* What op holds for an NLB with nothing under way.                        *)
LEMMA NoOpFields == /\ NoOp.name = Foreign /\ NoOp.kind = "none"
                    /\ Foreign \notin Bindings
BY EngineConstants DEF NoOp, Foreign

(* The parts of TypeOK are TypeOK.                                         *)
LEMMA TypeParts ==
    TypeOK <=> /\ PoolOK /\ bind \in BindingLists /\ WorldOK /\ CloudOK
               /\ leader \in Replicas /\ CtlOK /\ plan \in PlanSet
BY DEF TypeOK, PoolOK, WorldOK, CloudOK, CtlOK, CopyOK, PcValues

(* The same of the next state.                                             *)
LEMMA TypePartsNext ==
    TypeOK' <=> /\ PoolOK' /\ bind' \in BindingLists /\ WorldOK' /\ CloudOK'
                /\ leader' \in Replicas /\ CtlOK' /\ plan' \in PlanSet
BY DEF TypeOK, PoolOK, WorldOK, CloudOK, CtlOK, CopyOK, PcValues

(* What a step leaves alone keeps its type.                                *)
LEMMA Unchanged ==
    /\ PoolOK /\ UNCHANGED poolVars => PoolOK'
    /\ WorldOK /\ UNCHANGED worldVars => WorldOK'
    /\ CloudOK /\ UNCHANGED cloudVars => CloudOK'
    /\ CtlOK /\ UNCHANGED ctlVars => CtlOK'
BY DEF PoolOK, WorldOK, CloudOK, CtlOK, poolVars, worldVars, cloudVars, ctlVars

(* A disturbance leaves a plan.                                            *)
LEMMA DisturbOK ==
    ASSUME plan \in PlanSet, NEW kind, Disturb(kind) PROVE plan' \in PlanSet
BY DEF Disturb, PlanSet

(* A valid pool has a first shard.                                         *)
LEMMA FirstShard == MaxShards \in Nat \ {0} /\ 0 \in Shards /\ Shards \subseteq Nat
BY PoolValid DEF ValidatePool, Shards

(* The values a replica holds between passes have the right types.         *)
LEMMA BlankOK == CopyOK(Blank)
<1>1. NewPool \in Pools
  BY FirstShard DEF NewPool, Pools
<1>2. IsLedger(NoLeases)
  BY DEF IsLedger, NoLeases
<1>3. Unborn \in BindingLists
  BY DEF Unborn, BindingLists
<1>4. NoView \in [seen : BOOLEAN, unread : BOOLEAN, svc : ServiceReads,
                  nodes : NodeReads]
  <2>1. (CHOOSE h \in Hosts : TRUE) \in Hosts
    BY EngineConstants
  <2>2. (CHOOSE p \in NodePorts : TRUE) \in NodePorts
    BY EngineConstants
  <2> QED BY <2>1, <2>2 DEF NoView, ServiceReads, NodeReads
<1>5. NoSnap \in [seen : BOOLEAN, lst : ListenerSets, sets : SetSets]
  BY DEF NoSnap, ListenerSets, SetSets
<1> QED BY <1>1, <1>2, <1>3, <1>4, <1>5 DEF CopyOK, Copies, Blank

(* The initial state has the right types.                                  *)
LEMMA TypeInit == Init => TypeOK
<1> SUFFICES ASSUME Init PROVE TypeOK
  OBVIOUS
<1>1. pool \in Pools /\ IsLedger(alloc) /\ bind \in BindingLists
  BY BlankOK DEF Init, CopyOK, Copies, Blank
<1>2. WorldOK
  <2>1. \A s \in Services : FirstDest[s][1] \in Hosts /\ FirstDest[s][2] \in NodePorts
    BY EngineConstants
  <2> QED BY <2>1 DEF Init, WorldOK, ServiceReads, NodeReads
<1>3. CloudOK
  BY DEF Init, CloudOK, NoOp, Ops, Names, Foreign, ListenerSets, SetSets
<1>4. CtlOK
  BY BlankOK DEF Init, CtlOK, PcValues
<1>5. leader \in Replicas /\ plan \in PlanSet
  BY EngineConstants DEF Init
<1> QED BY <1>1, <1>2, <1>3, <1>4, <1>5, TypeParts DEF Init, PoolOK

-----------------------------------------------------------------------------
(* What a pass does to a replica's copies.                                 *)

Snaps == [seen : BOOLEAN, lst : ListenerSets, sets : SetSets]
Views == [seen : BOOLEAN, unread : BOOLEAN, svc : ServiceReads, nodes : NodeReads]

(* Replacing one part of a copy by a value of its type gives a copy.       *)
LEMMA CopyFields ==
    ASSUME NEW m, CopyOK(m)
    PROVE  /\ \A q \in Pools : CopyOK([m EXCEPT !.p = q])
           /\ \A q \in BindingLists : CopyOK([m EXCEPT !.bs = q])
           /\ \A q \in SUBSET Bindings : CopyOK([m EXCEPT !.todo = q])
           /\ \A q \in Views : CopyOK([m EXCEPT !.es = q])
           /\ \A q \in [Shards -> Snaps] : CopyOK([m EXCEPT !.cs = q])
BY DEF CopyOK, Copies, Views, Snaps

(* The parts of a copy.                                                    *)
LEMMA CopyParts ==
    ASSUME NEW m, CopyOK(m)
    PROVE  /\ m.p \in Pools /\ IsLedger(m.a) /\ m.bs \in BindingLists
           /\ m.todo \in SUBSET Bindings /\ m.es \in Views
           /\ m.cs \in [Shards -> Snaps]
BY DEF CopyOK, Copies, Views, Snaps

(* A copy replaced by a copy, and a place by a place, keep CtlOK.          *)
LEMMA CtlStep ==
    ASSUME CtlOK, NEW r \in Replicas, NEW m, CopyOK(m), NEW c \in PcValues,
           my' = [my EXCEPT ![r] = m], pc' = [pc EXCEPT ![r] = c]
    PROVE  CtlOK'
BY DEF CtlOK

(* The end of a pass keeps the types.                                      *)
LEMMA EndPassOK ==
    ASSUME CtlOK, NEW r \in Replicas, EndPass(r)
    PROVE  CtlOK'
BY Zenon, BlankOK, CtlStep DEF EndPass, PcValues

(* savePool keeps the types, refused or not.                               *)
LEMMA savePoolOK ==
    ASSUME PoolOK, CtlOK, NEW r \in Replicas,
           NEW p \in Pools, NEW a, IsLedger(a), savePool(r, p, a)
    PROVE  PoolOK' /\ CtlOK'
BY EndPassOK DEF savePool, PoolOK, poolVars

(* Going on to the next binding keeps the types.                           *)
LEMMA NextBindingOK ==
    ASSUME CtlOK, NEW r \in Replicas, NEW u, NextBinding(r, u)
    PROVE  CtlOK'
<1> DEFINE m == [my[r] EXCEPT !.todo = @ \ {u}]
<1>1. CopyOK(my[r])
  BY DEF CtlOK
<1>2. my[r].todo \ {u} \in SUBSET Bindings
  BY <1>1, CopyParts
<1>3. CopyOK(m)
  BY <1>1, <1>2, CopyFields
<1>4. my' = [my EXCEPT ![r] = m] /\ pc' = [pc EXCEPT ![r] = "loop"]
  BY DEF NextBinding
<1> QED BY Zenon, <1>3, <1>4, CtlStep DEF PcValues

(* The status patch keeps the types.                                       *)
LEMMA bindingStatusOK ==
    ASSUME CtlOK, bind \in BindingLists, NEW r \in Replicas, NEW u \in Bindings,
           NEW c \in {"True", "False"}, bindingStatus(r, u, c)
    PROVE  CtlOK' /\ bind' \in BindingLists
<1>1. my[r].bs \in BindingLists
  BY CopyParts DEF CtlOK
<1>2. my[r].bs[u].gen \in Nat
  BY <1>1 DEF BindingLists
<1>3. CtlOK'
  BY EndPassOK, NextBindingOK DEF bindingStatus
<1>4. bind' \in BindingLists
  BY <1>2 DEF bindingStatus, BindingLists
<1> QED BY <1>3, <1>4

(* An update of a binding keeps the types, refused or not.                 *)
LEMMA updateBindingOK ==
    ASSUME CtlOK, bind \in BindingLists, NEW r \in Replicas, NEW u \in Bindings,
           NEW b, [bind EXCEPT ![u] = b] \in BindingLists, updateBinding(r, u, b)
    PROVE  CtlOK' /\ bind' \in BindingLists
BY EndPassOK DEF updateBinding

-----------------------------------------------------------------------------
(* What a pass computes and asks OCI for.                                  *)

(* A snapshot of an NLB has the type of a snapshot.                        *)
LEMMA getOK ==
    ASSUME CloudOK, NEW k
    PROVE  get(k) \in Snaps
BY DEF CloudOK, get, Snaps, ListenerSets, SetSets

(* A verified read of the endpoints has the type of a view.                *)
LEMMA newEndpointSnapshotOK ==
    ASSUME WorldOK, NEW es \in Views
    PROVE  newEndpointSnapshot(es) \in Views
BY ZenonT(30) DEF WorldOK, newEndpointSnapshot, Views

(* The worker inventory is a set of hosts.                                 *)
LEMMA clusterWorkersOK ==
    ASSUME NEW es, NEW pinned
    PROVE  clusterWorkers(es, pinned) \in SUBSET Hosts
BY DEF clusterWorkers

(* The backends a binding should have are destinations.                    *)
LEMMA DesiredOK ==
    ASSUME NEW m, CopyOK(m), NEW u \in Bindings
    PROVE  Desired(m, u).be \in SUBSET Dests
<1> DEFINE v == m.es.svc[Service[u]]
<1>1. v.host \in Hosts /\ v.port \in NodePorts
  <2>1. m.es.svc \in ServiceReads
    BY CopyParts DEF Views
  <2>2. Service[u] \in Services
    BY EngineConstants
  <2> QED BY <2>1, <2>2 DEF ServiceReads
<1>2. Resolve(m.es, u, m.a[u]).be \in SUBSET Dests
  <2>1. PICK w : w = m.es.svc[Service[u]]
    BY Zenon
  <2>2. w.host \in Hosts /\ w.port \in NodePorts
    BY Zenon, <1>1, <2>1
  <2>3. Resolve(m.es, u, m.a[u]).be \subseteq {<<w.host, w.port>>}
    BY Zenon, <2>1 DEF Resolve, resolvePodIP
  <2> QED BY <2>2, <2>3 DEF Dests
<1>3. ASSUME NEW ws \in SUBSET Hosts
      PROVE  resolveCluster(m.es, u, m.a[u], ws).be \in SUBSET Dests
  BY Zenon, <1>1 DEF resolveCluster, Dests
<1> DEFINE ws == clusterWorkers(m.es, m.p.workers)
           kept == resolveCluster(m.es, u, m.a[u], ws \cap m.p.workers)
<1>4. /\ resolveCluster(m.es, u, m.a[u], ws).be \in SUBSET Dests
      /\ kept.be \in SUBSET Dests
  BY <1>3, clusterWorkersOK
<1>5. [kept EXCEPT !.why = "bad"].be = kept.be
  BY DEF resolveCluster
<1>6. CASE Suspended(m.bs[u])
  BY <1>6 DEF Desired
<1>7. CASE ~Suspended(m.bs[u]) /\ Mode[u] # "NodePortCluster"
  BY <1>2, <1>7 DEF Desired
<1>8. CASE ~Suspended(m.bs[u]) /\ Mode[u] = "NodePortCluster"
  BY Zenon, <1>4, <1>5, <1>8 DEF Desired
<1> QED BY <1>6, <1>7, <1>8

(* The mutation that StepBackends chooses is a call OCI knows.             *)
LEMMA StepBackendsOK ==
    ASSUME NEW snap, NEW u \in Bindings, NEW port \in Nat,
           NEW be \in SUBSET Dests, NEW remove
    PROVE  StepBackends(snap, u, port, be, remove) \in Ops
BY DEF StepBackends, Ops, NoOp, Names, Foreign

(* A request that OCI accepts or refuses keeps the types.                  *)
LEMMA IssueOK ==
    ASSUME CtlOK, CloudOK, NEW r \in Replicas, NEW k \in Shards, NEW o \in Ops,
           Issue(r, k, o, my[r].p), UNCHANGED <<listeners, bsets>>
    PROVE  CtlOK' /\ CloudOK'
<1> DEFINE q == [my[r].p EXCEPT !.pending = k]
           m == [my[r] EXCEPT !.p = q]
<1>1. CASE nlb[k] = "ACTIVE"
  <2>1. q \in Pools
    BY CopyParts DEF CtlOK, Pools
  <2>2. CopyOK(m)
    BY <2>1, CopyFields DEF CtlOK
  <2>3. CtlOK'
    BY <1>1, <2>2, CtlStep DEF Issue, PcValues
  <2> QED BY <1>1, <2>3 DEF Issue, CloudOK
<1>2. CASE nlb[k] # "ACTIVE"
  BY <1>2, EndPassOK DEF Issue, CloudOK
<1> QED BY <1>1, <1>2

(* EnsureShard keeps the types.                                            *)
LEMMA EnsureShardOK ==
    ASSUME CtlOK, CloudOK, NEW r \in Replicas, NEW k \in Shards,
           NEW next \in PcValues, EnsureShard(r, k, next)
    PROVE  CtlOK' /\ CloudOK'
<1>0. CopyOK(my[r]) /\ my[r].p \in Pools /\ my[r].cs \in [Shards -> Snaps]
  BY CopyParts DEF CtlOK
<1>1. CASE CreateNLB(r, k)
  <2> DEFINE q == [my[r].p EXCEPT !.shards[k] = "id", !.pending = k]
             m == [my[r] EXCEPT !.p = q]
  <2>1. q \in Pools
    BY Zenon, <1>0 DEF Pools
  <2>2. CopyOK(m)
    BY <1>0, <2>1, CopyFields
  <2>3. my' = [my EXCEPT ![r] = m]
    BY Zenon, <1>0, <1>1 DEF CreateNLB, CopyOK, Copies
  <2>4. CtlOK'
    BY Zenon, <1>1, <2>2, <2>3, CtlStep DEF CreateNLB, PcValues
  <2>5. [NoOp EXCEPT !.kind = "create"] \in Ops
    BY DEF NoOp, Ops, Names, Foreign
  <2> QED BY <1>1, <2>4, <2>5 DEF CreateNLB, CloudOK
<1>2. CASE DiscoverNLB(r, k, next)
  <2> DEFINE snap == IF my[r].cs[k].seen THEN my[r].cs[k] ELSE get(k)
             q == [my[r].p EXCEPT !.shards[k] = "ip", !.pending = NoWork]
             m1 == [my[r] EXCEPT !.p = q]
             cs2 == [my[r].cs EXCEPT ![k] = snap]
             m2 == [my[r] EXCEPT !.cs = cs2]
  <2>1. q \in Pools
    BY Zenon, <1>0 DEF Pools
  <2>2. CopyOK(m1)
    BY <1>0, <2>1, CopyFields
  <2>3. snap \in Snaps
    BY <1>0, getOK
  <2>4. CopyOK(m2)
    BY <1>0, <2>3, CopyFields
  <2>5. \/ EndPass(r)
        \/ my' = [my EXCEPT ![r] = m1] /\ pc' = [pc EXCEPT ![r] = "save"]
        \/ my' = [my EXCEPT ![r] = m2] /\ pc' = [pc EXCEPT ![r] = next]
    <3>1. CASE ~my[r].cs[k].seen /\ nlb[k] # "ACTIVE"
      BY <1>2, <3>1 DEF DiscoverNLB
    <3>2. CASE /\ ~(~my[r].cs[k].seen /\ nlb[k] # "ACTIVE")
               /\ my[r].p.shards[k] # "ip"
      <4>1. /\ my' = [my EXCEPT ![r].p.shards[k] = "ip",
                               ![r].p.pending = NoWork]
            /\ pc' = [pc EXCEPT ![r] = "save"]
        BY Zenon, <1>2, <3>2 DEF DiscoverNLB
      <4> QED BY ZenonT(30), <1>0, <4>1 DEF CopyOK, Copies
    <3>3. CASE /\ ~(~my[r].cs[k].seen /\ nlb[k] # "ACTIVE")
               /\ my[r].p.shards[k] = "ip"
      <4>1. /\ my' = [my EXCEPT ![r].cs[k] = snap]
            /\ pc' = [pc EXCEPT ![r] = next]
        BY <1>2, <3>3 DEF DiscoverNLB
      <4> QED BY <1>0, <4>1 DEF CopyOK, Copies
    <3> QED BY Zenon, <3>1, <3>2, <3>3
  <2>6. CtlOK'
    BY <2>2, <2>4, <2>5, CtlStep, EndPassOK DEF PcValues
  <2> QED BY <1>2, <2>6 DEF DiscoverNLB, CloudOK, cloudVars
<1> QED BY <1>1, <1>2 DEF EnsureShard

-----------------------------------------------------------------------------
(* Every step keeps the types.                                             *)

(* The steps of a pass outside the loop over the bindings.                 *)
LEMMA PassTypes ==
    ASSUME TypeOK, NEW r \in Replicas,
           \/ AddPoolFinalizer(r) \/ FreezeSpec(r) \/ FinishWork(r)
           \/ StartPass(r) \/ Provision(r) \/ ListBindings(r) \/ SavePending(r)
           \/ ReleasePool(r) \/ FinishPass(r)
    PROVE  TypeOK'
<1> USE TypeParts, TypePartsNext, Unchanged
<1>0. CopyOK(my[r]) /\ my[r].p \in Pools /\ IsLedger(my[r].a)
  BY Zenon, CopyParts DEF CtlOK
<1>1. CASE AddPoolFinalizer(r)
  <2>1. PoolOK'
    BY Zenon, <1>1 DEF AddPoolFinalizer, PoolOK, Pools
  <2> QED BY <1>1, <2>1 DEF AddPoolFinalizer
<1>2. CASE FreezeSpec(r)
  <2>1. PoolOK'
    BY Zenon, <1>2 DEF FreezeSpec, PoolOK, Pools
  <2> QED BY <1>2, <2>1 DEF FreezeSpec
<1>3. CASE FinishWork(r)
  <2>1. PoolOK'
    BY <1>3 DEF FinishWork, PoolOK, Pools
  <2> QED BY <1>3, <2>1 DEF FinishWork
<1>4. CASE StartPass(r)
  <2> DEFINE m == [my[r] EXCEPT !.p = pool, !.a = alloc]
  <2>1. CopyOK(m)
    BY Zenon, <1>0 DEF CopyOK, Copies, PoolOK
  <2>2. my' = [my EXCEPT ![r] = m]
    BY Zenon, <1>0, <1>4 DEF StartPass, CopyOK, Copies
  <2>3. CtlOK'
    BY Zenon, <1>4, <2>1, <2>2, CtlStep DEF StartPass, PcValues
  <2>4. PoolOK'
    BY <1>4 DEF StartPass, PoolOK
  <2> QED BY <1>4, <2>3, <2>4 DEF StartPass
<1>5. CASE Provision(r)
  <2>1. CtlOK' /\ CloudOK'
    BY <1>5, FirstShard, EnsureShardOK DEF Provision, PcValues
  <2> QED BY <1>5, <2>1 DEF Provision
<1>6. CASE ListBindings(r)
  <2> DEFINE todo == {u \in Bindings : Exists(bind[u])}
             m == [my[r] EXCEPT !.bs = bind, !.todo = todo]
  <2>1. CopyOK(m)
    BY Zenon, <1>0 DEF CopyOK, Copies
  <2>2. my' = [my EXCEPT ![r] = m]
    BY Zenon, <1>0, <1>6 DEF ListBindings, CopyOK, Copies
  <2>3. CtlOK'
    BY Zenon, <1>6, <2>1, <2>2, CtlStep DEF ListBindings, PcValues
  <2> QED BY <1>6, <2>3 DEF ListBindings
<1>7. CASE SavePending(r)
  <2>1. PoolOK' /\ CtlOK'
    BY Zenon, <1>0, <1>7, savePoolOK DEF SavePending
  <2> QED BY Zenon, <1>7, <2>1 DEF SavePending
<1>8. CASE ReleasePool(r)
  <2>1. [my[r].p EXCEPT !.fin = FALSE, !.st = "gone"] \in Pools
    BY Zenon, <1>0 DEF Pools
  <2>2. PoolOK' /\ CtlOK'
    BY <1>0, <1>8, <2>1, savePoolOK DEF ReleasePool
  <2> QED BY <1>8, <2>2 DEF ReleasePool
<1>9. CASE FinishPass(r)
  <2>1. CtlOK'
    BY Zenon, <1>9, EndPassOK DEF FinishPass
  <2> QED BY Zenon, <1>9, <2>1 DEF FinishPass
<1> QED BY <1>1, <1>2, <1>3, <1>4, <1>5, <1>6, <1>7, <1>8, <1>9

(* Adding a lease to a ledger, or retiring one, gives a ledger.            *)
LEMMA LedgerOK ==
    ASSUME NEW A, IsLedger(A), NEW u \in Bindings
    PROVE  /\ \A l \in Lease : IsLedger(WithLease(A, u, l))
           /\ u \in DOMAIN A => IsLedger([A EXCEPT ![u].tomb = TRUE])
<1>1. ASSUME NEW l \in Lease PROVE IsLedger(WithLease(A, u, l))
  BY DEF IsLedger, WithLease
<1>2. ASSUME u \in DOMAIN A PROVE IsLedger([A EXCEPT ![u].tomb = TRUE])
  <2>1. [A[u] EXCEPT !.tomb = TRUE] \in Lease
    BY Zenon, <1>2 DEF IsLedger, Lease
  <2> QED BY <1>2, <2>1 DEF IsLedger
<1> QED BY <1>1, <1>2

(* The slots Allocate chooses from are shards and ports.                   *)
LEMMA CandidatesOK ==
    ASSUME NEW u \in Bindings, NEW s \in Candidates(u)
    PROVE  s[1] \in Shards /\ s[2] \in Nat
<1>1. CASE Explicit
  BY <1>1, FirstShard, EngineConstants DEF Candidates
<1>2. CASE ~Explicit
  <2>1. s \in Slots
    BY <1>2 DEF Candidates
  <2>2. PortStart \in Nat /\ Occupancy \in Nat
    BY PoolValid
  <2>3. \A x \in PortStart .. PortStart + Occupancy - 1 : x \in Nat
    BY <2>2
  <2> QED BY <2>1, <2>3 DEF Slots
<1> QED BY <1>1, <1>2

(* The steps that read the endpoints, or fail to.                          *)
LEMMA SnapshotTypes ==
    ASSUME TypeOK, NEW r \in Replicas,
           \/ SnapshotNodes(r)
           \/ \E u \in Bindings : \/ SnapshotEndpoints(r, u)
                                  \/ FailSnapshot(r, u) \/ ReturnUnread(r, u)
    PROVE  TypeOK'
<1> USE TypeParts, TypePartsNext, Unchanged
<1>0. CopyOK(my[r]) /\ my[r].es \in Views
  BY Zenon, CopyParts DEF CtlOK
<1>a. ASSUME NEW es \in Views, NEW c \in PcValues,
             my' = [my EXCEPT ![r].es = es], pc' = [pc EXCEPT ![r] = c]
      PROVE  CtlOK'
  <2>1. CopyOK([my[r] EXCEPT !.es = es])
    BY <1>0, CopyFields
  <2>2. my' = [my EXCEPT ![r] = [my[r] EXCEPT !.es = es]]
    BY <1>a
  <2> QED BY Zenon, <1>a, <2>1, <2>2, CtlStep
<1>1. CASE SnapshotNodes(r)
  <2>1. newEndpointSnapshot(my[r].es) \in Views
    BY <1>0, newEndpointSnapshotOK
  <2>2. my' = [my EXCEPT ![r].es = newEndpointSnapshot(my[r].es)]
    BY <1>1 DEF SnapshotNodes
  <2>3. CtlOK'
    BY Zenon, <1>1, <1>a, <2>1, <2>2 DEF SnapshotNodes, PcValues
  <2> QED BY <1>1, <2>3 DEF SnapshotNodes
<1>2. ASSUME NEW u \in Bindings, SnapshotEndpoints(r, u) PROVE TypeOK'
  <2> DEFINE es == [my[r].es EXCEPT !.svc = svc]
  <2>1. es \in Views
    BY <1>0 DEF Views, WorldOK
  <2>2. my' = [my EXCEPT ![r].es = es]
    BY <1>2 DEF SnapshotEndpoints
  <2> HIDE DEF es
  <2>3. CtlOK'
    BY Zenon, <1>2, <1>a, <2>1, <2>2 DEF SnapshotEndpoints, PcValues
  <2> QED BY <1>2, <2>3 DEF SnapshotEndpoints
<1>3. ASSUME NEW u \in Bindings, FailSnapshot(r, u) PROVE TypeOK'
  <2> DEFINE es == [my[r].es EXCEPT !.unread = TRUE]
  <2>1. es \in Views
    BY Zenon, <1>0 DEF Views
  <2>2. my' = [my EXCEPT ![r].es = es]
    BY <1>3 DEF FailSnapshot
  <2> HIDE DEF es
  <2>3. pc[r] \in PcValues /\ pc' = [pc EXCEPT ![r] = pc[r]]
    BY <1>3 DEF FailSnapshot, CtlOK
  <2>4. CtlOK'
    BY ZenonT(30), <1>a, <2>1, <2>2, <2>3
  <2>5. plan' \in PlanSet
    BY <1>3, DisturbOK DEF FailSnapshot
  <2> QED BY <1>3, <2>4, <2>5 DEF FailSnapshot
<1>4. ASSUME NEW u \in Bindings, ReturnUnread(r, u) PROVE TypeOK'
  <2>1. CtlOK'
    BY <1>4, EndPassOK DEF ReturnUnread
  <2> QED BY <1>4, <2>1 DEF ReturnUnread
<1> QED BY <1>1, <1>2, <1>3, <1>4

(* The steps of the loop that admit, reject or release a binding.          *)
LEMMA AdmissionTypes ==
    ASSUME TypeOK, NEW r \in Replicas, NEW u \in Bindings,
           \/ ReleaseBinding(r, u) \/ SkipBinding(r, u)
           \/ AddBindingFinalizer(r, u)
           \/ PinWorkers(r, u) \/ AllocateLease(r, u)
           \/ RejectBinding(r, u) \/ RejectUnread(r, u)
    PROVE  TypeOK'
<1> USE TypeParts, TypePartsNext, Unchanged
<1>0. CopyOK(my[r]) /\ my[r].p \in Pools /\ IsLedger(my[r].a)
  BY Zenon, CopyParts DEF CtlOK
<1>1. CASE ReleaseBinding(r, u)
  <2>0. PICK st \in Released :
            updateBinding(r, u, [bind[u] EXCEPT !.st = st, !.fin = FALSE])
    BY Zenon, <1>1 DEF ReleaseBinding
  <2>1. [bind EXCEPT ![u] = [bind[u] EXCEPT !.st = st, !.fin = FALSE]]
            \in BindingLists
    BY Zenon DEF BindingLists, Released
  <2>2. CtlOK' /\ bind' \in BindingLists
    BY <2>0, <2>1, updateBindingOK
  <2> QED BY ZenonT(30), <1>1, <2>2 DEF ReleaseBinding
<1>2. CASE SkipBinding(r, u)
  <2>1. CtlOK'
    BY <1>2, NextBindingOK DEF SkipBinding
  <2> QED BY <1>2, <2>1 DEF SkipBinding
<1>3. CASE AddBindingFinalizer(r, u)
  <2>1. [bind EXCEPT ![u] = [bind[u] EXCEPT !.fin = TRUE]] \in BindingLists
    BY Zenon DEF BindingLists
  <2>2. CtlOK' /\ bind' \in BindingLists
    BY ZenonT(30), <1>3, <2>1, updateBindingOK DEF AddBindingFinalizer
  <2> QED BY <1>3, <2>2 DEF AddBindingFinalizer
<1>4. CASE PinWorkers(r, u)
  <2>1. [my[r].p EXCEPT !.workers = Workers(r)] \in Pools
    BY <1>0, clusterWorkersOK DEF Workers, Pools
  <2>2. PoolOK' /\ CtlOK'
    BY <1>0, <1>4, <2>1, savePoolOK DEF PinWorkers
  <2> QED BY <1>4, <2>2 DEF PinWorkers
<1>5. CASE AllocateLease(r, u)
  <2> DEFINE l(s) == [svc |-> ServiceID(u), shard |-> s[1], port |-> s[2],
                 nodePort |-> IF Cluster(u) THEN svc[Service[u]].port ELSE 0,
                 tomb |-> FALSE]
  <2>1. PICK s \in Candidates(u) :
              savePool(r, my[r].p, WithLease(my[r].a, u, l(s)))
    BY ZenonT(30), <1>5 DEF AllocateLease
  <2>2. ServiceID(u) \in Services \X Nat /\ svc[Service[u]].port \in Nat
    BY Zenon, EngineConstants DEF ServiceID, WorldOK, ServiceReads
  <2>3. s[1] \in Shards /\ s[2] \in Nat
    BY CandidatesOK
  <2>4. l(s) \in Lease
    BY Zenon, <2>2, <2>3 DEF Lease
  <2> HIDE DEF l
  <2>5. IsLedger(WithLease(my[r].a, u, l(s)))
    BY ZenonT(30), <1>0, <2>4, LedgerOK
  <2>6. PoolOK' /\ CtlOK'
    BY <1>0, <2>1, <2>5, savePoolOK
  <2> QED BY Zenon, <1>5, <2>6 DEF AllocateLease
<1>6. CASE RejectBinding(r, u)
  <2>1. CtlOK' /\ bind' \in BindingLists
    BY Zenon, <1>6, bindingStatusOK DEF RejectBinding
  <2> QED BY Zenon, <1>6, <2>1 DEF RejectBinding
<1>7. CASE RejectUnread(r, u)
  <2>1. CtlOK' /\ bind' \in BindingLists
    BY <1>7, bindingStatusOK DEF RejectUnread
  <2>2. plan' \in PlanSet
    BY <1>7, DisturbOK DEF RejectUnread
  <2> QED BY <1>7, <2>1, <2>2 DEF RejectUnread
<1> QED BY Zenon, <1>1, <1>2, <1>3, <1>4, <1>5, <1>6, <1>7

(* The steps that touch an NLB, or follow from what was seen on it.        *)
LEMMA NativeTypes ==
    ASSUME TypeOK, NEW r \in Replicas, NEW u \in Bindings,
           \/ ProvisionShard(r, u) \/ HoldBackend(r, u) \/ MutateNLB(r, u)
           \/ RetireLease(r, u) \/ ReportConverged(r, u) \/ RefuseForeign(r, u)
           \/ SweepGet(r, u) \/ SweepRemove(r, u) \/ QuarantineOrphan(r, u)
    PROVE  TypeOK'
<1> USE TypeParts, TypePartsNext, Unchanged
<1>0. /\ CopyOK(my[r]) /\ my[r].p \in Pools /\ IsLedger(my[r].a)
      /\ my[r].cs \in [Shards -> Snaps]
  BY Zenon, CopyParts DEF CtlOK
<1>a. ASSUME u \in DOMAIN my[r].a
      PROVE  my[r].a[u].shard \in Shards /\ my[r].a[u].port \in Nat
  BY Zenon, <1>0, <1>a DEF IsLedger, Lease
<1>1. CASE ProvisionShard(r, u)
  <2>1. CtlOK' /\ CloudOK'
    BY Zenon,
       <1>1, <1>a, EnsureShardOK DEF ProvisionShard, Active, Leased, PcValues
  <2> QED BY Zenon, <1>1, <2>1 DEF ProvisionShard
<1>2. CASE HoldBackend(r, u)
  <2>1. CtlOK' /\ bind' \in BindingLists
    BY <1>2, bindingStatusOK DEF HoldBackend
  <2> QED BY Zenon, <1>2, <2>1 DEF HoldBackend
<1>3. CASE MutateNLB(r, u)
  <2>1. my[r].a[u].shard \in Shards /\ my[r].a[u].port \in Nat
    BY ZenonT(30), <1>3, <1>a DEF MutateNLB, Stepping, Active, Leased
  <2>2. Wanted(r, u).be \in SUBSET Dests
    BY Zenon, <1>0, DesiredOK DEF Wanted
  <2>3. NextStep(r, u) \in Ops
    BY Zenon, <2>1, <2>2, StepBackendsOK DEF NextStep
  <2>4. CtlOK' /\ CloudOK'
    BY Zenon, <1>3, <2>1, <2>3, IssueOK DEF MutateNLB
  <2> QED BY Zenon, <1>3, <2>4 DEF MutateNLB
<1>4. CASE RetireLease(r, u)
  <2>1. IsLedger([my[r].a EXCEPT ![u].tomb = TRUE])
    BY <1>0, <1>4, LedgerOK DEF RetireLease, Stepping, Active, Leased
  <2>2. PoolOK' /\ CtlOK'
    BY <1>0, <1>4, <2>1, savePoolOK DEF RetireLease
  <2> QED BY <1>4, <2>2 DEF RetireLease
<1>5. CASE ReportConverged(r, u)
  <2>1. CtlOK' /\ bind' \in BindingLists
    BY <1>5, bindingStatusOK DEF ReportConverged
  <2> QED BY <1>5, <2>1 DEF ReportConverged
<1>6. CASE RefuseForeign(r, u)
  <2>1. CtlOK'
    BY <1>6, EndPassOK DEF RefuseForeign
  <2> QED BY <1>6, <2>1 DEF RefuseForeign
<1>b. ASSUME u \in Swept(r) PROVE u \in DOMAIN my[r].a
  BY Zenon, <1>b DEF Swept, Orphans
<1>7. CASE SweepGet(r, u)
  <2> DEFINE k == my[r].a[u].shard
             cs == [my[r].cs EXCEPT ![k] = get(k)]
             m == [my[r] EXCEPT !.cs = cs]
  <2>1. CopyOK(m)
    BY <1>0, getOK, CopyFields
  <2>2. \/ EndPass(r)
        \/ my' = [my EXCEPT ![r] = m] /\ pc' = [pc EXCEPT ![r] = pc[r]]
    BY Zenon, <1>0, <1>7 DEF SweepGet, CtlOK, CopyOK, Copies
  <2>3. CtlOK'
    BY Zenon, <2>1, <2>2, CtlStep, EndPassOK DEF CtlOK
  <2> QED BY Zenon, <1>7, <2>3 DEF SweepGet
<1>8. CASE SweepRemove(r, u)
  <2>1. my[r].a[u].shard \in Shards /\ my[r].a[u].port \in Nat
    BY ZenonT(30), <1>8, <1>a, <1>b DEF SweepRemove
  <2>2. Removal(r, u) \in Ops
    BY ZenonT(30), <2>1, StepBackendsOK DEF Removal
  <2>3. CASE ~Clean(r, u)
    <3>1. CtlOK' /\ CloudOK'
      BY Zenon, <1>8, <2>3, EndPassOK DEF SweepRemove, CloudOK
    <3> QED BY Zenon, <1>8, <3>1 DEF SweepRemove
  <2>4. CASE Clean(r, u)
    <3>1. CtlOK' /\ CloudOK'
      BY Zenon, <1>8, <2>1, <2>2, <2>4, IssueOK DEF SweepRemove
    <3> QED BY Zenon, <1>8, <3>1 DEF SweepRemove
  <2> QED BY <2>3, <2>4
<1>9. CASE QuarantineOrphan(r, u)
  <2>1. IsLedger([my[r].a EXCEPT ![u].tomb = TRUE])
    BY <1>0, <1>9, LedgerOK DEF QuarantineOrphan, Orphans
  <2>2. PoolOK' /\ CtlOK'
    BY <1>0, <1>9, <2>1, savePoolOK DEF QuarantineOrphan
  <2> QED BY <1>9, <2>2 DEF QuarantineOrphan
<1> QED BY Zenon, <1>1, <1>2, <1>3, <1>4, <1>5, <1>6, <1>7, <1>8, <1>9

(* The end of a work request.                                              *)
LEMMA WorkTypes ==
    ASSUME TypeOK, NEW k \in Shards, WorkSucceeds(k) \/ WorkFails(k)
    PROVE  TypeOK'
<1> USE TypeParts, TypePartsNext, Unchanged
<1> DEFINE ended(p) == IF p.pending = k THEN [p EXCEPT !.pending = WorkDone]
                       ELSE p
<1>1. WorkEnds(k)
  BY Zenon DEF WorkSucceeds, WorkFails
<1>2. \A p \in Pools : ended(p) \in Pools
  BY DEF Pools
<1>3. pool' = ended(pool)
  BY <1>1 DEF WorkEnds
<1>4. my' = [r \in Replicas |-> IF pc[r] = "save"
                                THEN [my[r] EXCEPT !.p = ended(@)] ELSE my[r]]
  BY <1>1 DEF WorkEnds
<1> HIDE DEF ended
<1>5. PoolOK'
  BY <1>1, <1>2, <1>3 DEF WorkEnds, PoolOK
<1>6. \A r \in Replicas : CopyOK(my'[r])
  <2> SUFFICES ASSUME NEW r \in Replicas PROVE CopyOK(my'[r])
    OBVIOUS
  <2>1. CopyOK(my[r]) /\ ended(my[r].p) \in Pools
    BY Zenon, <1>2, CopyParts DEF CtlOK
  <2>2. CopyOK([my[r] EXCEPT !.p = ended(@)])
    BY <2>1, CopyFields
  <2> QED BY <1>4, <2>1, <2>2
<1>7. CtlOK'
  <2>1. pc' \in [Replicas -> PcValues]
    BY <1>1 DEF WorkEnds, CtlOK
  <2>2. DOMAIN my' = Replicas
    BY <1>4
  <2> QED BY Zenon, <1>6, <2>1, <2>2 DEF CtlOK
<1>8. op' \in [Shards -> Ops]
  <2>1. NoOp \in Ops
    BY Zenon DEF NoOp, Ops, Names, Foreign
  <2> QED BY <1>1, <2>1 DEF WorkEnds, CloudOK
<1>9. CASE WorkSucceeds(k)
  <2> DEFINE o == op[k]
  <2>1. o \in Ops
    BY DEF CloudOK
  <2>2. /\ [shard |-> k, name |-> o.name, be |-> o.be]
               \in [shard : Shards, name : Names, be : SUBSET Dests]
        /\ [shard |-> k, name |-> o.name, port |-> o.port]
               \in [shard : Shards, name : Names, port : Nat]
    BY Zenon, <2>1 DEF Ops
  <2> HIDE DEF o
  <2>3. Applied(k, o).lst \in ListenerSets /\ Applied(k, o).sets \in SetSets
    BY <2>2 DEF Applied, CloudOK, ListenerSets, SetSets
  <2>4. CloudOK'
    BY <1>8, <1>9, <2>3 DEF WorkSucceeds, CloudOK, o
  <2> QED BY <1>1, <1>5, <1>7, <1>9, <2>4 DEF WorkSucceeds, WorkEnds
<1>10. CASE WorkFails(k)
  <2>1. CloudOK'
    BY Zenon, <1>8, <1>10 DEF WorkFails, CloudOK
  <2>2. plan' \in PlanSet
    BY Zenon, <1>10, DisturbOK DEF WorkFails
  <2> QED BY <1>1, <1>5, <1>7, <2>1, <2>2 DEF WorkEnds, WorkFails
<1> QED BY <1>9, <1>10

(* What users, operators and the cluster do.                               *)
LEMMA WorldTypes ==
    ASSUME TypeOK,
           \/ \E k \in Shards : ForeignSet(k)
           \/ \E r \in Replicas : Abort(r) \/ ChangeLeader(r)
           \/ \E u \in Bindings : \/ CreateBinding(u) \/ DeleteBinding(u) \/ LetGo(u)
                                  \/ EditBinding(u) \/ StripFinalizer(u)
                                  \/ Resurrect(u)
           \/ DeletePool
           \/ \E s \in Services : ServiceEvent(s)
           \/ \E h \in Hosts : NodeEvent(h)
    PROVE  TypeOK'
<1> USE TypeParts, TypePartsNext, Unchanged
<1>0. ASSUME NEW kind, Disturb(kind) PROVE plan' \in PlanSet
  BY Zenon, <1>0, TypeParts, DisturbOK
<1>1. ASSUME NEW k \in Shards, ForeignSet(k) PROVE TypeOK'
  <2>1. [shard |-> k, name |-> Foreign, be |-> {}]
            \in [shard : Shards, name : Names, be : SUBSET Dests]
    BY ZenonT(30) DEF Names
  <2>2. CloudOK'
    BY Zenon, <1>1, <2>1 DEF ForeignSet, CloudOK, SetSets
  <2> QED BY Zenon, <1>0, <1>1, <2>2 DEF ForeignSet
<1>2. ASSUME NEW r \in Replicas, Abort(r) PROVE TypeOK'
  <2>1. CtlOK'
    BY Zenon, <1>2, EndPassOK DEF Abort
  <2> QED BY Zenon, <1>0, <1>2, <2>1 DEF Abort
<1>3. ASSUME NEW r \in Replicas, ChangeLeader(r) PROVE TypeOK'
  BY <1>0, <1>3 DEF ChangeLeader
<1>4. ASSUME NEW u \in Bindings,
             \/ CreateBinding(u) \/ DeleteBinding(u) \/ LetGo(u)
             \/ EditBinding(u) \/ StripFinalizer(u)
      PROVE  TypeOK'
  <2>1. bind' \in BindingLists
    <3>1. CASE CreateBinding(u)
      BY <3>1 DEF CreateBinding, BindingLists
    <3>2. CASE DeleteBinding(u)
      BY <3>2 DEF DeleteBinding, BindingLists, Released
    <3>3. CASE EditBinding(u)
      BY <3>3 DEF EditBinding, BindingLists
    <3>4. CASE StripFinalizer(u)
      <4>1. PICK st \in {"live", "deleting", "gone"} :
                bind' = [bind EXCEPT ![u].fin = FALSE, ![u].st = st]
        BY Zenon, <3>4 DEF StripFinalizer, Released
      <4> DEFINE b == [bind[u] EXCEPT !.fin = FALSE, !.st = st]
      <4>2. [bind EXCEPT ![u] = b] \in BindingLists
        BY Zenon DEF BindingLists
      <4>3. bind' = [bind EXCEPT ![u] = b]
        BY ZenonT(30), <4>1 DEF BindingLists
      <4> QED BY <4>2, <4>3
    <3>5. CASE LetGo(u)
      BY <3>5 DEF LetGo, BindingLists
    <3> QED BY Zenon, <1>4, <3>1, <3>2, <3>3, <3>4, <3>5
  <2>2. plan' \in PlanSet
    BY Zenon, <1>0, <1>4
       DEF CreateBinding, DeleteBinding, LetGo, EditBinding, StripFinalizer
  <2> QED BY Zenon, <1>4, <2>1, <2>2
          DEF CreateBinding, DeleteBinding, LetGo, EditBinding, StripFinalizer
<1>5. ASSUME NEW u \in Bindings, Resurrect(u) PROVE TypeOK'
  <2>1. alloc[u].shard \in Shards /\ alloc[u].port \in Nat
    BY Zenon, <1>5 DEF Resurrect, PoolOK, IsLedger, Lease
  <2>2. /\ [shard |-> alloc[u].shard, name |-> u, be |-> {}]
               \in [shard : Shards, name : Names, be : SUBSET Dests]
        /\ [shard |-> alloc[u].shard, name |-> u, port |-> alloc[u].port]
               \in [shard : Shards, name : Names, port : Nat]
    BY Zenon, <2>1 DEF Names
  <2>3. bsets' \in SetSets /\ listeners' \in ListenerSets
    BY ZenonT(30), <1>5, <2>2 DEF Resurrect, CloudOK, SetSets, ListenerSets
  <2>4. CloudOK'
    BY Zenon, <1>5, <2>3 DEF Resurrect, CloudOK
  <2> QED BY Zenon, <1>0, <1>5, <2>4 DEF Resurrect
<1>6. ASSUME DeletePool PROVE TypeOK'
  <2>1. PoolOK'
    BY <1>6 DEF DeletePool, PoolOK, Pools
  <2> QED BY <1>6, <2>1 DEF DeletePool
<1>7. ASSUME NEW s \in Services, ServiceEvent(s) PROVE TypeOK'
  <2>1. svc' \in ServiceReads
    <3> DEFINE R == [uid : Nat, ok : BOOLEAN, st : {"ready", "gap", "bad"},
                     host : Hosts, port : NodePorts]
    <3>1. svc \in [Services -> R] /\ svc[s] \in R
      BY Zenon DEF WorldOK, ServiceReads
    <3>2. PICK v \in R : svc' = [svc EXCEPT ![s] = v]
      <4>1. \A h \in Hosts : [svc[s] EXCEPT !.host = h, !.st = "ready"] \in R
        BY Zenon, <3>1
      <4>2. [svc[s] EXCEPT !.st = "gap"] \in R /\ [svc[s] EXCEPT !.st = "bad"] \in R
        BY <3>1
      <4>3. \A p \in NodePorts : [svc[s] EXCEPT !.port = p] \in R
        BY <3>1
      <4>4. [svc[s] EXCEPT !.uid = @ + 1] \in R
        BY <3>1
      <4>5. (~svc[s].ok) = TRUE \/ (~svc[s].ok) = FALSE
        OBVIOUS
      <4>6. [svc[s] EXCEPT !.ok = TRUE] \in R /\ [svc[s] EXCEPT !.ok = FALSE] \in R
        BY Zenon, <3>1
      <4>7. [svc[s] EXCEPT !.ok = ~@] \in R
        BY <4>5, <4>6
      <4> HIDE DEF R
      <4> QED BY Zenon, <1>7, <3>1, <4>1, <4>7, <4>2, <4>3, <4>4 DEF ServiceEvent
    <3> HIDE DEF R
    <3>3. svc' \in [Services -> R]
      BY <3>1, <3>2
    <3> QED BY <3>3 DEF ServiceReads, R
  <2>2. plan' \in PlanSet
    BY Zenon, <1>0, <1>7 DEF ServiceEvent
  <2>3. WorldOK'
    BY Zenon, <1>7, <2>1 DEF ServiceEvent, WorldOK
  <2> QED BY Zenon, <1>7, <2>2, <2>3 DEF ServiceEvent
<1>8. ASSUME NEW h \in Hosts, NodeEvent(h) PROVE TypeOK'
  <2>1. WorldOK'
    BY ZenonT(30), <1>8 DEF NodeEvent, WorldOK, NodeReads
  <2> QED BY Zenon, <1>0, <1>8, <2>1 DEF NodeEvent
<1> QED BY <1>1, <1>2, <1>3, <1>4, <1>5, <1>6, <1>7, <1>8

(* Every step keeps the types.                                             *)
LEMMA TypeStep == TypeOK /\ [Next]_vars => TypeOK'
<1> SUFFICES ASSUME TypeOK, [Next]_vars PROVE TypeOK'
  OBVIOUS
<1>1. ASSUME NEW r \in Replicas, Reconcile(r) PROVE TypeOK'
  BY Zenon,
     <1>1, PassTypes, SnapshotTypes, AdmissionTypes, NativeTypes DEF Reconcile
<1>2. CASE UNCHANGED vars
  BY Zenon, <1>2, TypeParts, TypePartsNext, Unchanged DEF vars
<1> QED BY <1>1, <1>2, WorkTypes, WorldTypes DEF Next, Environment

(* TypeOK holds in every reachable state.                                  *)
THEOREM TypeCorrect == Spec => []TypeOK
BY TypeInit, TypeStep, PTL DEF Spec

-----------------------------------------------------------------------------
(* The ledger.  A save goes through only when nobody saved since the pass  *)
(* read the pool: FreshCopy makes Allocate's choice on the copy a choice   *)
(* on the ledger itself.                                                   *)

(* The copy of a pass whose save would be accepted is the ledger.          *)
FreshCopy == \A r \in Replicas :
    pc[r] # "idle" /\ r \notin stale => my[r].a = alloc

Slot(l) == <<l.shard, l.port>>
Granted == \E u \in Bindings \ DOMAIN alloc, l \in Lease :
    /\ ~l.tomb /\ Slot(l) \in Candidates(u)
    /\ Allocate(alloc, u, l.svc, Slot(l))
    /\ alloc' = WithLease(alloc, u, l)
Retired == \E u \in DOMAIN alloc :
    ~alloc[u].tomb /\ alloc' = [alloc EXCEPT ![u].tomb = TRUE]

(* What a step may do to the ledger, and to the copies of it.              *)
SaveShape == \/ alloc' = alloc
             \/ stale' = Replicas /\ (Granted \/ Retired)
Kept(q) == \/ my'[q].a = my[q].a /\ (pc'[q] # "idle" => pc[q] # "idle")
           \/ my'[q].a = NoLeases /\ pc'[q] = "idle"
Carried(q) == \/ Kept(q) /\ (q \in stale => q \in stale')
              \/ my'[q].a = alloc /\ alloc' = alloc
Shape == SaveShape /\ \A q \in Replicas : Carried(q)

(* A step that leaves the pool alone has the shape.                        *)
LEMMA KeptShape ==
    ASSUME UNCHANGED poolVars, \A q \in Replicas : Kept(q)
    PROVE  Shape
BY DEF Shape, SaveShape, Carried, poolVars

(* What the building blocks of a pass do to the copies of the ledger.      *)
LEMMA EndPassKept ==
    ASSUME CtlOK, NEW r \in Replicas, EndPass(r), NEW q \in Replicas
    PROVE  Kept(q)
BY Zenon DEF EndPass, Kept, CtlOK, Blank

(* The next binding is looked at with the same copy.                       *)
LEMMA NextBindingKept ==
    ASSUME CtlOK, NEW r \in Replicas, NEW u, NextBinding(r, u),
           pc[r] # "idle", NEW q \in Replicas
    PROVE  Kept(q)
<1>1. CopyOK(my[q])
  BY DEF CtlOK
<1> QED BY <1>1 DEF NextBinding, Kept, CtlOK, CopyOK, Copies

(* A status patch does not touch the copy.                                 *)
LEMMA bindingStatusKept ==
    ASSUME CtlOK, NEW r \in Replicas, NEW u, NEW c, bindingStatus(r, u, c),
           pc[r] # "idle", NEW q \in Replicas
    PROVE  Kept(q)
BY EndPassKept, NextBindingKept DEF bindingStatus

(* Neither does a request to OCI.                                          *)
LEMMA IssueKept ==
    ASSUME CtlOK, NEW r \in Replicas, NEW k, NEW o, NEW p, Issue(r, k, o, p),
           pc[r] # "idle", NEW q \in Replicas
    PROVE  Kept(q)
<1>1. CopyOK(my[q])
  BY DEF CtlOK
<1>2. CASE nlb[k] = "ACTIVE"
  BY <1>1, <1>2 DEF Issue, Kept, CtlOK, CopyOK, Copies
<1>3. CASE nlb[k] # "ACTIVE"
  BY <1>3, EndPassKept DEF Issue
<1> QED BY <1>2, <1>3

(* Nor EnsureShard.                                                        *)
LEMMA EnsureShardKept ==
    ASSUME CtlOK, NEW r \in Replicas, NEW k, NEW next,
           EnsureShard(r, k, next), pc[r] # "idle", NEW q \in Replicas
    PROVE  Kept(q)
<1>1. CopyOK(my[q])
  BY DEF CtlOK
<1>2. CASE CreateNLB(r, k)
  BY <1>1, <1>2 DEF CreateNLB, Kept, CtlOK, CopyOK, Copies
<1>3. CASE DiscoverNLB(r, k, next)
  <2>1. CASE EndPass(r)
    BY <2>1, EndPassKept
  <2>2. CASE ~EndPass(r)
    <3>1. \/ my' = [my EXCEPT ![r].p.shards[k] = "ip",
                             ![r].p.pending = NoWork]
          \/ \E snap : my' = [my EXCEPT ![r].cs[k] = snap]
      BY Zenon, <1>3, <2>2 DEF DiscoverNLB
    <3>2. \A x \in Replicas \ {r} : pc'[x] = pc[x]
      BY <1>3, <2>2 DEF DiscoverNLB, CtlOK
    <3>3. my'[q].a = my[q].a
      <4>1. CASE my' = [my EXCEPT ![r].p.shards[k] = "ip",
                                  ![r].p.pending = NoWork]
        BY Zenon, <1>1, <4>1 DEF CtlOK, CopyOK, Copies
      <4>2. CASE \E snap : my' = [my EXCEPT ![r].cs[k] = snap]
        BY <1>1, <4>2 DEF CtlOK, CopyOK, Copies
      <4> QED BY Zenon, <3>1, <4>1, <4>2
    <3> QED BY Zenon, <3>2, <3>3 DEF Kept
  <2> QED BY <2>1, <2>2
<1> QED BY <1>2, <1>3 DEF EnsureShard

(* A save that grants or retires a lease of the copy, or changes nothing.  *)
LEMMA savePoolShape ==
    ASSUME CtlOK, FreshCopy, NEW r \in Replicas, pc[r] # "idle",
           NEW p, NEW a, savePool(r, p, a),
           r \notin stale /\ alloc' = a => alloc' = alloc \/ Granted \/ Retired
    PROVE  Shape
<1>1. \A q \in Replicas : Kept(q)
  BY EndPassKept DEF savePool
<1>2. CASE r \in stale
  BY <1>1, <1>2, KeptShape DEF savePool
<1>3. CASE r \notin stale
  BY Zenon, <1>1, <1>3 DEF savePool, Shape, SaveShape, Carried
<1> QED BY <1>2, <1>3

(* Every step of a pass has the shape.                                     *)
LEMMA PassShape ==
    ASSUME TypeOK, FreshCopy, NEW r \in Replicas,
           \/ AddPoolFinalizer(r) \/ FreezeSpec(r) \/ FinishWork(r)
           \/ StartPass(r) \/ Provision(r) \/ ListBindings(r) \/ SavePending(r)
           \/ ReleasePool(r) \/ FinishPass(r)
    PROVE  Shape
<1>0. CtlOK
  BY Zenon, TypeParts
<1>a. \A q \in Replicas : CopyOK(my[q])
  BY <1>0 DEF CtlOK
<1>1. CASE AddPoolFinalizer(r) \/ FreezeSpec(r) \/ FinishWork(r)
  BY <1>1 DEF AddPoolFinalizer, FreezeSpec, FinishWork, Shape, SaveShape,
              Carried, Kept, ctlVars
<1>2. CASE StartPass(r)
  <2>1. my'[r].a = alloc /\ \A q \in Replicas \ {r} : my'[q] = my[q]
    BY Zenon, <1>0, <1>a, <1>2 DEF StartPass, CtlOK, CopyOK, Copies
  <2>2. \A q \in Replicas \ {r} : pc'[q] = pc[q] /\ (q \in stale => q \in stale')
    BY <1>0, <1>2 DEF StartPass, CtlOK
  <2> QED BY Zenon, <1>2, <2>1, <2>2 DEF StartPass, Shape, SaveShape, Carried, Kept
<1>3. CASE Provision(r)
  BY <1>0, <1>3, EnsureShardKept, KeptShape DEF Provision
<1>4. CASE ListBindings(r)
  <2>1. \A q \in Replicas : my'[q].a = my[q].a
    BY <1>0, <1>a, <1>4 DEF ListBindings, CtlOK, CopyOK, Copies
  <2>2. \A q \in Replicas : Kept(q)
    BY <1>0, <1>4, <2>1 DEF ListBindings, Kept, CtlOK
  <2> QED BY <1>4, <2>2, KeptShape DEF ListBindings
<1>5. CASE SavePending(r)
  BY Zenon, <1>0, <1>5, savePoolShape DEF SavePending, FreshCopy
<1>6. CASE ReleasePool(r)
  BY <1>0, <1>6, savePoolShape DEF ReleasePool, SweepDone, Sweeping, FreshCopy
<1>7. CASE FinishPass(r)
  BY Zenon, <1>0, <1>7, EndPassKept, KeptShape DEF FinishPass
<1> QED BY <1>1, <1>2, <1>3, <1>4, <1>5, <1>6, <1>7

(* Reading the endpoints, or failing to, has the shape.                    *)
LEMMA SnapshotShape ==
    ASSUME TypeOK, NEW r \in Replicas,
           \/ SnapshotNodes(r)
           \/ \E u \in Bindings : \/ SnapshotEndpoints(r, u)
                                  \/ FailSnapshot(r, u) \/ ReturnUnread(r, u)
    PROVE  Shape
<1>0. CtlOK /\ \A q \in Replicas : CopyOK(my[q])
  BY Zenon, TypeParts DEF CtlOK
<1>1. ASSUME NEW es, my' = [my EXCEPT ![r].es = es], UNCHANGED poolVars,
             pc[r] # "idle",
             pc' \in {pc, [pc EXCEPT ![r] = "loop"], [pc EXCEPT ![r] = "nodes"]}
      PROVE  Shape
  <2>1. \A q \in Replicas : my'[q].a = my[q].a
    BY <1>0, <1>1 DEF CtlOK, CopyOK, Copies
  <2>2. \A q \in Replicas : Kept(q)
    BY <1>0, <1>1, <2>1 DEF Kept, CtlOK
  <2> QED BY <1>1, <2>2, KeptShape
<1>2. CASE SnapshotNodes(r)
  BY Zenon, <1>1, <1>2 DEF SnapshotNodes
<1>3. ASSUME NEW u \in Bindings, SnapshotEndpoints(r, u) PROVE Shape
  BY Zenon, <1>1, <1>3 DEF SnapshotEndpoints, NeedsSnapshot, Admitting, Looping
<1>4. ASSUME NEW u \in Bindings, FailSnapshot(r, u) PROVE Shape
  BY Zenon, <1>1, <1>4 DEF FailSnapshot, Admitting, Looping
<1>5. ASSUME NEW u \in Bindings, ReturnUnread(r, u) PROVE Shape
  BY Zenon, <1>0, <1>5, EndPassKept, KeptShape DEF ReturnUnread
<1> QED BY Zenon, <1>2, <1>3, <1>4, <1>5

(* A save that retires lease u of the copy has the shape.                  *)
LEMMA RetireShape ==
    ASSUME TypeOK, FreshCopy, NEW r \in Replicas, pc[r] # "idle",
           NEW u \in DOMAIN my[r].a, ~my[r].a[u].tomb, NEW p,
           savePool(r, p, [my[r].a EXCEPT ![u].tomb = TRUE])
    PROVE  Shape
<1>1. CtlOK
  BY TypeParts
<1>2. ASSUME r \notin stale, alloc' = [my[r].a EXCEPT ![u].tomb = TRUE]
      PROVE  Retired
  BY ZenonT(30), <1>2 DEF FreshCopy, Retired
<1> QED BY Zenon, <1>1, <1>2, savePoolShape

(* Every step of the loop and of the sweep has the shape.                  *)
LEMMA BindingShape ==
    ASSUME TypeOK, FreshCopy, NEW r \in Replicas, NEW u \in Bindings,
           \/ ReleaseBinding(r, u) \/ SkipBinding(r, u)
           \/ AddBindingFinalizer(r, u)
           \/ PinWorkers(r, u) \/ AllocateLease(r, u)
           \/ RejectBinding(r, u) \/ RejectUnread(r, u)
           \/ ProvisionShard(r, u) \/ HoldBackend(r, u) \/ MutateNLB(r, u)
           \/ RetireLease(r, u) \/ ReportConverged(r, u) \/ RefuseForeign(r, u)
           \/ SweepGet(r, u) \/ SweepRemove(r, u) \/ QuarantineOrphan(r, u)
    PROVE  Shape
<1>0. CtlOK /\ WorldOK
  BY Zenon, TypeParts
<1>a. \A q \in Replicas : CopyOK(my[q])
  BY Zenon, <1>0 DEF CtlOK
<1>1. CASE ReleaseBinding(r, u) \/ AddBindingFinalizer(r, u)
  BY Zenon, <1>0, <1>1, EndPassKept, KeptShape
     DEF ReleaseBinding, AddBindingFinalizer, updateBinding
<1>2. CASE SkipBinding(r, u)
  BY Zenon, <1>0, <1>2, NextBindingKept, KeptShape DEF SkipBinding, Looping
<1>3. CASE PinWorkers(r, u)
  <2>1. pc[r] # "idle"
    BY Zenon, <1>3 DEF PinWorkers, NeedsSnapshot, Admitting, Looping
  <2> QED BY Zenon, <1>0, <1>3, <2>1, savePoolShape DEF PinWorkers, FreshCopy
<1>4. CASE AllocateLease(r, u)
  <2> DEFINE l(s) == [svc |-> ServiceID(u), shard |-> s[1], port |-> s[2],
                 nodePort |-> IF Cluster(u) THEN svc[Service[u]].port ELSE 0,
                 tomb |-> FALSE]
  <2>1. PICK s \in Candidates(u) :
              /\ Allocate(my[r].a, u, ServiceID(u), s)
              /\ savePool(r, my[r].p, WithLease(my[r].a, u, l(s)))
    BY Zenon, <1>4 DEF AllocateLease
  <2>2. ServiceID(u) \in Services \X Nat /\ svc[Service[u]].port \in Nat
    BY Zenon, <1>0, EngineConstants DEF ServiceID, WorldOK, ServiceReads
  <2>3. s[1] \in Shards /\ s[2] \in Nat /\ s = <<s[1], s[2]>>
    <3>1. s = <<s[1], s[2]>>
      BY DEF Candidates, Slots
    <3> QED BY Zenon, <3>1, CandidatesOK
  <2>4. l(s) \in Lease /\ ~l(s).tomb /\ l(s).svc = ServiceID(u) /\ Slot(l(s)) = s
    BY Zenon, <2>2, <2>3 DEF Lease, Slot
  <2> HIDE DEF l
  <2>5. pc[r] # "idle" /\ u \notin DOMAIN my[r].a
    BY ZenonT(30), <1>4 DEF AllocateLease, Admitting, Looping, Leased
  <2>6. ASSUME r \notin stale, alloc' = WithLease(my[r].a, u, l(s))
        PROVE  Granted
    <3>1. my[r].a = alloc
      BY Zenon, <2>5, <2>6 DEF FreshCopy
    <3>2. Allocate(alloc, u, l(s).svc, Slot(l(s))) /\ Slot(l(s)) \in Candidates(u)
      BY Zenon, <2>1, <2>4, <3>1
    <3> QED BY ZenonT(30), <2>4, <2>5, <2>6, <3>1, <3>2 DEF Granted
  <2> QED BY Zenon, <1>0, <2>1, <2>5, <2>6, savePoolShape
<1>5. CASE RejectBinding(r, u) \/ RejectUnread(r, u) \/ HoldBackend(r, u)
           \/ ReportConverged(r, u)
  <2>1. pc[r] # "idle" /\ UNCHANGED poolVars
    BY ZenonT(30), <1>5 DEF RejectBinding, RejectUnread, HoldBackend, ReportConverged,
                Admitting, Looping, Stepping
  <2>2. \E c : bindingStatus(r, u, c)
    BY ZenonT(30), <1>5 DEF RejectBinding, RejectUnread, HoldBackend, ReportConverged
  <2> QED BY Zenon, <1>0, <2>1, <2>2, bindingStatusKept, KeptShape
<1>6. CASE ProvisionShard(r, u)
  BY ZenonT(30), <1>0, <1>6, EnsureShardKept, KeptShape DEF ProvisionShard, Looping
<1>7. CASE MutateNLB(r, u)
  BY Zenon, <1>0, <1>7, IssueKept, KeptShape DEF MutateNLB, Stepping
<1>8. CASE RetireLease(r, u)
  BY Zenon, <1>8, RetireShape DEF RetireLease, Stepping, Active, Leased
<1>9. CASE RefuseForeign(r, u)
  BY Zenon, <1>0, <1>9, EndPassKept, KeptShape DEF RefuseForeign
<1>10. CASE SweepGet(r, u)
  <2>1. CASE EndPass(r)
    BY Zenon, <1>0, <1>10, <2>1, EndPassKept, KeptShape DEF SweepGet
  <2>2. CASE ~EndPass(r)
    <3>1. \E k, g : my' = [my EXCEPT ![r].cs[k] = g]
      BY ZenonT(30), <1>10, <2>2 DEF SweepGet
    <3>2. \A q \in Replicas : my'[q].a = my[q].a
      BY <1>0, <1>a, <3>1 DEF CtlOK, CopyOK, Copies
    <3>3. UNCHANGED pc
      BY Zenon, <1>10, <2>2 DEF SweepGet
    <3> QED BY Zenon, <1>10, <3>2, <3>3, KeptShape DEF SweepGet, Kept
  <2> QED BY Zenon, <2>1, <2>2
<1>11. CASE SweepRemove(r, u)
  <2>1. CASE EndPass(r)
    BY Zenon, <1>0, <1>11, <2>1, EndPassKept, KeptShape DEF SweepRemove
  <2>2. CASE ~EndPass(r)
    BY Zenon, <1>0, <1>11, <2>2, IssueKept, KeptShape DEF SweepRemove, Sweeping
  <2> QED BY <2>1, <2>2
<1>12. CASE QuarantineOrphan(r, u)
  <2>1. /\ u \in DOMAIN my[r].a /\ ~my[r].a[u].tomb /\ pc[r] # "idle"
        /\ savePool(r, my[r].p, [my[r].a EXCEPT ![u].tomb = TRUE])
    BY <1>12 DEF QuarantineOrphan, Orphans, Sweeping
  <2> QED BY Zenon, <2>1, RetireShape
<1> QED BY Zenon, <1>1, <1>2, <1>3, <1>4, <1>5, <1>6, <1>7, <1>8, <1>9,
           <1>10, <1>11, <1>12

(* Every step has the shape.                                               *)
LEMMA StepShape == TypeOK /\ FreshCopy /\ [Next]_vars => Shape
<1> SUFFICES ASSUME TypeOK, FreshCopy, [Next]_vars PROVE Shape
  OBVIOUS
<1>0. CtlOK
  BY TypeParts
<1>1. ASSUME NEW r \in Replicas, Reconcile(r) PROVE Shape
  BY Zenon, <1>1, PassShape, SnapshotShape, BindingShape DEF Reconcile
<1>2. ASSUME NEW k \in Shards, WorkSucceeds(k) \/ WorkFails(k) PROVE Shape
  <2>1. WorkEnds(k)
    BY Zenon, <1>2 DEF WorkSucceeds, WorkFails
  <2>2. \A q \in Replicas : CopyOK(my[q])
    BY <1>0 DEF CtlOK
  <2>3. \A q \in Replicas : my'[q].a = my[q].a
    BY <2>1, <2>2 DEF WorkEnds, CopyOK, Copies
  <2> QED BY <2>1, <2>3 DEF WorkEnds, Shape, SaveShape, Carried, Kept
<1>3. ASSUME NEW r \in Replicas, Abort(r) PROVE Shape
  BY <1>0, <1>3, EndPassKept, KeptShape DEF Abort
<1>4. ASSUME DeletePool PROVE Shape
  BY <1>4 DEF DeletePool, Shape, SaveShape, Carried, Kept, ctlVars
<1>5. ASSUME UNCHANGED <<poolVars, ctlVars>> PROVE Shape
  BY <1>5, KeptShape DEF Kept, ctlVars
<1>6. ASSUME \/ \E k \in Shards : ForeignSet(k)
             \/ \E r \in Replicas : ChangeLeader(r)
             \/ \E u \in Bindings : \/ CreateBinding(u) \/ DeleteBinding(u) \/ LetGo(u)
                                    \/ EditBinding(u) \/ StripFinalizer(u)
                                    \/ Resurrect(u)
             \/ \E s \in Services : ServiceEvent(s)
             \/ \E h \in Hosts : NodeEvent(h)
             \/ UNCHANGED vars
      PROVE  Shape
  <2>1. UNCHANGED <<poolVars, ctlVars>>
    BY Zenon, <1>6 DEF ForeignSet, ChangeLeader, CreateBinding, DeleteBinding,
       LetGo, EditBinding, StripFinalizer, Resurrect, ServiceEvent, NodeEvent, vars
  <2> QED BY <2>1, <1>5
<1> QED BY <1>1, <1>2, <1>3, <1>4, <1>6 DEF Next, Environment

(* The inductive invariant of the ledger.                                  *)
LedgerInv == TypeOK /\ FreshCopy /\ LeaseUnique /\ ServicePortExclusive

(* A step preserves FreshCopy: whoever saves makes every copy stale.       *)
LEMMA FreshStep ==
    ASSUME FreshCopy, Shape
    PROVE  FreshCopy'
<1> SUFFICES ASSUME NEW q \in Replicas, pc'[q] # "idle", q \notin stale'
             PROVE  my'[q].a = alloc'
  BY Zenon DEF FreshCopy
<1>1. alloc' = alloc
  BY DEF Shape, SaveShape
<1>2. Carried(q)
  BY DEF Shape
<1> QED BY Zenon, <1>1, <1>2 DEF Carried, Kept, FreshCopy

(* A new lease has a slot and a Service port that nobody else holds.       *)
LEMMA GrantIsNew ==
    ASSUME NEW u, NEW l, Allocate(alloc, u, l.svc, Slot(l))
    PROVE  /\ \A v \in DOMAIN alloc : Slot(alloc[v]) # Slot(l)
           /\ \A v \in DOMAIN alloc : ~alloc[v].tomb => alloc[v].svc # l.svc
<1>1. ~ServicePortTaken(alloc, l.svc) /\ Slot(l) \notin Occupied(alloc)
  BY DEF Allocate
<1>2. \A v \in DOMAIN alloc : Slot(alloc[v]) \in Occupied(alloc)
  BY DEF Occupied, Slot
<1>3. \A v \in DOMAIN alloc : ~alloc[v].tomb => alloc[v].svc # l.svc
  BY Zenon, <1>1 DEF ServicePortTaken
<1> QED BY Zenon, <1>1, <1>2, <1>3

(* What retiring a lease leaves alone.                                     *)
LEMMA RetireKeeps ==
    ASSUME IsLedger(alloc), NEW u \in DOMAIN alloc,
           alloc' = [alloc EXCEPT ![u].tomb = TRUE]
    PROVE  /\ DOMAIN alloc' = DOMAIN alloc
           /\ \A v \in DOMAIN alloc :
                 /\ alloc'[v].svc = alloc[v].svc
                 /\ alloc'[v].shard = alloc[v].shard
                 /\ alloc'[v].port = alloc[v].port
                 /\ ~alloc'[v].tomb => ~alloc[v].tomb
                 /\ alloc'[v] = (IF v = u THEN [alloc[u] EXCEPT !.tomb = TRUE]
                                 ELSE alloc[v])
BY DEF IsLedger, Lease

(* Slots and Service ports stay exclusive.                                 *)
LEMMA UniqueStep ==
    ASSUME IsLedger(alloc), LeaseUnique, ServicePortExclusive, SaveShape
    PROVE  LeaseUnique' /\ ServicePortExclusive'
<1>1. CASE alloc' = alloc
  BY <1>1 DEF LeaseUnique, ServicePortExclusive
<1>2. CASE Granted
  <2>1. PICK u \in Bindings \ DOMAIN alloc, l \in Lease :
            Allocate(alloc, u, l.svc, Slot(l)) /\ alloc' = WithLease(alloc, u, l)
    BY <1>2 DEF Granted
  <2>2. /\ DOMAIN alloc' = DOMAIN alloc \cup {u} /\ alloc'[u] = l
        /\ \A v \in DOMAIN alloc : alloc'[v] = alloc[v]
    BY <2>1 DEF WithLease
  <2>3. /\ \A v \in DOMAIN alloc : Slot(alloc[v]) # Slot(l)
        /\ \A v \in DOMAIN alloc : ~alloc[v].tomb => alloc[v].svc # l.svc
    BY Zenon, <2>1, GrantIsNew
  <2>4. \A v, w \in DOMAIN alloc : v # w => Slot(alloc[v]) # Slot(alloc[w])
    BY DEF LeaseUnique, Slot
  <2>5. \A v, w \in DOMAIN alloc' : v # w => Slot(alloc'[v]) # Slot(alloc'[w])
    BY Zenon, <2>2, <2>3, <2>4
  <2>6. LeaseUnique'
    BY Zenon, <2>5 DEF LeaseUnique, Slot
  <2>7. ServicePortExclusive'
    BY Zenon, <2>2, <2>3 DEF ServicePortExclusive
  <2> QED BY <2>6, <2>7
<1>3. CASE Retired
  <2>1. PICK u \in DOMAIN alloc : alloc' = [alloc EXCEPT ![u].tomb = TRUE]
    BY Zenon, <1>3 DEF Retired
  <2> QED BY <2>1, RetireKeeps DEF LeaseUnique, ServicePortExclusive
<1> QED BY <1>1, <1>2, <1>3 DEF SaveShape

(* The ledger never gives out a port twice, nor two ports to a Service     *)
(* port, whatever the replicas, the crashes and the other disturbances.    *)
THEOREM LedgerSafe == Spec => [](LeaseUnique /\ ServicePortExclusive)
<1>1. Init => LedgerInv
  BY Zenon, TypeInit DEF Init, LedgerInv, FreshCopy, LeaseUnique, ServicePortExclusive,
                  NoLeases
<1>2. LedgerInv /\ [Next]_vars => LedgerInv'
  BY Zenon, TypeStep, StepShape, FreshStep, UniqueStep
     DEF LedgerInv, TypeOK, Shape
<1> QED BY <1>1, <1>2, PTL DEF Spec, LedgerInv

(* A lease is never dropped or changed, and stays retired.                 *)
THEOREM LeasesArePermanent == Spec => LeasePermanent
<1> DEFINE Same == \A u \in DOMAIN alloc :
              /\ u \in DOMAIN alloc'
              /\ alloc'[u] \in {alloc[u], [alloc[u] EXCEPT !.tomb = TRUE]}
<1>1. Init => TypeOK /\ FreshCopy
  BY Zenon, TypeInit DEF Init, FreshCopy
<1>2. TypeOK /\ FreshCopy /\ [Next]_vars => TypeOK' /\ FreshCopy'
  BY TypeStep, StepShape, FreshStep
<1>3. TypeOK /\ FreshCopy /\ [Next]_vars => Same
  <2> SUFFICES ASSUME TypeOK, FreshCopy, [Next]_vars PROVE Same
    OBVIOUS
  <2>1. SaveShape /\ IsLedger(alloc)
    BY Zenon, StepShape DEF Shape, TypeOK
  <2>2. CASE Granted
    BY <2>2 DEF Granted, WithLease
  <2>3. CASE Retired
    BY Zenon, <2>1, <2>3, RetireKeeps DEF Retired
  <2> QED BY <2>1, <2>2, <2>3 DEF SaveShape
<1>4. TypeOK /\ FreshCopy /\ [Next]_vars => [Same]_vars
  BY Zenon, <1>3
<1> QED BY <1>1, <1>2, <1>4, PTL DEF Spec, LeasePermanent

-----------------------------------------------------------------------------
(* The abstract ledger.                                                    *)

(* A lease that Allocate grants is a Grant of the abstract ledger.         *)
LEMMA GrantRefines ==
    ASSUME IsLedger(alloc), Granted
    PROVE  Ledger!LedgerNext
<1>1. PICK u \in Bindings \ DOMAIN alloc, l \in Lease :
            /\ ~l.tomb /\ Slot(l) \in Candidates(u)
            /\ Allocate(alloc, u, l.svc, Slot(l)) /\ alloc' = WithLease(alloc, u, l)
  BY Zenon DEF Granted
<1> DEFINE L == [v \in DOMAIN alloc |-> <<alloc[v].shard, alloc[v].port>>]
           s == <<l.shard, l.port>>
<1>2. DOMAIN alloc' = DOMAIN alloc \cup {u} /\ alloc'[u] = l
      /\ \A v \in DOMAIN alloc : alloc'[v] = alloc[v]
  BY Zenon, <1>1 DEF WithLease
<1>3. s \in UNION {Candidates(v) : v \in Bindings}
  BY Zenon, <1>1 DEF Slot
<1>4. \A v \in DOMAIN L : L[v] # s
  BY Zenon, <1>1, GrantIsNew DEF Slot
<1>5. L' = [v \in DOMAIN L \cup {u} |-> IF v = u THEN s ELSE L[v]]
  BY Zenon, <1>1, <1>2
<1>6. {v \in DOMAIN alloc' : alloc'[v].tomb} = {v \in DOMAIN alloc : alloc[v].tomb}
  BY Zenon, <1>1, <1>2
<1>7. Ledger!Grant(u, s)
  BY Zenon, <1>1, <1>4, <1>5, <1>6 DEF Ledger!Grant
<1> QED BY Zenon, <1>1, <1>3, <1>7 DEF Ledger!LedgerNext

(* Retiring a lease is a Retire of the abstract ledger.                    *)
LEMMA RetireRefines ==
    ASSUME IsLedger(alloc), Retired
    PROVE  Ledger!LedgerNext
<1>1. PICK u \in DOMAIN alloc :
            ~alloc[u].tomb /\ alloc' = [alloc EXCEPT ![u].tomb = TRUE]
  BY Zenon DEF Retired
<1> DEFINE L == [v \in DOMAIN alloc |-> <<alloc[v].shard, alloc[v].port>>]
           R == {v \in DOMAIN alloc : alloc[v].tomb}
<1>2. u \in Bindings /\ alloc'[u].tomb
  BY <1>1 DEF IsLedger, Lease
<1>3. L' = L
  BY <1>1, RetireKeeps
<1>4. R' = R \cup {u}
  BY <1>1, <1>2, RetireKeeps
<1>5. Ledger!Retire(u)
  BY <1>1, <1>3, <1>4 DEF Ledger!Retire
<1> QED BY Zenon, <1>2, <1>5 DEF Ledger!LedgerNext

(* The allocations of a pool implement the abstract ledger.                *)
THEOREM Refinement == Spec => ImplementsLedger
<1>1. Init => Ledger!LedgerInit
  BY Zenon DEF Init, NoLeases, Ledger!LedgerInit
<1>2. Init => TypeOK /\ FreshCopy
  BY Zenon, TypeInit DEF Init, FreshCopy
<1>3. TypeOK /\ FreshCopy /\ [Next]_vars => TypeOK' /\ FreshCopy'
  BY TypeStep, StepShape, FreshStep
<1>4. TypeOK /\ FreshCopy /\ [Next]_vars
        => [Ledger!LedgerNext]_(Ledger!ledgerVars)
  <2> SUFFICES ASSUME TypeOK, FreshCopy, [Next]_vars
               PROVE  [Ledger!LedgerNext]_(Ledger!ledgerVars)
    OBVIOUS
  <2>1. SaveShape /\ IsLedger(alloc)
    BY Zenon, StepShape DEF Shape, TypeOK
  <2>2. CASE alloc' = alloc
    BY <2>2 DEF Ledger!ledgerVars
  <2> QED BY <2>1, <2>2, GrantRefines, RetireRefines DEF SaveShape
<1> QED BY <1>1, <1>2, <1>3, <1>4, PTL
        DEF Spec, ImplementsLedger, Ledger!LedgerSpec

-----------------------------------------------------------------------------
(* What exists in OCI belongs to a lease.  A request is made for a lease   *)
(* of the replica's copy, which may be old; CopyOlder says that an old     *)
(* copy still agrees with the ledger on the slots, because a lease is      *)
(* permanent.                                                              *)

Agrees(A, B) == \A u \in DOMAIN A :
    u \in DOMAIN B /\ A[u].shard = B[u].shard /\ A[u].port = B[u].port
CopyOlder == \A r \in Replicas : Agrees(my[r].a, alloc)

(* The next ledger agrees with this one.                                   *)
LEMMA LedgerAgrees ==
    ASSUME IsLedger(alloc), SaveShape
    PROVE  Agrees(alloc, alloc')
<1>1. CASE alloc' = alloc
  BY <1>1 DEF Agrees
<1>2. CASE Granted
  BY <1>2 DEF Granted, WithLease, Agrees
<1>3. CASE Retired
  BY <1>3, RetireKeeps DEF Retired, Agrees
<1> QED BY <1>1, <1>2, <1>3 DEF SaveShape

(* A step preserves CopyOlder.                                             *)
LEMMA OlderStep ==
    ASSUME IsLedger(alloc), CopyOlder, Shape
    PROVE  CopyOlder'
<1> SUFFICES ASSUME NEW q \in Replicas PROVE Agrees(my'[q].a, alloc')
  BY Zenon DEF CopyOlder
<1>1. Agrees(alloc, alloc')
  BY LedgerAgrees DEF Shape
<1>2. CASE my'[q].a = my[q].a
  BY <1>1, <1>2 DEF CopyOlder, Agrees
<1>3. CASE my'[q].a = NoLeases
  BY <1>3 DEF NoLeases, Agrees
<1>4. CASE my'[q].a = alloc
  BY <1>1, <1>4
<1> QED BY Zenon, <1>2, <1>3, <1>4 DEF Shape, Carried, Kept

(* Where requests, listeners and backend sets come from.                   *)
ListenerOrigin(l) == \/ l \in listeners
                     \/ /\ l.shard \in Shards
                        /\ l.name = op[l.shard].name /\ l.port = op[l.shard].port
                     \/ /\ l.name \in DOMAIN alloc
                        /\ alloc[l.name].shard = l.shard
                        /\ alloc[l.name].port = l.port
SetOrigin(s) == \/ s \in bsets \/ s.name = Foreign
                \/ s.shard \in Shards /\ s.name = op[s.shard].name
                \/ s.name \in DOMAIN alloc /\ alloc[s.name].shard = s.shard
OpOrigin(k) == \/ op'[k] = op[k] \/ op'[k].name = Foreign
               \/ \E r \in Replicas : \E u \in DOMAIN my[r].a :
                     /\ k = my[r].a[u].shard
                     /\ op'[k].name = u /\ op'[k].port = my[r].a[u].port
Origin ==
    /\ \A k \in Shards : OpOrigin(k)
    /\ \A l \in listeners' : ListenerOrigin(l)
    /\ \A s \in bsets' : SetOrigin(s)

(* What was there before has an origin.                                    *)
LEMMA OldOrigin ==
    /\ \A l \in listeners : ListenerOrigin(l)
    /\ \A s \in bsets : SetOrigin(s)
    /\ \A k : op'[k] = op[k] \/ op'[k].name = Foreign => OpOrigin(k)
BY Zenon DEF ListenerOrigin, SetOrigin, OpOrigin

(* A request StepBackends makes is for the lease it was called for.        *)
LEMMA StepBackendsFor ==
    ASSUME NEW snap, NEW u, NEW port, NEW be, NEW remove,
           StepBackends(snap, u, port, be, remove) # NoOp
    PROVE  /\ StepBackends(snap, u, port, be, remove).name = u
           /\ StepBackends(snap, u, port, be, remove).port = port
BY DEF StepBackends

(* A request that was accepted or refused has an origin.                   *)
LEMMA IssueOrigin ==
    ASSUME CloudOK, NEW r \in Replicas, NEW u \in DOMAIN my[r].a, NEW o, NEW p,
           o.name = u, o.port = my[r].a[u].port,
           Issue(r, my[r].a[u].shard, o, p), UNCHANGED <<listeners, bsets>>
    PROVE  Origin
<1>1. ASSUME NEW k \in Shards PROVE OpOrigin(k)
  <2>1. CASE nlb[my[r].a[u].shard] = "ACTIVE"
    BY <2>1 DEF Issue, OpOrigin, CloudOK
  <2>2. CASE nlb[my[r].a[u].shard] # "ACTIVE"
    BY <2>2 DEF Issue, OpOrigin
  <2> QED BY Zenon, <2>1, <2>2
<1> QED BY Zenon, <1>1, OldOrigin DEF Origin

(* Every step of a pass takes its requests from the replica's copy.        *)
LEMMA PassOrigin ==
    ASSUME TypeOK, NEW r \in Replicas, Reconcile(r)
    PROVE  Origin
<1>0. CloudOK
  BY Zenon, TypeParts
<1>1. ASSUME UNCHANGED cloudVars PROVE Origin
  BY Zenon, <1>1, OldOrigin DEF cloudVars, Origin
<1>2. ASSUME NEW k \in Shards, NEW next, EnsureShard(r, k, next) PROVE Origin
  <2>1. CASE CreateNLB(r, k)
    <3>1. UNCHANGED <<listeners, bsets>>
      BY Zenon, <2>1 DEF CreateNLB
    <3>2. \A j \in Shards : op'[j] = op[j] \/ op'[j].name = Foreign
      BY <1>0, <2>1 DEF CreateNLB, CloudOK, NoOp, Foreign
    <3> QED BY Zenon, <3>1, <3>2, OldOrigin DEF Origin
  <2>2. CASE DiscoverNLB(r, k, next)
    BY <1>1, <2>2 DEF DiscoverNLB
  <2> QED BY <1>2, <2>1, <2>2 DEF EnsureShard
<1>3. CASE Provision(r)
  BY <1>2, <1>3, FirstShard DEF Provision
<1>4. CASE \/ AddPoolFinalizer(r) \/ FreezeSpec(r) \/ FinishWork(r)
           \/ StartPass(r) \/ ListBindings(r) \/ SnapshotNodes(r)
           \/ SavePending(r) \/ ReleasePool(r) \/ FinishPass(r)
  BY <1>1, <1>4 DEF AddPoolFinalizer, FreezeSpec, FinishWork, StartPass,
                    ListBindings, SnapshotNodes, SavePending, ReleasePool,
                    FinishPass
<1>5. ASSUME NEW u \in Bindings,
             \/ ReleaseBinding(r, u) \/ SkipBinding(r, u)
             \/ AddBindingFinalizer(r, u) \/ SnapshotEndpoints(r, u)
             \/ FailSnapshot(r, u) \/ ReturnUnread(r, u)
             \/ PinWorkers(r, u) \/ AllocateLease(r, u)
             \/ RejectBinding(r, u) \/ RejectUnread(r, u) \/ HoldBackend(r, u)
             \/ RetireLease(r, u) \/ ReportConverged(r, u)
             \/ RefuseForeign(r, u) \/ SweepGet(r, u) \/ QuarantineOrphan(r, u)
      PROVE  Origin
  BY Zenon, <1>1, <1>5 DEF ReleaseBinding, SkipBinding, AddBindingFinalizer,
     SnapshotEndpoints, FailSnapshot, ReturnUnread, PinWorkers, AllocateLease,
     RejectBinding, RejectUnread, HoldBackend, RetireLease, ReportConverged,
     RefuseForeign, SweepGet, QuarantineOrphan
<1>6. ASSUME NEW u \in Bindings, ProvisionShard(r, u) PROVE Origin
  <2>1. my[r].a[u].shard \in Shards
    <3>1. IsLedger(my[r].a)
      BY Zenon, CopyParts, TypeParts DEF CtlOK
    <3>2. u \in DOMAIN my[r].a
      BY Zenon, <1>6 DEF ProvisionShard, Active, Leased
    <3> QED BY Zenon, <3>1, <3>2 DEF IsLedger, Lease
  <2> QED BY Zenon, <1>2, <1>6, <2>1 DEF ProvisionShard
<1>7. ASSUME NEW u \in Bindings, MutateNLB(r, u) PROVE Origin
  <2>1. u \in DOMAIN my[r].a
    BY ZenonT(30), <1>7 DEF MutateNLB, Stepping, Active, Leased
  <2>2. NextStep(r, u).name = u /\ NextStep(r, u).port = my[r].a[u].port
    <3>1. NextStep(r, u) # NoOp
      BY Zenon, <1>7 DEF MutateNLB
    <3>2. PICK snap, be, remove :
             NextStep(r, u) = StepBackends(snap, u, my[r].a[u].port, be, remove)
      BY Zenon DEF NextStep
    <3>3. PICK port : port = my[r].a[u].port
      BY Zenon
    <3>4. StepBackends(snap, u, port, be, remove) # NoOp
      BY Zenon, <3>1, <3>2, <3>3
    <3>5. /\ StepBackends(snap, u, port, be, remove).name = u
          /\ StepBackends(snap, u, port, be, remove).port = port
      BY Zenon, <3>4, StepBackendsFor
    <3> QED BY Zenon, <3>2, <3>3, <3>5
  <2> QED BY ZenonT(30), <1>0, <1>7, <2>1, <2>2, IssueOrigin DEF MutateNLB
<1>8. ASSUME NEW u \in Bindings, SweepRemove(r, u) PROVE Origin
  <2>1. u \in DOMAIN my[r].a
    BY Zenon, <1>8 DEF SweepRemove, Swept, Orphans
  <2>2. CASE ~Clean(r, u)
    BY Zenon, <1>1, <1>8, <2>2 DEF SweepRemove, cloudVars
  <2>3. CASE Clean(r, u)
    <3>1. Removal(r, u).name = u /\ Removal(r, u).port = my[r].a[u].port
      <4>1. Removal(r, u) # NoOp
        BY Zenon, <1>8, <2>3 DEF SweepRemove
      <4> QED BY Zenon, <4>1, StepBackendsFor DEF Removal
    <3> QED BY Zenon, <1>0, <1>8, <2>1, <2>3, <3>1, IssueOrigin DEF SweepRemove
  <2> QED BY <2>2, <2>3
<1> QED BY Zenon, <1>3, <1>4, <1>5, <1>6, <1>7, <1>8 DEF Reconcile

(* Every step has its requests, listeners and sets from somewhere.         *)
LEMMA StepOrigin == TypeOK /\ [Next]_vars => Origin
<1> SUFFICES ASSUME TypeOK, [Next]_vars PROVE Origin
  OBVIOUS
<1>0. CloudOK
  BY TypeParts
<1>1. ASSUME UNCHANGED cloudVars PROVE Origin
  BY Zenon, <1>1, OldOrigin DEF cloudVars, Origin
<1>2. ASSUME NEW k \in Shards, WorkSucceeds(k) PROVE Origin
  <2>1. \A j \in Shards : OpOrigin(j)
    <3>1. op' = [op EXCEPT ![k] = NoOp]
      BY Zenon, <1>2 DEF WorkSucceeds, WorkEnds
    <3> QED BY Zenon, <1>0, <3>1, OldOrigin, NoOpFields DEF CloudOK
  <2>2. /\ \A l \in Applied(k, op[k]).lst : l \in listeners \/
              l = [shard |-> k, name |-> op[k].name, port |-> op[k].port]
        /\ \A s \in Applied(k, op[k]).sets : s \in bsets \/
              s = [shard |-> k, name |-> op[k].name, be |-> op[k].be]
    BY DEF Applied
  <2>3. ASSUME NEW l \in listeners' PROVE ListenerOrigin(l)
    <3>1. CASE l = [shard |-> k, name |-> op[k].name, port |-> op[k].port]
      BY Zenon, <3>1 DEF ListenerOrigin
    <3> QED BY Zenon, <1>2, <2>2, <3>1, OldOrigin DEF WorkSucceeds
  <2>4. ASSUME NEW s \in bsets' PROVE SetOrigin(s)
    <3>1. CASE s = [shard |-> k, name |-> op[k].name, be |-> op[k].be]
      BY Zenon, <3>1 DEF SetOrigin
    <3> QED BY Zenon, <1>2, <2>2, <3>1, OldOrigin DEF WorkSucceeds
  <2> QED BY Zenon, <2>1, <2>3, <2>4 DEF Origin
<1>3. ASSUME NEW k \in Shards, WorkFails(k) PROVE Origin
  <2>1. op' = [op EXCEPT ![k] = NoOp] /\ UNCHANGED <<listeners, bsets>>
    BY Zenon, <1>3 DEF WorkFails, WorkEnds
  <2> QED BY Zenon, <1>0, <2>1, OldOrigin, NoOpFields DEF CloudOK, Origin
<1>4. ASSUME NEW k \in Shards, ForeignSet(k) PROVE Origin
  <2>1. UNCHANGED <<op, listeners>>
    BY Zenon, <1>4 DEF ForeignSet
  <2>2. \A s \in bsets' : s \in bsets \/ s = [shard |-> k, name |-> Foreign, be |-> {}]
    BY Zenon, <1>4 DEF ForeignSet
  <2>3. [shard |-> k, name |-> Foreign, be |-> {}].name = Foreign
    OBVIOUS
  <2>4. \A s \in bsets' : SetOrigin(s)
    BY Zenon, <2>2, <2>3 DEF SetOrigin
  <2> QED BY Zenon, <2>1, <2>4, OldOrigin DEF Origin
<1>5. ASSUME NEW u \in Bindings, Resurrect(u) PROVE Origin
  <2> DEFINE x == [shard |-> alloc[u].shard, name |-> u, be |-> {}]
             y == [shard |-> alloc[u].shard, name |-> u, port |-> alloc[u].port]
  <2>1. u \in DOMAIN alloc /\ UNCHANGED op
        /\ listeners' = listeners \cup {y} /\ bsets' = bsets \cup {x}
    BY Zenon, <1>5 DEF Resurrect
  <2>2. ListenerOrigin(y)
    BY Zenon, <2>1 DEF ListenerOrigin
  <2>3. SetOrigin(x)
    BY Zenon, <2>1 DEF SetOrigin
  <2> QED BY Zenon, <2>1, <2>2, <2>3, OldOrigin DEF Origin
<1>6. ASSUME \/ \E r \in Replicas : Abort(r) \/ ChangeLeader(r)
             \/ \E u \in Bindings : \/ CreateBinding(u) \/ DeleteBinding(u) \/ LetGo(u)
                                    \/ EditBinding(u) \/ StripFinalizer(u)
             \/ DeletePool
             \/ \E s \in Services : ServiceEvent(s)
             \/ \E h \in Hosts : NodeEvent(h)
             \/ UNCHANGED vars
      PROVE  Origin
  BY Zenon, <1>1, <1>6 DEF Abort, ChangeLeader, CreateBinding, DeleteBinding,
     LetGo, EditBinding, StripFinalizer, DeletePool, ServiceEvent, NodeEvent, vars
<1> QED BY Zenon,
    <1>2, <1>3, <1>4, <1>5, <1>6, PassOrigin DEF Next, Environment

(* A step preserves NativeLeased.                                          *)
LEMMA NativeStep ==
    ASSUME TypeOK, CopyOlder, NativeLeased, SaveShape, Origin
    PROVE  NativeLeased'
<1>0. Agrees(alloc, alloc')
  BY Zenon, LedgerAgrees DEF TypeOK
<1>1. ASSUME NEW l \in listeners', l.name # Foreign
      PROVE  /\ l.name \in DOMAIN alloc'
             /\ alloc'[l.name].shard = l.shard /\ alloc'[l.name].port = l.port
  <2>1. ListenerOrigin(l)
    BY Zenon DEF Origin
  <2>2. /\ l.name \in DOMAIN alloc
        /\ alloc[l.name].shard = l.shard /\ alloc[l.name].port = l.port
    BY Zenon, <1>1, <2>1 DEF ListenerOrigin, NativeLeased
  <2> QED BY Zenon, <1>0, <2>2 DEF Agrees
<1>2. ASSUME NEW s \in bsets', s.name # Foreign
      PROVE  s.name \in DOMAIN alloc' /\ alloc'[s.name].shard = s.shard
  <2>1. SetOrigin(s)
    BY Zenon DEF Origin
  <2>2. s.name \in DOMAIN alloc /\ alloc[s.name].shard = s.shard
    BY Zenon, <1>2, <2>1 DEF SetOrigin, NativeLeased
  <2> QED BY Zenon, <1>0, <2>2 DEF Agrees
<1>3. ASSUME NEW k \in Shards, op'[k].name # Foreign
      PROVE  /\ op'[k].name \in DOMAIN alloc'
             /\ alloc'[op'[k].name].shard = k
             /\ alloc'[op'[k].name].port = op'[k].port
  <2>1. OpOrigin(k)
    BY Zenon DEF Origin
  <2>2. /\ op'[k].name \in DOMAIN alloc
        /\ alloc[op'[k].name].shard = k
        /\ alloc[op'[k].name].port = op'[k].port
    <3>1. CASE op'[k] = op[k]
      BY Zenon, <1>3, <3>1 DEF NativeLeased
    <3>2. ASSUME NEW r \in Replicas, NEW u \in DOMAIN my[r].a,
                 k = my[r].a[u].shard, op'[k].name = u,
                 op'[k].port = my[r].a[u].port
          PROVE  /\ op'[k].name \in DOMAIN alloc
                 /\ alloc[op'[k].name].shard = k
                 /\ alloc[op'[k].name].port = op'[k].port
      <4>1. Agrees(my[r].a, alloc)
        BY Zenon DEF CopyOlder
      <4> QED BY Zenon, <3>2, <4>1 DEF Agrees
    <3> QED BY Zenon, <1>3, <2>1, <3>1, <3>2 DEF OpOrigin
  <2> QED BY Zenon, <1>0, <2>2 DEF Agrees
<1> QED BY Zenon, <1>1, <1>2, <1>3 DEF NativeLeased

(* Whatever exists or is being made in OCI belongs to a saved lease of its *)
(* shard and port, also when the pass that asked for it was overtaken by   *)
(* another replica or died before it could record the work request.        *)
THEOREM NativeIsLeased == Spec => []NativeLeased
<1> DEFINE I == TypeOK /\ FreshCopy /\ CopyOlder /\ NativeLeased
<1>1. Init => I
  <2>1. Init => CopyOlder
    <3>1. Init => \A r \in Replicas : my[r] = Blank
      BY Zenon DEF Init
    <3>2. Blank.a = NoLeases /\ DOMAIN NoLeases = {}
      BY Zenon DEF Blank, NoLeases
    <3> QED BY Zenon, <3>1, <3>2 DEF CopyOlder, Agrees
  <2>2. Init => NativeLeased
    <3>1. Init => listeners = {} /\ bsets = {} /\ \A k \in Shards : op[k] = NoOp
      BY Zenon DEF Init
    <3> QED BY Zenon, <3>1, NoOpFields DEF NativeLeased
  <2>3. Init => FreshCopy
    BY Zenon DEF Init, FreshCopy
  <2> QED BY <2>1, <2>2, <2>3, TypeInit
<1>2. I /\ [Next]_vars => I'
  BY ZenonT(30),
     TypeStep, StepShape, StepOrigin, FreshStep, OlderStep, NativeStep
     DEF TypeOK, Shape
<1> QED BY <1>1, <1>2, PTL DEF Spec

-----------------------------------------------------------------------------
(* How the view of a replica changes.  Nothing in it is written but by     *)
(* these four: a pass starts with the pool, lists the bindings, goes on    *)
(* with what it has and the NLBs it looks at, and is over.                 *)
Looped(c) == c \in {"loop", "nodes", "step"}
Gets(q, k) == /\ my'[q].cs[k] = get(k) /\ nlb[k] = "ACTIVE"
              /\ UNCHANGED cloudVars
Ends(q) == my'[q] = Blank /\ pc'[q] = "idle"
Starts(q) == /\ my'[q].a = alloc /\ alloc' = alloc
             /\ my'[q].p = pool /\ pool' = pool
             /\ my'[q].bs = my[q].bs /\ my'[q].todo = my[q].todo
             /\ my'[q].cs = my[q].cs
             /\ q = leader /\ Ready /\ pool.st # "gone" /\ pool.pending = NoWork
             /\ pc[q] = "idle" /\ pc'[q] \in {"provision", "list"}
             /\ pc'[q] = "provision" => pool.st = "live"
Lists(q) == /\ my'[q].a = my[q].a /\ my'[q].p = my[q].p
            /\ my'[q].bs = bind /\ bind' = bind
            /\ my'[q].todo = {u \in Bindings : Exists(bind[u])}
            /\ my'[q].cs = my[q].cs
            /\ pc[q] = "list" /\ pc'[q] = "loop"
KeepsPool(q) == /\ my'[q].p.st = my[q].p.st /\ my'[q].p.fin = my[q].p.fin
                /\ my'[q].p.workers = my[q].p.workers
                /\ \A k \in Shards : \/ my'[q].p.shards[k] = my[q].p.shards[k]
                                     \/ my'[q].p.shards[k] = "ip"
                                     \/ my[q].p.shards[k] = "none"
                /\ pc'[q] # "save" => my'[q].p = my[q].p
Goes(q) == /\ my'[q].a = my[q].a /\ my'[q].bs = my[q].bs
           /\ my'[q].todo \subseteq my[q].todo
           /\ KeepsPool(q)
           /\ \A k \in Shards : my'[q].cs[k] = my[q].cs[k] \/ Gets(q, k)
           /\ Looped(pc'[q]) => Looped(pc[q])
           /\ pc[q] \in {"idle", "save"} => pc'[q] = pc[q]
           /\ pc'[q] = "provision" => pc[q] = "provision"
           /\ pc'[q] = "idle" => pc[q] = "idle" /\ my'[q] = my[q]
ViewShape == \A q \in Replicas : Ends(q) \/ Starts(q) \/ Lists(q) \/ Goes(q)

(* A replica that a step leaves alone goes on with what it has.            *)
LEMMA StaysGoes ==
    ASSUME NEW q, my'[q] = my[q], pc'[q] = pc[q]
    PROVE  Goes(q)
BY ZenonT(30) DEF Goes, KeepsPool

(* The end of a pass.                                                      *)
LEMMA EndPassView ==
    ASSUME CtlOK, NEW r \in Replicas, EndPass(r)
    PROVE  ViewShape
<1>1. Ends(r)
  BY DEF EndPass, Ends, CtlOK
<1>2. \A q \in Replicas \ {r} : my'[q] = my[q] /\ pc'[q] = pc[q]
  BY DEF EndPass, CtlOK
<1> QED BY Zenon, <1>1, <1>2, StaysGoes DEF ViewShape

(* A step of replica r alone that goes on.                                 *)
LEMMA OneGoes ==
    ASSUME CtlOK, NEW r \in Replicas, NEW m, NEW c, Goes(r),
           my' = [my EXCEPT ![r] = m], pc' = [pc EXCEPT ![r] = c]
    PROVE  ViewShape
<1>1. \A q \in Replicas \ {r} : my'[q] = my[q] /\ pc'[q] = pc[q]
  BY DEF CtlOK
<1> QED BY <1>1, StaysGoes DEF ViewShape

(* The next binding.                                                       *)
LEMMA NextBindingView ==
    ASSUME CtlOK, NEW r \in Replicas, NEW u, NextBinding(r, u), Looped(pc[r])
    PROVE  ViewShape
<1> DEFINE m == [my[r] EXCEPT !.todo = @ \ {u}]
<1>1. CopyOK(my[r])
  BY Zenon DEF CtlOK
<1>2. my' = [my EXCEPT ![r] = m] /\ pc' = [pc EXCEPT ![r] = "loop"]
  BY DEF NextBinding
<1>3. /\ m.a = my[r].a /\ m.bs = my[r].bs /\ m.p = my[r].p /\ m.cs = my[r].cs
      /\ m.todo \subseteq my[r].todo
  BY <1>1 DEF CopyOK, Copies
<1> HIDE DEF m
<1>4. my'[r] = m /\ pc'[r] = "loop"
  BY <1>2 DEF CtlOK
<1>5. Goes(r)
  BY Zenon, <1>3, <1>4 DEF Goes, KeepsPool, Looped
<1> QED BY Zenon, <1>2, <1>5, OneGoes

(* A status patch goes on or ends the pass.                                *)
LEMMA bindingStatusView ==
    ASSUME CtlOK, NEW r \in Replicas, NEW u, NEW c, bindingStatus(r, u, c),
           Looped(pc[r])
    PROVE  ViewShape
BY Zenon, EndPassView, NextBindingView DEF bindingStatus

(* A request to OCI.                                                       *)
LEMMA IssueView ==
    ASSUME CtlOK, NEW r \in Replicas, NEW k, NEW o, Issue(r, k, o, my[r].p),
           Looped(pc[r])
    PROVE  ViewShape
<1> DEFINE q == [my[r].p EXCEPT !.pending = k]
           m == [my[r] EXCEPT !.p = q]
<1>1. CopyOK(my[r]) /\ my[r].p \in Pools
  BY Zenon, CopyParts DEF CtlOK
<1>2. CASE nlb[k] # "ACTIVE"
  BY <1>2, EndPassView DEF Issue
<1>3. CASE nlb[k] = "ACTIVE"
  <2>1. my' = [my EXCEPT ![r] = m] /\ pc' = [pc EXCEPT ![r] = "save"]
    BY Zenon, <1>3 DEF Issue
  <2>2. /\ q.st = my[r].p.st /\ q.fin = my[r].p.fin
        /\ q.workers = my[r].p.workers /\ q.shards = my[r].p.shards
    BY <1>1 DEF Pools
  <2>3. /\ m.a = my[r].a /\ m.bs = my[r].bs /\ m.p = q /\ m.cs = my[r].cs
        /\ m.todo = my[r].todo
    BY <1>1 DEF CopyOK, Copies
  <2> HIDE DEF m, q
  <2>4. my'[r] = m /\ pc'[r] = "save"
    BY <2>1 DEF CtlOK
  <2>5. Goes(r)
    BY Zenon, <2>2, <2>3, <2>4 DEF Goes, KeepsPool, Looped
  <2> QED BY Zenon, <2>1, <2>5, OneGoes
<1> QED BY Zenon, <1>2, <1>3

(* EnsureShard.                                                            *)
LEMMA EnsureShardView ==
    ASSUME CtlOK, NEW r \in Replicas, NEW k \in Shards, NEW next \in {"list", "step"},
           EnsureShard(r, k, next), pc[r] \notin {"idle", "save"},
           next = "step" => Looped(pc[r])
    PROVE  ViewShape
<1>0. /\ CopyOK(my[r]) /\ my[r].p \in Pools /\ my[r].cs \in [Shards -> Snaps]
      /\ my[r].p.shards \in [Shards -> {"none", "id", "ip"}]
  BY Zenon, CopyParts DEF CtlOK, Pools
<1>1. ASSUME NEW v, v = "ip" \/ my[r].p.shards[k] = "none", NEW w,
             my' = [my EXCEPT ![r].p.shards[k] = v, ![r].p.pending = w],
             pc' = [pc EXCEPT ![r] = "save"]
      PROVE  ViewShape
  <2> DEFINE q == [my[r].p EXCEPT !.shards[k] = v, !.pending = w]
             m == [my[r] EXCEPT !.p = q]
  <2>1. my' = [my EXCEPT ![r] = m]
    BY ZenonT(30), <1>0, <1>1 DEF CopyOK, Copies
  <2>2. /\ q.st = my[r].p.st /\ q.fin = my[r].p.fin
        /\ q.workers = my[r].p.workers
        /\ q.shards = [my[r].p.shards EXCEPT ![k] = v]
    BY <1>0 DEF Pools
  <2>3. /\ m.a = my[r].a /\ m.bs = my[r].bs /\ m.p = q /\ m.cs = my[r].cs
        /\ m.todo = my[r].todo
    BY <1>0 DEF CopyOK, Copies
  <2> HIDE DEF m, q
  <2>4. my'[r] = m /\ pc'[r] = "save"
    BY ZenonT(30), <1>1, <2>1 DEF CtlOK
  <2>a. \A j \in Shards : \/ q.shards[j] = my[r].p.shards[j] \/ q.shards[j] = "ip"
                          \/ my[r].p.shards[j] = "none"
    BY Zenon, <1>0, <1>1, <2>2
  <2>5. KeepsPool(r)
    BY Zenon, <2>2, <2>3, <2>4, <2>a DEF KeepsPool
  <2>6. Goes(r)
    BY Zenon, <2>3, <2>4, <2>5 DEF Goes, Looped
  <2> QED BY Zenon, <1>1, <2>1, <2>6, OneGoes
<1>2. CASE CreateNLB(r, k)
  BY Zenon, <1>1, <1>2 DEF CreateNLB
<1>3. CASE DiscoverNLB(r, k, next)
  <2> DEFINE snap == IF my[r].cs[k].seen THEN my[r].cs[k] ELSE get(k)
  <2>1. CASE ~my[r].cs[k].seen /\ nlb[k] # "ACTIVE"
    BY Zenon, <1>3, <2>1, EndPassView DEF DiscoverNLB
  <2>2. CASE /\ my[r].cs[k].seen \/ nlb[k] = "ACTIVE"
             /\ my[r].p.shards[k] # "ip"
    <3>1. /\ my' = [my EXCEPT ![r].p.shards[k] = "ip",
                             ![r].p.pending = NoWork]
          /\ pc' = [pc EXCEPT ![r] = "save"]
      BY Zenon, <1>3, <2>2 DEF DiscoverNLB
    <3> QED BY Zenon, <1>1, <3>1
  <2>3. CASE /\ my[r].cs[k].seen \/ nlb[k] = "ACTIVE"
             /\ my[r].p.shards[k] = "ip"
    <3> DEFINE cs == [my[r].cs EXCEPT ![k] = snap]
               m == [my[r] EXCEPT !.cs = cs]
    <3>1. /\ my' = [my EXCEPT ![r].cs[k] = snap]
          /\ pc' = [pc EXCEPT ![r] = next]
          /\ UNCHANGED cloudVars
      BY Zenon, <1>3, <2>3 DEF DiscoverNLB
    <3>2. my' = [my EXCEPT ![r] = m]
      BY Zenon, <1>0, <3>1 DEF CopyOK, Copies
    <3>3. /\ m.a = my[r].a /\ m.bs = my[r].bs /\ m.p = my[r].p /\ m.cs = cs
          /\ m.todo = my[r].todo
      BY <1>0 DEF CopyOK, Copies
    <3> HIDE DEF m
    <3>4. my'[r] = m /\ pc'[r] = next
      BY <3>1, <3>2 DEF CtlOK
    <3>5. \A j \in Shards : my'[r].cs[j] = my[r].cs[j] \/ Gets(r, j)
      BY <1>0, <2>3, <3>1, <3>3, <3>4 DEF Gets
    <3>6. Goes(r)
      BY Zenon, <3>3, <3>4, <3>5 DEF Goes, KeepsPool, Looped
    <3> QED BY Zenon, <3>1, <3>2, <3>6, OneGoes
  <2> QED BY Zenon, <1>0, <2>1, <2>2, <2>3
<1> QED BY Zenon, <1>2, <1>3 DEF EnsureShard

(* Every step of a pass outside the loop.                                  *)
LEMMA PassView ==
    ASSUME TypeOK, NEW r \in Replicas,
           \/ AddPoolFinalizer(r) \/ FreezeSpec(r) \/ FinishWork(r)
           \/ StartPass(r) \/ Provision(r) \/ ListBindings(r) \/ SavePending(r)
           \/ ReleasePool(r) \/ FinishPass(r)
    PROVE  ViewShape
<1>0. CtlOK /\ CopyOK(my[r])
  BY Zenon, TypeParts DEF CtlOK
<1>1. CASE AddPoolFinalizer(r) \/ FreezeSpec(r) \/ FinishWork(r)
  BY Zenon, <1>1, StaysGoes
     DEF AddPoolFinalizer, FreezeSpec, FinishWork, ctlVars, ViewShape
<1>2. CASE StartPass(r)
  <2> DEFINE m == [my[r] EXCEPT !.p = pool, !.a = alloc]
  <2>1. my' = [my EXCEPT ![r] = m]
    BY Zenon, <1>0, <1>2 DEF StartPass, CopyOK, Copies
  <2>2. /\ m.a = alloc /\ m.p = pool /\ m.bs = my[r].bs /\ m.cs = my[r].cs
        /\ m.todo = my[r].todo
    BY Zenon, <1>0 DEF CopyOK, Copies
  <2> HIDE DEF m
  <2>3. /\ my'[r] = m /\ pc'[r] \in {"provision", "list"}
        /\ pc'[r] = "provision" => pool.st = "live"
    BY ZenonT(30), <1>0, <1>2, <2>1 DEF StartPass, CtlOK
  <2>4. Starts(r)
    BY Zenon, <1>2, <2>2, <2>3 DEF StartPass, Due, Starts
  <2>5. \A q \in Replicas \ {r} : my'[q] = my[q] /\ pc'[q] = pc[q]
    BY Zenon, <1>0, <1>2, <2>1 DEF StartPass, CtlOK
  <2> QED BY Zenon, <2>4, <2>5, StaysGoes DEF ViewShape
<1>3. CASE Provision(r)
  BY Zenon, <1>0, <1>3, FirstShard, EnsureShardView DEF Provision
<1>4. CASE ListBindings(r)
  <2> DEFINE todo == {u \in Bindings : Exists(bind[u])}
             m == [my[r] EXCEPT !.bs = bind, !.todo = todo]
  <2>1. my' = [my EXCEPT ![r] = m]
    BY Zenon, <1>0, <1>4 DEF ListBindings, CopyOK, Copies
  <2>2. /\ m.a = my[r].a /\ m.p = my[r].p /\ m.bs = bind /\ m.cs = my[r].cs
        /\ m.todo = todo
    BY <1>0 DEF CopyOK, Copies
  <2> HIDE DEF m
  <2>3. my'[r] = m /\ pc'[r] = "loop"
    BY Zenon, <1>0, <1>4, <2>1 DEF ListBindings, CtlOK
  <2>4. Lists(r)
    BY Zenon, <1>4, <2>2, <2>3 DEF ListBindings, Lists
  <2>5. \A q \in Replicas \ {r} : my'[q] = my[q] /\ pc'[q] = pc[q]
    BY Zenon, <1>0, <1>4, <2>1 DEF ListBindings, CtlOK
  <2> QED BY Zenon, <2>4, <2>5, StaysGoes DEF ViewShape
<1>5. CASE SavePending(r) \/ ReleasePool(r) \/ FinishPass(r)
  BY Zenon, <1>0, <1>5, EndPassView DEF SavePending, ReleasePool, FinishPass, savePool
<1> QED BY Zenon, <1>1, <1>2, <1>3, <1>4, <1>5

(* Reading the endpoints changes nothing else in the view.                 *)
LEMMA SnapshotView ==
    ASSUME TypeOK, NEW r \in Replicas,
           \/ SnapshotNodes(r)
           \/ \E u \in Bindings : \/ SnapshotEndpoints(r, u)
                                  \/ FailSnapshot(r, u) \/ ReturnUnread(r, u)
    PROVE  ViewShape
<1>0. CtlOK /\ CopyOK(my[r])
  BY Zenon, TypeParts DEF CtlOK
<1>1. ASSUME NEW es, my' = [my EXCEPT ![r].es = es], Looped(pc[r]),
             NEW c \in {"loop", "nodes"}, pc' = [pc EXCEPT ![r] = c]
      PROVE  ViewShape
  <2> DEFINE m == [my[r] EXCEPT !.es = es]
  <2>1. my' = [my EXCEPT ![r] = m]
    BY Zenon, <1>1
  <2>2. /\ m.a = my[r].a /\ m.bs = my[r].bs /\ m.p = my[r].p /\ m.cs = my[r].cs
        /\ m.todo = my[r].todo
    BY <1>0 DEF CopyOK, Copies
  <2> HIDE DEF m
  <2>3. my'[r] = m /\ pc'[r] = c
    BY <1>0, <1>1, <2>1 DEF CtlOK
  <2>4. Goes(r)
    BY Zenon, <1>1, <2>2, <2>3 DEF Goes, KeepsPool, Looped
  <2> QED BY Zenon, <1>0, <1>1, <2>1, <2>4, OneGoes
<1>2. CASE SnapshotNodes(r)
  BY Zenon, <1>1, <1>2 DEF SnapshotNodes, Looped
<1>3. ASSUME NEW u \in Bindings, SnapshotEndpoints(r, u) PROVE ViewShape
  BY Zenon, <1>1, <1>3
     DEF SnapshotEndpoints, NeedsSnapshot, Admitting, Looping, Looped
<1>4. ASSUME NEW u \in Bindings, FailSnapshot(r, u) PROVE ViewShape
  <2>1. pc[r] = "loop" /\ pc' = [pc EXCEPT ![r] = "loop"]
    BY Zenon, <1>0, <1>4 DEF FailSnapshot, Admitting, Looping, CtlOK
  <2> QED BY Zenon, <1>1, <1>4, <2>1 DEF FailSnapshot, Looped
<1>5. ASSUME NEW u \in Bindings, ReturnUnread(r, u) PROVE ViewShape
  BY Zenon, <1>0, <1>5, EndPassView DEF ReturnUnread
<1> QED BY <1>2, <1>3, <1>4, <1>5

(* Every step of the loop and of the sweep.                                *)
LEMMA BindingView ==
    ASSUME TypeOK, NEW r \in Replicas, NEW u \in Bindings,
           \/ ReleaseBinding(r, u) \/ SkipBinding(r, u)
           \/ AddBindingFinalizer(r, u)
           \/ PinWorkers(r, u) \/ AllocateLease(r, u)
           \/ RejectBinding(r, u) \/ RejectUnread(r, u)
           \/ ProvisionShard(r, u) \/ HoldBackend(r, u) \/ MutateNLB(r, u)
           \/ RetireLease(r, u) \/ ReportConverged(r, u) \/ RefuseForeign(r, u)
           \/ SweepGet(r, u) \/ SweepRemove(r, u) \/ QuarantineOrphan(r, u)
    PROVE  ViewShape
<1>0. CtlOK /\ CopyOK(my[r])
  BY Zenon, TypeParts DEF CtlOK
<1>1. CASE \/ ReleaseBinding(r, u) \/ AddBindingFinalizer(r, u)
           \/ PinWorkers(r, u) \/ AllocateLease(r, u) \/ RetireLease(r, u)
           \/ RefuseForeign(r, u) \/ QuarantineOrphan(r, u)
  <2>1. EndPass(r)
    BY Zenon, <1>1 DEF ReleaseBinding, AddBindingFinalizer, updateBinding,
       PinWorkers, AllocateLease, RetireLease, RefuseForeign, QuarantineOrphan,
       savePool
  <2> QED BY Zenon, <1>0, <2>1, EndPassView
<1>2. CASE SkipBinding(r, u)
  BY ZenonT(30), <1>0, <1>2, NextBindingView DEF SkipBinding, Looping, Looped
<1>3. CASE RejectBinding(r, u) \/ RejectUnread(r, u) \/ HoldBackend(r, u)
           \/ ReportConverged(r, u)
  <2>1. Looped(pc[r]) /\ \E c : bindingStatus(r, u, c)
    BY ZenonT(30), <1>3 DEF RejectBinding, RejectUnread, HoldBackend,
       ReportConverged, Admitting, Looping, Stepping, Looped
  <2> QED BY Zenon, <1>0, <2>1, bindingStatusView
<1>4. CASE ProvisionShard(r, u)
  <2>1. pc[r] = "loop" /\ u \in DOMAIN my[r].a
        /\ EnsureShard(r, my[r].a[u].shard, "step")
    BY ZenonT(30), <1>4 DEF ProvisionShard, Looping, Active, Leased
  <2>2. my[r].a[u].shard \in Shards
    BY Zenon, <1>0, <2>1, CopyParts DEF IsLedger, Lease
  <2> QED BY ZenonT(30), <1>0, <2>1, <2>2, EnsureShardView DEF Looped
<1>5. CASE MutateNLB(r, u)
  BY Zenon, <1>0, <1>5, IssueView DEF MutateNLB, Stepping, Looped
<1>6. CASE SweepGet(r, u)
  <2> DEFINE k == my[r].a[u].shard
             cs == [my[r].cs EXCEPT ![k] = get(k)]
             m == [my[r] EXCEPT !.cs = cs]
  <2>1. CASE nlb[k] # "ACTIVE"
    BY Zenon, <1>0, <1>6, <2>1, EndPassView DEF SweepGet
  <2>2. CASE nlb[k] = "ACTIVE"
    <3>1. my' = [my EXCEPT ![r] = m] /\ pc' = [pc EXCEPT ![r] = "loop"]
          /\ pc[r] = "loop" /\ UNCHANGED cloudVars
      BY ZenonT(30),
         <1>0, <1>6, <2>2 DEF SweepGet, Sweeping, CopyOK, Copies, CtlOK
    <3>2. /\ m.a = my[r].a /\ m.bs = my[r].bs /\ m.p = my[r].p /\ m.cs = cs
          /\ m.todo = my[r].todo
      BY Zenon, <1>0 DEF CopyOK, Copies
    <3> HIDE DEF m
    <3>3. my'[r] = m /\ pc'[r] = "loop"
      BY Zenon, <1>0, <3>1 DEF CtlOK
    <3>4. \A j \in Shards : my'[r].cs[j] = my[r].cs[j] \/ Gets(r, j)
      BY ZenonT(30), <1>0, <2>2, <3>1, <3>2, <3>3, CopyParts DEF Gets
    <3>5. Goes(r)
      BY Zenon, <3>1, <3>2, <3>3, <3>4 DEF Goes, KeepsPool, Looped
    <3> QED BY ZenonT(30), <1>0, <3>1, <3>5, OneGoes
  <2> QED BY Zenon, <2>1, <2>2
<1>7. CASE SweepRemove(r, u)
  BY Zenon, <1>0, <1>7, EndPassView, IssueView DEF SweepRemove, Sweeping, Looped
<1> QED BY Zenon, <1>1, <1>2, <1>3, <1>4, <1>5, <1>6, <1>7

(* The end of a work request is recorded in the copies about to be saved.  *)
LEMMA WorkView ==
    ASSUME TypeOK, NEW k \in Shards, WorkEnds(k)
    PROVE  ViewShape
<1> DEFINE ended(p) == IF p.pending = k THEN [p EXCEPT !.pending = WorkDone]
                       ELSE p
<1> SUFFICES ASSUME NEW q \in Replicas PROVE Goes(q)
  BY Zenon DEF ViewShape
<1>0. CopyOK(my[q]) /\ my[q].p \in Pools
  BY Zenon, CopyParts, TypeParts DEF CtlOK
<1>1. pc' = pc /\ my'[q] = IF pc[q] = "save" THEN [my[q] EXCEPT !.p = ended(@)]
                           ELSE my[q]
  BY Zenon DEF WorkEnds
<1>2. /\ ended(my[q].p).st = my[q].p.st /\ ended(my[q].p).fin = my[q].p.fin
      /\ ended(my[q].p).workers = my[q].p.workers
      /\ ended(my[q].p).shards = my[q].p.shards
  BY <1>0 DEF Pools
<1> HIDE DEF ended
<1>3. /\ my'[q].a = my[q].a /\ my'[q].bs = my[q].bs /\ my'[q].cs = my[q].cs
      /\ my'[q].todo = my[q].todo
      /\ my'[q].p \in {my[q].p, ended(my[q].p)}
  BY Zenon, <1>0, <1>1 DEF CopyOK, Copies
<1> QED BY Zenon, <1>1, <1>2, <1>3 DEF Goes, KeepsPool

(* Every step.                                                             *)
LEMMA StepView == TypeOK /\ [Next]_vars => ViewShape
<1> SUFFICES ASSUME TypeOK, [Next]_vars PROVE ViewShape
  OBVIOUS
<1>1. ASSUME NEW r \in Replicas, Reconcile(r) PROVE ViewShape
  BY Zenon, <1>1, PassView, SnapshotView, BindingView DEF Reconcile
<1>2. ASSUME NEW k \in Shards, WorkSucceeds(k) \/ WorkFails(k) PROVE ViewShape
  BY Zenon, <1>2, WorkView DEF WorkSucceeds, WorkFails
<1>3. ASSUME NEW r \in Replicas, Abort(r) PROVE ViewShape
  BY Zenon, <1>3, EndPassView, TypeParts DEF Abort
<1>4. ASSUME \/ \E k \in Shards : ForeignSet(k)
             \/ \E r \in Replicas : ChangeLeader(r)
             \/ \E u \in Bindings : \/ CreateBinding(u) \/ DeleteBinding(u) \/ LetGo(u)
                                    \/ EditBinding(u) \/ StripFinalizer(u)
                                    \/ Resurrect(u)
             \/ DeletePool
             \/ \E s \in Services : ServiceEvent(s)
             \/ \E h \in Hosts : NodeEvent(h)
             \/ UNCHANGED vars
      PROVE  ViewShape
  <2>1. UNCHANGED ctlVars
    BY Zenon, <1>4 DEF ForeignSet, ChangeLeader, CreateBinding, DeleteBinding,
       LetGo, EditBinding, StripFinalizer, Resurrect, DeletePool, ServiceEvent,
       NodeEvent, vars
  <2> QED BY Zenon, <2>1, StaysGoes DEF ctlVars, ViewShape
<1> QED BY Zenon, <1>1, <1>2, <1>3, <1>4 DEF Next, Environment
=============================================================================
