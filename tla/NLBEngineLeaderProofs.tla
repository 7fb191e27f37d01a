------------------------ MODULE NLBEngineLeaderProofs ------------------------
(***************************************************************************)
(* What users of NLBEngine are told and lose.  First with any number of    *)
(* overlapping leaders: a binding that reports Configured is served in OCI,*)
(* although the views of a pass may be old.  Then while one replica leads: *)
(* its copy of the pool is the pool, what it saw in OCI is what is there,  *)
(* so that a tombstone is saved over an empty place, a finalizer goes last,*)
(* no destination is sent twice and the workers are saved before they are  *)
(* used.  Last, while endpoints only go, come back and move: no flow that  *)
(* is being served is cut.                                                 *)
(***************************************************************************)
EXTENDS NLBEngineLedgerProofs, TLAPS

-----------------------------------------------------------------------------
(* The life of a binding.  Deletion is for good, a finalizer is taken off  *)
(* by a pass that releases the binding or by an operator, and Configured   *)
(* is set by ReportConverged only.                                         *)
Gone(u) == bind[u].st \in {"deleting", "gone"}
BindShape(u) ==
    /\ Gone(u) => Gone(u)'
    /\ bind[u].st # "unborn" => bind'[u].st # "unborn"
    /\ \/ bind'[u].cond = bind[u].cond \/ bind'[u].cond = "False"
       \/ \E r \in Replicas : ReportConverged(r, u)
    /\ bind[u].fin => \/ bind'[u].fin /\ (Exists(bind[u]) => Exists(bind'[u]))
                      \/ "strip" \in plan.kinds
                      \/ \E r \in Replicas : ReleaseBinding(r, u)

(* A status patch.                                                         *)
LEMMA bindingStatusBind ==
    ASSUME bind \in BindingLists, NEW r \in Replicas, NEW u \in Bindings, NEW c,
           bindingStatus(r, u, c), NEW v \in Bindings
    PROVE  /\ bind'[v].st = bind[v].st /\ bind'[v].fin = bind[v].fin
           /\ bind'[v].cond = bind[v].cond \/ (v = u /\ bind'[v].cond = c)
<1>1. CASE bind' = bind
  BY <1>1
<1>2. CASE bind' # bind
  <2> DEFINE b == [bind[u] EXCEPT !.cond = c, !.og = my[r].bs[u].gen]
  <2>1. bind' = [bind EXCEPT ![u] = b]
    <3>1. bind' = [bind EXCEPT ![u].cond = c, ![u].og = my[r].bs[u].gen]
      BY Zenon, <1>2 DEF bindingStatus
    <3> QED BY ZenonT(30), <3>1 DEF BindingLists
  <2>2. b.st = bind[u].st /\ b.fin = bind[u].fin /\ b.cond = c
    BY DEF BindingLists
  <2> HIDE DEF b
  <2> QED BY <2>1, <2>2 DEF BindingLists
<1> QED BY <1>1, <1>2

(* Every step, for every binding.                                          *)
LEMMA StepBind ==
    ASSUME TypeOK, [Next]_vars, NEW v \in Bindings
    PROVE  BindShape(v)
<1>0. bind \in BindingLists /\ bind[v] \in
         [st : {"unborn", "live", "deleting", "gone"}, fin : BOOLEAN, gen : Nat,
          cond : {"none", "True", "False"}, og : Nat]
  BY Zenon DEF TypeOK, BindingLists
<1>1. ASSUME UNCHANGED bind PROVE BindShape(v)
  BY <1>1 DEF BindShape, Gone
<1>2. ASSUME NEW r \in Replicas, NEW u \in Bindings, bindingStatus(r, u, "False")
      PROVE  BindShape(v)
  BY <1>0, <1>2, bindingStatusBind DEF BindShape, Gone, Exists
<1>3. ASSUME NEW r \in Replicas, NEW u \in Bindings, ReportConverged(r, u)
      PROVE  BindShape(v)
  <2>1. PICK c : bindingStatus(r, u, c)
    BY Zenon, <1>3 DEF ReportConverged
  <2> QED BY <1>0, <1>3, <2>1, bindingStatusBind DEF BindShape, Gone, Exists
<1>4. ASSUME NEW r \in Replicas, NEW u \in Bindings, ReleaseBinding(r, u)
      PROVE  BindShape(v)
  <2>1. PICK st \in {"deleting", "gone"} :
            updateBinding(r, u, [bind[u] EXCEPT !.st = st, !.fin = FALSE])
    BY Zenon, <1>4 DEF ReleaseBinding, Released
  <2> DEFINE b == [bind[u] EXCEPT !.st = st, !.fin = FALSE]
  <2>2. b.st = st /\ b.cond = bind[u].cond
    BY <1>0 DEF BindingLists
  <2>3. bind' = bind \/ bind' = [bind EXCEPT ![u] = b]
    BY Zenon, <2>1 DEF updateBinding
  <2> HIDE DEF b
  <2>4. v # u => bind'[v] = bind[v]
    BY <1>0, <2>3 DEF BindingLists
  <2>5. bind'[u] = bind[u] \/ bind'[u] = b
    BY <1>0, <2>3 DEF BindingLists
  <2> QED BY <1>4, <2>1, <2>2, <2>4, <2>5 DEF BindShape, Gone
<1>5. ASSUME NEW r \in Replicas, NEW u \in Bindings, AddBindingFinalizer(r, u)
      PROVE  BindShape(v)
  <2> DEFINE b == [bind[u] EXCEPT !.fin = TRUE]
  <2>1. bind' = bind \/ bind' = [bind EXCEPT ![u] = b]
    BY Zenon, <1>5 DEF AddBindingFinalizer, updateBinding
  <2>2. b.st = bind[u].st /\ b.cond = bind[u].cond /\ b.fin
    BY <1>0 DEF BindingLists
  <2> HIDE DEF b
  <2> QED BY <1>0, <2>1, <2>2 DEF BindShape, Gone, Exists, BindingLists
<1>6. ASSUME NEW u \in Bindings, CreateBinding(u) PROVE BindShape(v)
  BY <1>0, <1>6 DEF CreateBinding, BindShape, Gone, Exists, BindingLists
<1>7. ASSUME NEW u \in Bindings, DeleteBinding(u) PROVE BindShape(v)
  BY <1>0, <1>7 DEF DeleteBinding, Released, BindShape, Gone, Exists, BindingLists
<1>8. ASSUME NEW u \in Bindings, LetGo(u) PROVE BindShape(v)
  BY <1>0, <1>8 DEF LetGo, BindShape, Gone, Exists, BindingLists
<1>9. ASSUME NEW u \in Bindings, EditBinding(u) PROVE BindShape(v)
  BY <1>0, <1>9 DEF EditBinding, BindShape, Gone, Exists, BindingLists
<1>10. ASSUME NEW u \in Bindings, StripFinalizer(u) PROVE BindShape(v)
  <2>1. PICK st : /\ bind' = [bind EXCEPT ![u].fin = FALSE, ![u].st = st]
                  /\ IF bind[u].st = "live" THEN st = "live"
                     ELSE st \in {"deleting", "gone"}
    BY Zenon, <1>10 DEF StripFinalizer, Released
  <2> DEFINE b == [bind[u] EXCEPT !.fin = FALSE, !.st = st]
  <2>2. bind' = [bind EXCEPT ![u] = b]
    BY ZenonT(30), <1>0, <2>1 DEF BindingLists
  <2>3. b.st = st /\ b.cond = bind[u].cond
    BY <1>0 DEF BindingLists
  <2> HIDE DEF b
  <2>4. "strip" \in plan.kinds
    BY <1>10 DEF StripFinalizer, Disturb
  <2>5. v # u => bind'[v] = bind[v]
    BY <1>0, <2>2 DEF BindingLists
  <2>6. bind'[u] = b
    BY <1>0, <2>2 DEF BindingLists
  <2> QED BY Zenon, <1>0, <2>1, <2>3, <2>4, <2>5, <2>6 DEF BindShape, Gone
<1>11. ASSUME NEW r \in Replicas, Reconcile(r) PROVE BindShape(v)
  <2>1. CASE \/ AddPoolFinalizer(r) \/ FreezeSpec(r) \/ FinishWork(r)
             \/ StartPass(r) \/ Provision(r) \/ ListBindings(r)
             \/ SnapshotNodes(r) \/ SavePending(r)
             \/ ReleasePool(r) \/ FinishPass(r)
    BY Zenon, <1>1, <2>1 DEF AddPoolFinalizer, FreezeSpec, FinishWork, StartPass,
       Provision, ListBindings, SnapshotNodes, SavePending, ReleasePool, FinishPass
  <2>2. ASSUME NEW u \in Bindings,
               \/ SkipBinding(r, u) \/ SnapshotEndpoints(r, u)
               \/ FailSnapshot(r, u) \/ ReturnUnread(r, u) \/ PinWorkers(r, u)
               \/ AllocateLease(r, u) \/ ProvisionShard(r, u) \/ MutateNLB(r, u)
               \/ RetireLease(r, u) \/ RefuseForeign(r, u)
               \/ SweepGet(r, u) \/ SweepRemove(r, u) \/ QuarantineOrphan(r, u)
        PROVE  BindShape(v)
    BY Zenon, <1>1, <2>2 DEF SkipBinding, SnapshotEndpoints, FailSnapshot,
       ReturnUnread, PinWorkers, AllocateLease, ProvisionShard, MutateNLB,
       RetireLease, RefuseForeign, SweepGet, SweepRemove, QuarantineOrphan
  <2>3. ASSUME NEW u \in Bindings,
               RejectBinding(r, u) \/ RejectUnread(r, u) \/ HoldBackend(r, u)
        PROVE  BindShape(v)
    BY Zenon, <1>2, <2>3 DEF RejectBinding, RejectUnread, HoldBackend
  <2> QED BY <1>3, <1>4, <1>5, <1>11, <2>1, <2>2, <2>3 DEF Reconcile
<1>12. ASSUME \/ \E k \in Shards : WorkSucceeds(k) \/ WorkFails(k) \/ ForeignSet(k)
              \/ \E r \in Replicas : Abort(r) \/ ChangeLeader(r)
              \/ \E u \in Bindings : Resurrect(u)
              \/ DeletePool
              \/ \E s \in Services : ServiceEvent(s)
              \/ \E h \in Hosts : NodeEvent(h)
              \/ UNCHANGED vars
       PROVE  BindShape(v)
  BY Zenon, <1>1, <1>12 DEF WorkSucceeds, WorkFails, WorkEnds, ForeignSet, Abort,
     ChangeLeader, Resurrect, DeletePool, ServiceEvent, NodeEvent, vars
<1> QED BY <1>6, <1>7, <1>8, <1>9, <1>10, <1>11, <1>12 DEF Next, Environment

-----------------------------------------------------------------------------
(* The inductive invariant.  Whatever a pass has listed or seen may be old,*)
(* but a binding it saw deleted is deleted, only deleted bindings have     *)
(* retired leases or are being removed from OCI, and what was seen of a    *)
(* binding in OCI is still there unless the binding was deleted since.     *)
ListedTruly(r, u) ==
    /\ my[r].bs[u].st \in {"deleting", "gone"} => Gone(u)
    /\ my[r].bs[u].st # "unborn" => bind[u].st # "unborn"
    /\ u \in my[r].todo => my[r].bs[u].st # "unborn"
    /\ u \in DOMAIN my[r].a =>
          /\ Looped(pc[r]) => my[r].bs[u].st # "unborn"
          /\ my[r].a[u].tomb => Gone(u)
ViewsTrue == \A r \in Replicas, u \in Bindings : ListedTruly(r, u)
LeasedBorn == \A u \in DOMAIN alloc :
    bind[u].st # "unborn" /\ (alloc[u].tomb => Gone(u))
OfDeleted(o) == o.name \in Bindings /\ Gone(o.name)
RemovalsGone == \A k \in Shards :
    op[k].kind \in {"deleteListener", "deleteSet"} => OfDeleted(op[k])
Listening(k, u) == \E l \in listeners : At(l, k, u)
Backed(k, u) == \E s \in bsets : At(s, k, u)
SnapLasts == \A r \in Replicas, k \in Shards, u \in Bindings : ~Gone(u) =>
    /\ (\E l \in my[r].cs[k].lst : l.name = u) => Listening(k, u)
    /\ (\E s \in my[r].cs[k].sets : s.name = u) => Backed(k, u)
Served == \A u \in Bindings : bind[u].cond = "True" /\ ~Gone(u) =>
    /\ u \in DOMAIN alloc
    /\ Listening(alloc[u].shard, u) /\ Backed(alloc[u].shard, u)
ServedInv == /\ TypeOK /\ FreshCopy /\ CopyOlder /\ NativeLeased
             /\ ViewsTrue /\ LeasedBorn /\ RemovalsGone /\ SnapLasts /\ Served

(* Where the leases of the next ledger come from.                          *)
LeaseShape(u) ==
    \/ u \in DOMAIN alloc /\ alloc'[u] = alloc[u]
    \/ \E r \in Replicas : AllocateLease(r, u) /\ ~alloc'[u].tomb
    \/ /\ alloc'[u].tomb
       /\ \E r \in Replicas : RetireLease(r, u) \/ QuarantineOrphan(r, u)

(* Every step, for every lease.                                            *)
LEMMA StepLease ==
    ASSUME TypeOK, FreshCopy, [Next]_vars, NEW u \in DOMAIN alloc'
    PROVE  LeaseShape(u)
<1>0. IsLedger(alloc)
  BY DEF TypeOK
<1>1. ASSUME alloc' = alloc PROVE LeaseShape(u)
  BY <1>1 DEF LeaseShape
<1>2. ASSUME NEW r \in Replicas, NEW p, pc[r] # "idle", savePool(r, p, my[r].a)
      PROVE  LeaseShape(u)
  BY <1>1, <1>2 DEF savePool, poolVars, FreshCopy
<1>3. ASSUME NEW r \in Replicas, NEW v \in Bindings,
             RetireLease(r, v) \/ QuarantineOrphan(r, v)
      PROVE  LeaseShape(u)
  <2>1. /\ pc[r] # "idle" /\ v \in DOMAIN my[r].a
        /\ savePool(r, my[r].p, [my[r].a EXCEPT ![v].tomb = TRUE])
    BY Zenon,
       <1>3 DEF RetireLease, Stepping, Active, Leased, QuarantineOrphan, Sweeping,
                Orphans
  <2>2. CASE r \in stale
    BY <1>1, <2>1, <2>2 DEF savePool, poolVars
  <2>3. CASE r \notin stale
    <3>1. my[r].a = alloc
      BY <2>1, <2>3 DEF FreshCopy
    <3>2. v \in DOMAIN alloc /\ alloc' = [alloc EXCEPT ![v].tomb = TRUE]
      BY <2>1, <2>3, <3>1 DEF savePool
    <3>3. u \in DOMAIN alloc /\ (u # v => alloc'[u] = alloc[u]) /\ alloc'[v].tomb
      BY <1>0, <3>2, RetireKeeps DEF IsLedger, Lease
    <3> QED BY <1>3, <3>3 DEF LeaseShape
  <2> QED BY <2>2, <2>3
<1>4. ASSUME NEW r \in Replicas, NEW v \in Bindings, AllocateLease(r, v)
      PROVE  LeaseShape(u)
  <2>1. pc[r] # "idle"
    BY Zenon, <1>4 DEF AllocateLease, Admitting, Looping
  <2>2. PICK s : savePool(r, my[r].p, WithLease(my[r].a, v,
                [svc |-> ServiceID(v), shard |-> s[1], port |-> s[2],
                 nodePort |-> IF Cluster(v) THEN svc[Service[v]].port ELSE 0,
                 tomb |-> FALSE]))
    BY Zenon, <1>4 DEF AllocateLease
  <2>3. CASE r \in stale
    BY ZenonT(30), <1>1, <2>2, <2>3 DEF savePool, poolVars
  <2>4. CASE r \notin stale
    <3>1. my[r].a = alloc
      BY <2>1, <2>4 DEF FreshCopy
    <3>2. PICK l : alloc' = WithLease(alloc, v, l) /\ l.tomb = FALSE
      BY <2>2, <2>4, <3>1 DEF savePool
    <3>3. \/ u = v /\ alloc'[u] = l
          \/ u \in DOMAIN alloc /\ alloc'[u] = alloc[u]
      BY Zenon, <3>2 DEF WithLease
    <3> QED BY Zenon, <1>4, <3>2, <3>3 DEF LeaseShape
  <2> QED BY <2>3, <2>4
<1>5. ASSUME NEW r \in Replicas, Reconcile(r) PROVE LeaseShape(u)
  <2>1. CASE SavePending(r) \/ ReleasePool(r)
    BY Zenon, <1>2, <2>1 DEF SavePending, ReleasePool, SweepDone, Sweeping
  <2>2. ASSUME NEW v \in Bindings, PinWorkers(r, v) PROVE LeaseShape(u)
    <3>1. pc[r] # "idle"
      BY Zenon, <2>2 DEF PinWorkers, NeedsSnapshot, Admitting, Looping
    <3> QED BY Zenon, <1>2, <2>2, <3>1 DEF PinWorkers
  <2>3. CASE \/ AddPoolFinalizer(r) \/ FreezeSpec(r) \/ FinishWork(r)
             \/ StartPass(r) \/ Provision(r) \/ ListBindings(r)
             \/ SnapshotNodes(r) \/ FinishPass(r)
    BY Zenon, <1>1, <2>3 DEF AddPoolFinalizer, FreezeSpec, FinishWork, StartPass,
       Provision, ListBindings, SnapshotNodes, FinishPass, poolVars
  <2>4. ASSUME NEW v \in Bindings,
               \/ ReleaseBinding(r, v) \/ SkipBinding(r, v)
               \/ AddBindingFinalizer(r, v) \/ SnapshotEndpoints(r, v)
               \/ FailSnapshot(r, v) \/ ReturnUnread(r, v) \/ RejectBinding(r, v)
               \/ RejectUnread(r, v) \/ ProvisionShard(r, v) \/ HoldBackend(r, v)
               \/ MutateNLB(r, v) \/ ReportConverged(r, v) \/ RefuseForeign(r, v)
               \/ SweepGet(r, v) \/ SweepRemove(r, v)
        PROVE  LeaseShape(u)
    BY Zenon, <1>1, <2>4 DEF ReleaseBinding, SkipBinding, AddBindingFinalizer,
       SnapshotEndpoints, FailSnapshot, ReturnUnread, RejectBinding, RejectUnread,
       ProvisionShard, HoldBackend, MutateNLB, ReportConverged, RefuseForeign,
       SweepGet, SweepRemove, poolVars
  <2> QED BY <1>3, <1>4, <1>5, <2>1, <2>2, <2>3, <2>4 DEF Reconcile
<1>6. ASSUME \/ \E k \in Shards : WorkSucceeds(k)
             \/ Environment \/ UNCHANGED vars
      PROVE  LeaseShape(u)
  BY Zenon, <1>1, <1>6 DEF Environment, WorkSucceeds, WorkFails, WorkEnds,
     ForeignSet, Abort, ChangeLeader, CreateBinding, DeleteBinding, LetGo,
     EditBinding, StripFinalizer, Resurrect, DeletePool, ServiceEvent, NodeEvent,
     vars, poolVars
<1> QED BY <1>5, <1>6 DEF Next

(* What every step leaves in the ledger belongs to bindings that exist or  *)
(* existed, and what it retires is of deleted ones.                        *)
LEMMA LeasesBorn ==
    ASSUME ServedInv, [Next]_vars, NEW u \in DOMAIN alloc'
    PROVE  bind[u].st # "unborn" /\ (alloc'[u].tomb => Gone(u))
<1>0. LeaseShape(u) /\ u \in Bindings /\ CtlOK
  BY Zenon, StepLease, TypeStep, TypeParts DEF ServedInv, TypeOK, IsLedger
<1>1. CASE u \in DOMAIN alloc /\ alloc'[u] = alloc[u]
  BY Zenon, <1>1 DEF ServedInv, LeasedBorn
<1>2. ASSUME NEW r \in Replicas, AllocateLease(r, u) PROVE bind[u].st # "unborn"
  BY Zenon,
     <1>0, <1>2 DEF AllocateLease, Admitting, Looping, IsCurrent, ServedInv,
                    ViewsTrue, ListedTruly
<1>3. ASSUME NEW r \in Replicas, RetireLease(r, u) PROVE Gone(u)
  BY Zenon,
     <1>0, <1>3 DEF RetireLease, Deleting, ServedInv, ViewsTrue, ListedTruly
<1>4. ASSUME NEW r \in Replicas, QuarantineOrphan(r, u) PROVE Gone(u)
  <2>1. pc[r] = "loop" /\ u \in DOMAIN my[r].a /\ ~Exists(my[r].bs[u])
    BY Zenon, <1>4 DEF QuarantineOrphan, Sweeping, Orphans
  <2>2. my[r].bs[u].st \in {"unborn", "live", "deleting", "gone"}
    BY <1>0, CopyParts DEF CtlOK, BindingLists
  <2> QED BY Zenon,
      <1>0, <2>1, <2>2 DEF ServedInv, ViewsTrue, ListedTruly, Looped, Exists
<1>5. Gone(u) => bind[u].st # "unborn"
  BY DEF Gone
<1> QED BY ZenonT(30), <1>0, <1>1, <1>2, <1>3, <1>4, <1>5 DEF LeaseShape

(* A removal that a pass asks for is of a deleted binding.                 *)
LEMMA NewRemovals ==
    ASSUME ServedInv, [Next]_vars, NEW k \in Shards,
           op'[k].kind \in {"deleteListener", "deleteSet"}
    PROVE  OfDeleted(op'[k])
<1>0. CloudOK /\ CtlOK
  BY Zenon, TypeParts DEF ServedInv
<1>1. ASSUME op'[k] = op[k] PROVE OfDeleted(op'[k])
  BY <1>1 DEF ServedInv, RemovalsGone
<1>2. ASSUME NEW r \in Replicas, NEW j, NEW o, NEW p, Issue(r, j, o, p),
             o.kind \in {"deleteListener", "deleteSet"} => OfDeleted(o)
      PROVE  OfDeleted(op'[k])
  BY <1>0, <1>1, <1>2 DEF Issue, CloudOK
<1>3. ASSUME NEW r \in Replicas, NEW v \in Bindings, MutateNLB(r, v)
      PROVE  OfDeleted(op'[k])
  <2>1. NextStep(r, v).kind \in {"deleteListener", "deleteSet"}
           => Deleting(r, v) /\ NextStep(r, v).name = v
    BY Zenon DEF NextStep, StepBackends, NoOp
  <2>2. Deleting(r, v) => Gone(v)
    BY Zenon DEF Deleting, ServedInv, ViewsTrue, ListedTruly
  <2> QED BY Zenon, <1>2, <1>3, <2>1, <2>2 DEF MutateNLB, OfDeleted
<1>4. ASSUME NEW r \in Replicas, NEW v \in Bindings, SweepRemove(r, v)
      PROVE  OfDeleted(op'[k])
  <2>1. pc[r] = "loop" /\ v \in Swept(r)
    BY ZenonT(30), <1>4 DEF SweepRemove, Sweeping
  <2>2. my[r].bs[v].st \in {"unborn", "live", "deleting", "gone"}
    BY ZenonT(30), <1>0, CopyParts DEF CtlOK, BindingLists
  <2>3. \/ v \in DOMAIN my[r].a /\ ~Exists(my[r].bs[v])
        \/ v \in DOMAIN my[r].a /\ my[r].a[v].tomb
    BY Zenon, <2>1 DEF Swept, Orphans
  <2>4. Gone(v)
    BY Zenon,
       <2>1, <2>2, <2>3 DEF ServedInv, ViewsTrue, ListedTruly, Looped, Exists
  <2>5. CASE ~Clean(r, v)
    BY Zenon, <1>1, <1>4, <2>5 DEF SweepRemove
  <2>6. CASE Clean(r, v)
    <3>1. Removal(r, v).name = v
      <4>1. Removal(r, v) # NoOp
        BY Zenon, <1>4, <2>6 DEF SweepRemove
      <4> QED BY Zenon, <4>1 DEF Removal, StepBackends
    <3> QED BY Zenon, <1>2, <1>4, <2>4, <2>6, <3>1 DEF SweepRemove, OfDeleted
  <2> QED BY <2>5, <2>6
<1>5. ASSUME NEW r \in Replicas, NEW j, NEW next, EnsureShard(r, j, next)
      PROVE  OfDeleted(op'[k])
  <2>1. CASE CreateNLB(r, j)
    <3>1. PICK o : o = [NoOp EXCEPT !.kind = "create"]
      BY Zenon
    <3>2. op' = [op EXCEPT ![j] = o]
      BY Zenon, <2>1, <3>1 DEF CreateNLB
    <3>3. o.kind = "create"
      BY <3>1 DEF NoOp
    <3> QED BY Zenon, <1>0, <1>1, <3>2, <3>3 DEF CloudOK
  <2>2. CASE DiscoverNLB(r, j, next)
    BY Zenon, <1>1, <2>2 DEF DiscoverNLB, cloudVars
  <2> QED BY Zenon, <1>5, <2>1, <2>2 DEF EnsureShard
<1>6. ASSUME NEW r \in Replicas, Reconcile(r) PROVE OfDeleted(op'[k])
  <2>1. CASE Provision(r) \/ \E v \in Bindings : ProvisionShard(r, v)
    BY Zenon, <1>5, <2>1 DEF Provision, ProvisionShard
  <2>2. CASE \/ AddPoolFinalizer(r) \/ FreezeSpec(r) \/ FinishWork(r)
             \/ StartPass(r) \/ ListBindings(r) \/ SnapshotNodes(r)
             \/ SavePending(r) \/ ReleasePool(r) \/ FinishPass(r)
    BY Zenon, <1>1, <2>2 DEF AddPoolFinalizer, FreezeSpec, FinishWork, StartPass,
       ListBindings, SnapshotNodes, SavePending, ReleasePool, FinishPass, cloudVars
  <2>3. ASSUME NEW v \in Bindings,
               \/ ReleaseBinding(r, v) \/ SkipBinding(r, v)
               \/ AddBindingFinalizer(r, v) \/ SnapshotEndpoints(r, v)
               \/ FailSnapshot(r, v) \/ ReturnUnread(r, v) \/ PinWorkers(r, v)
               \/ AllocateLease(r, v) \/ RejectBinding(r, v) \/ RejectUnread(r, v)
               \/ HoldBackend(r, v) \/ RetireLease(r, v) \/ ReportConverged(r, v)
               \/ RefuseForeign(r, v) \/ SweepGet(r, v) \/ QuarantineOrphan(r, v)
        PROVE  OfDeleted(op'[k])
    BY Zenon, <1>1, <2>3 DEF ReleaseBinding, SkipBinding, AddBindingFinalizer,
       SnapshotEndpoints, FailSnapshot, ReturnUnread, PinWorkers, AllocateLease,
       RejectBinding, RejectUnread, HoldBackend, RetireLease, ReportConverged,
       RefuseForeign, SweepGet, QuarantineOrphan, cloudVars
  <2> QED BY Zenon, <1>3, <1>4, <1>6, <2>1, <2>2, <2>3 DEF Reconcile
<1>7. ASSUME NEW j \in Shards, WorkSucceeds(j) \/ WorkFails(j)
      PROVE  OfDeleted(op'[k])
  <2>1. op' = [op EXCEPT ![j] = NoOp]
    BY Zenon, <1>7 DEF WorkSucceeds, WorkFails, WorkEnds
  <2> QED BY Zenon, <1>0, <1>1, <2>1, NoOpFields DEF CloudOK
<1>8. ASSUME \/ \E j \in Shards : ForeignSet(j)
             \/ \E r \in Replicas : Abort(r) \/ ChangeLeader(r)
             \/ \E u \in Bindings : \/ CreateBinding(u) \/ DeleteBinding(u) \/ LetGo(u)
                                    \/ EditBinding(u) \/ StripFinalizer(u)
                                    \/ Resurrect(u)
             \/ DeletePool
             \/ \E s \in Services : ServiceEvent(s)
             \/ \E h \in Hosts : NodeEvent(h)
             \/ UNCHANGED vars
      PROVE  OfDeleted(op'[k])
  BY Zenon, <1>1, <1>8 DEF ForeignSet, Abort, ChangeLeader, CreateBinding,
     DeleteBinding, LetGo, EditBinding, StripFinalizer, Resurrect, DeletePool,
     ServiceEvent, NodeEvent, vars, cloudVars
<1> QED BY Zenon, <1>6, <1>7, <1>8 DEF Next, Environment

(* Nothing of a binding that is not deleted disappears from OCI.           *)
LEMMA NothingLost ==
    ASSUME ServedInv, [Next]_vars, NEW k \in Shards, NEW u \in Bindings, ~Gone(u)
    PROVE  /\ Listening(k, u) => Listening(k, u)'
           /\ Backed(k, u) => Backed(k, u)'
<1> DEFINE Goal == /\ Listening(k, u) => Listening(k, u)'
                   /\ Backed(k, u) => Backed(k, u)'
<1> SUFFICES Goal
  BY Zenon
<1>1. ASSUME listeners \subseteq listeners', bsets \subseteq bsets' PROVE Goal
  BY <1>1 DEF Listening, Backed
<1>2. ASSUME UNCHANGED <<listeners, bsets>> PROVE Goal
  BY <1>1, <1>2
<1>3. ASSUME NEW j \in Shards, WorkSucceeds(j) PROVE Goal
  <2> DEFINE o == op[j]
  <2>1. o.kind \in {"deleteListener", "deleteSet"} => o.name # u
    BY DEF ServedInv, RemovalsGone, OfDeleted
  <2>2. listeners' = Applied(j, o).lst /\ bsets' = Applied(j, o).sets
    BY <1>3 DEF WorkSucceeds
  <2> HIDE DEF o
  <2>3. Listening(k, u) => Listening(k, u)'
    <3>1. \A l \in listeners : At(l, k, u) => l \in Applied(j, o).lst
      BY <2>1 DEF Applied, At
    <3> QED BY Zenon, <2>2, <3>1 DEF Listening
  <2>4. Backed(k, u) => Backed(k, u)'
    <3>1. ASSUME NEW s \in bsets, At(s, k, u) PROVE \E t \in bsets' : At(t, k, u)
      <4>1. CASE o.kind = "putSet" /\ At(s, j, o.name)
        <5> DEFINE t == [shard |-> j, name |-> o.name, be |-> o.be]
        <5>1. t \in Applied(j, o).sets
          BY <4>1 DEF Applied
        <5>2. At(t, k, u)
          BY <3>1, <4>1 DEF At
        <5> QED BY <2>2, <5>1, <5>2
      <4>2. CASE ~(o.kind = "putSet" /\ At(s, j, o.name))
        <5>1. s \in Applied(j, o).sets
          BY Zenon, <2>1, <3>1, <4>2 DEF Applied, At
        <5> QED BY <2>2, <3>1, <5>1
      <4> QED BY <4>1, <4>2
    <3> QED BY <3>1 DEF Backed
  <2> QED BY <2>3, <2>4
<1>4. ASSUME NEW j \in Shards, ForeignSet(j) PROVE Goal
  <2>1. u # Foreign
    BY Zenon, EngineConstants DEF Foreign
  <2>2. \A s \in bsets : s.name # Foreign => s \in bsets'
    BY <1>4 DEF ForeignSet
  <2> QED BY Zenon, <1>4, <2>1, <2>2 DEF ForeignSet, Listening, Backed, At
<1>5. ASSUME NEW v \in Bindings, Resurrect(v) PROVE Goal
  BY Zenon, <1>1, <1>5 DEF Resurrect
<1> HIDE DEF Goal
<1>6. ASSUME NEW r \in Replicas, Reconcile(r) PROVE Goal
  <2>1. UNCHANGED <<listeners, bsets>>
    BY ZenonT(60), <1>6 DEF Reconcile, AddPoolFinalizer, FreezeSpec, FinishWork,
       StartPass, Provision, ListBindings, SnapshotNodes, SavePending,
       ReleaseBinding, SkipBinding, AddBindingFinalizer, SnapshotEndpoints,
       FailSnapshot, ReturnUnread, PinWorkers, AllocateLease, RejectBinding,
       RejectUnread, ProvisionShard, HoldBackend, MutateNLB, RetireLease,
       ReportConverged, RefuseForeign, SweepGet, SweepRemove, QuarantineOrphan,
       ReleasePool, FinishPass, EnsureShard, CreateNLB, DiscoverNLB, cloudVars
  <2> QED BY <1>2, <2>1
<1>7. ASSUME \/ \E j \in Shards : WorkFails(j)
             \/ \E r \in Replicas : Abort(r) \/ ChangeLeader(r)
             \/ \E v \in Bindings : \/ CreateBinding(v) \/ DeleteBinding(v) \/ LetGo(v)
                                    \/ EditBinding(v) \/ StripFinalizer(v)
             \/ DeletePool
             \/ \E s \in Services : ServiceEvent(s)
             \/ \E h \in Hosts : NodeEvent(h)
             \/ UNCHANGED vars
      PROVE  Goal
  BY Zenon, <1>2, <1>7 DEF WorkFails, Abort, ChangeLeader, CreateBinding,
     DeleteBinding, LetGo, EditBinding, StripFinalizer, DeletePool, ServiceEvent,
     NodeEvent, vars, cloudVars
<1> QED BY Zenon, <1>3, <1>4, <1>5, <1>6, <1>7 DEF Next, Environment

(* ReportConverged has seen the listener and the set of the binding, and   *)
(* what it saw is there unless the binding was deleted since.              *)
LEMMA ReportServed ==
    ASSUME ServedInv, NEW r \in Replicas, NEW u \in Bindings,
           ReportConverged(r, u), ~Gone(u)
    PROVE  /\ u \in DOMAIN alloc
           /\ Listening(alloc[u].shard, u) /\ Backed(alloc[u].shard, u)
<1> DEFINE k == my[r].a[u].shard
           snap == my[r].cs[k]
<1>1. u \in DOMAIN my[r].a /\ NextStep(r, u) = NoOp /\ ~Deleting(r, u)
  BY Zenon DEF ReportConverged, Stepping, Active, Leased
<1>2. k \in Shards /\ u \in DOMAIN alloc /\ alloc[u].shard = k
  <2>1. IsLedger(my[r].a)
    BY Zenon, CopyParts, TypeParts DEF ServedInv, CtlOK
  <2> QED BY Zenon,
      <1>1, <2>1 DEF ServedInv, CopyOlder, Agrees, IsLedger, Lease
<1>3. /\ \E l \in snap.lst : l.name = u
      /\ \E s \in snap.sets : s.name = u
  <2>1. PICK remove : remove = Deleting(r, u)
    OBVIOUS
  <2>2. ~remove /\ StepBackends(snap, u, my[r].a[u].port, Wanted(r, u).be, remove) = NoOp
    BY Zenon, <1>1, <2>1 DEF NextStep
  <2> HIDE DEF snap
  <2> QED BY Zenon, <2>2 DEF StepBackends, NoOp
<1> QED BY ZenonT(30), <1>2, <1>3 DEF ServedInv, SnapLasts

(* A step preserves the truth of the views.                                *)
LEMMA ViewsStep ==
    ASSUME ServedInv, [Next]_vars
    PROVE  ViewsTrue'
<1> SUFFICES ASSUME NEW q \in Replicas, NEW u \in Bindings
             PROVE  ListedTruly(q, u)'
  BY Zenon DEF ViewsTrue
<1>0. ListedTruly(q, u) /\ BindShape(u)
  BY StepBind DEF ServedInv, ViewsTrue
<1>1. CASE Ends(q)
  BY <1>1 DEF Ends, Blank, Unborn, NoLeases, ListedTruly
<1>2. CASE Starts(q)
  <2>1. u \in DOMAIN alloc /\ alloc[u].tomb => Gone(u)
    BY Zenon DEF ServedInv, LeasedBorn
  <2> QED BY Zenon, <1>0, <1>2, <2>1 DEF Starts, ListedTruly, BindShape, Looped
<1>3. CASE Lists(q)
  <2>1. u \in DOMAIN my[q].a => bind[u].st # "unborn"
    BY Zenon DEF ServedInv, CopyOlder, Agrees, LeasedBorn
  <2>2. Gone(u) <=> Gone(u)'
    BY <1>3 DEF Lists, Gone
  <2> QED BY Zenon, <1>0, <1>3, <2>1, <2>2 DEF Lists, ListedTruly, Gone, Exists
<1>4. CASE Goes(q)
  BY ZenonT(30), <1>0, <1>4 DEF Goes, ListedTruly, BindShape
<1> QED BY <1>1, <1>2, <1>3, <1>4, StepView DEF ServedInv, ViewShape

(* A step preserves what the snapshots of the NLBs say of a binding.       *)
LEMMA SnapStep ==
    ASSUME ServedInv, [Next]_vars
    PROVE  SnapLasts'
<1> SUFFICES ASSUME NEW q \in Replicas, NEW k \in Shards, NEW u \in Bindings, ~Gone(u)'
             PROVE  /\ (\E l \in my'[q].cs[k].lst : l.name = u) => Listening(k, u)'
                    /\ (\E s \in my'[q].cs[k].sets : s.name = u) => Backed(k, u)'
  BY ZenonT(30) DEF SnapLasts
<1>1. ~Gone(u)
  BY Zenon, StepBind DEF ServedInv, BindShape
<1>2. CASE my'[q].cs[k] = my[q].cs[k]
  <2>1. /\ (\E l \in my[q].cs[k].lst : l.name = u) => Listening(k, u)
        /\ (\E s \in my[q].cs[k].sets : s.name = u) => Backed(k, u)
    BY ZenonT(30), <1>1 DEF ServedInv, SnapLasts
  <2> QED BY ZenonT(30), <1>1, <1>2, <2>1, NothingLost
<1>3. CASE my'[q].cs[k] = NoSnap
  BY <1>3 DEF NoSnap
<1>4. CASE Gets(q, k)
  <2>1. UNCHANGED <<listeners, bsets>>
    BY Zenon, <1>4 DEF Gets, cloudVars
  <2>2. /\ \A l \in my'[q].cs[k].lst : l \in listeners /\ l.shard = k
        /\ \A s \in my'[q].cs[k].sets : s \in bsets /\ s.shard = k
    <3>1. /\ get(k).lst = {l \in listeners : l.shard = k}
          /\ get(k).sets = {s \in bsets : s.shard = k}
      BY Zenon DEF get
    <3> QED BY Zenon, <1>4, <3>1 DEF Gets
  <2> QED BY Zenon, <2>1, <2>2 DEF Listening, Backed, At
<1>5. Ends(q) => my'[q].cs[k] = NoSnap
  BY DEF Ends, Blank
<1> QED BY ZenonT(30), <1>2, <1>3, <1>4, <1>5, StepView
        DEF ServedInv, ViewShape, Starts, Lists, Goes

(* A step preserves the invariant.                                         *)
LEMMA ServedStep == ServedInv /\ [Next]_vars => ServedInv'
<1> SUFFICES ASSUME ServedInv, [Next]_vars PROVE ServedInv'
  BY Zenon
<1>1. TypeOK' /\ FreshCopy' /\ CopyOlder' /\ NativeLeased' /\ Agrees(alloc, alloc')
  BY Zenon,
     TypeStep, StepShape, StepOrigin, FreshStep, OlderStep, NativeStep, LedgerAgrees
     DEF ServedInv, TypeOK, Shape
<1>2. \A u \in Bindings : BindShape(u)
  BY Zenon, StepBind DEF ServedInv
<1>3. LeasedBorn'
  <2>1. DOMAIN alloc' \subseteq Bindings
    BY Zenon, <1>1 DEF TypeOK, IsLedger
  <2> QED BY Zenon, <1>2, <2>1, LeasesBorn DEF LeasedBorn, BindShape
<1>4. RemovalsGone'
  <2> SUFFICES ASSUME NEW k \in Shards,
                      op'[k].kind \in {"deleteListener", "deleteSet"}
               PROVE  OfDeleted(op[k])'
    BY DEF RemovalsGone
  <2>1. OfDeleted(op'[k])
    BY NewRemovals
  <2> QED BY Zenon, <1>2, <2>1 DEF OfDeleted, BindShape
<1>5. Served'
  <2> SUFFICES ASSUME NEW u \in Bindings, bind'[u].cond = "True", ~Gone(u)'
               PROVE  /\ u \in DOMAIN alloc'
                      /\ Listening(alloc[u].shard, u)'
                      /\ Backed(alloc[u].shard, u)'
    BY Zenon DEF Served
  <2>1. ~Gone(u)
    BY <1>2 DEF BindShape
  <2>2. /\ u \in DOMAIN alloc
        /\ Listening(alloc[u].shard, u) /\ Backed(alloc[u].shard, u)
    <3>1. CASE bind[u].cond = "True"
      BY Zenon, <2>1, <3>1 DEF ServedInv, Served
    <3>2. CASE \E r \in Replicas : ReportConverged(r, u)
      BY Zenon, <2>1, <3>2, ReportServed
    <3> QED BY ZenonT(30), <1>2, <3>1, <3>2 DEF BindShape
  <2>3. alloc[u].shard \in Shards
    BY Zenon, <2>2 DEF ServedInv, TypeOK, IsLedger, Lease
  <2>4. PICK k : k = alloc[u].shard
    BY Zenon
  <2>5. Listening(k, u)' /\ Backed(k, u)'
    BY <2>1, <2>2, <2>3, <2>4, NothingLost
  <2>6. u \in DOMAIN alloc' /\ alloc'[u].shard = k
    BY Zenon, <1>1, <2>2, <2>4 DEF Agrees
  <2> QED BY <2>5, <2>6 DEF Listening, Backed
<1> QED BY <1>1, <1>3, <1>4, <1>5, ViewsStep, SnapStep DEF ServedInv

(* It holds at the start.                                                  *)
LEMMA ServedInit == Init => ServedInv
<1> SUFFICES ASSUME Init PROVE ServedInv
  BY Zenon
<1>1. FreshCopy /\ CopyOlder /\ NativeLeased
  BY ZenonT(30)
     DEF Init, FreshCopy, CopyOlder, Agrees, Blank, NoLeases, NativeLeased, NoOp,
         Foreign
<1>2. ViewsTrue /\ LeasedBorn
  BY ZenonT(30)
     DEF Init, ViewsTrue, ListedTruly, LeasedBorn, Blank, Unborn, NoLeases
<1>3. RemovalsGone
  BY ZenonT(30) DEF Init, RemovalsGone, NoOp
<1>4. SnapLasts
  BY ZenonT(30) DEF Init, SnapLasts, Blank, NoSnap
<1>5. Served
  BY Zenon DEF Init, Served, Unborn
<1> QED BY Zenon, <1>1, <1>2, <1>3, <1>4, <1>5, TypeInit DEF ServedInv

(* A live binding that reports Configured for its generation has an active *)
(* lease, its listener on the port of the lease and its backend set, also  *)
(* when the report was made on old reads, by a deposed leader or while     *)
(* others were at work in OCI.                                             *)
THEOREM ConfiguredIsServed == Spec => []ConfiguredServed
<1>1. ServedInv => ConfiguredServed
  <2> SUFFICES ASSUME ServedInv, NEW u \in Bindings, bind[u].st = "live",
                      bind[u].cond = "True"
               PROVE  /\ u \in DOMAIN alloc /\ ~alloc[u].tomb
                      /\ \E l \in listeners : At(l, alloc[u].shard, u)
                                                /\ l.port = alloc[u].port
                      /\ \E s \in bsets : At(s, alloc[u].shard, u)
    BY Zenon DEF ConfiguredServed
  <2>1. ~Gone(u)
    BY DEF Gone
  <2>2. u \in DOMAIN alloc /\ ~alloc[u].tomb
    BY <2>1 DEF ServedInv, Served, LeasedBorn
  <2>3. PICK l \in listeners : At(l, alloc[u].shard, u)
    BY <2>1 DEF ServedInv, Served, Listening
  <2>4. l.port = alloc[u].port
    <3>1. l.name = u /\ u # Foreign
      BY <2>3, EngineConstants DEF At, Foreign
    <3> QED BY ZenonT(30), <3>1 DEF ServedInv, NativeLeased
  <2> QED BY ZenonT(30), <2>1, <2>2, <2>3, <2>4 DEF ServedInv, Served, Backed
<1> QED BY <1>1, ServedInit, ServedStep, PTL DEF Spec

-----------------------------------------------------------------------------
(* One leader.                                                             *)
Sole == "leader" \notin plan.kinds

-----------------------------------------------------------------------------
(* How a step changes what is not a view.                                  *)

(* The kinds of disturbance are those of the plan from the start, and only *)
(* one of them changes the leader.                                         *)
LEMMA StepPlan ==
    ASSUME TypeOK, [Next]_vars
    PROVE  plan'.kinds = plan.kinds /\ (Sole => leader' = leader)
<1> DEFINE Goal == plan'.kinds = plan.kinds /\ (Sole => leader' = leader)
<1> SUFFICES Goal
  BY Zenon
<1>0. plan \in PlanSet
  BY DEF TypeOK
<1>1. ASSUME UNCHANGED <<plan, leader>> PROVE Goal
  BY <1>1
<1>2. ASSUME NEW kind, Disturb(kind), UNCHANGED leader PROVE Goal
  BY <1>0, <1>2 DEF Disturb, PlanSet
<1>3. ASSUME NEW r, ChangeLeader(r) PROVE Goal
  BY Zenon, <1>0, <1>3 DEF ChangeLeader, Disturb, PlanSet, Sole
<1> HIDE DEF Goal
<1>4. ASSUME NEW r \in Replicas, Reconcile(r) PROVE Goal
  <2>1. CASE \E u \in Bindings : FailSnapshot(r, u) \/ RejectUnread(r, u)
    BY Zenon, <1>2, <2>1 DEF FailSnapshot, RejectUnread
  <2>2. CASE \/ AddPoolFinalizer(r) \/ FreezeSpec(r) \/ FinishWork(r)
             \/ StartPass(r) \/ Provision(r) \/ ListBindings(r)
             \/ SnapshotNodes(r) \/ SavePending(r)
             \/ ReleasePool(r) \/ FinishPass(r)
    BY Zenon, <1>1, <2>2 DEF AddPoolFinalizer, FreezeSpec, FinishWork, StartPass,
       Provision, ListBindings, SnapshotNodes, SavePending, ReleasePool, FinishPass
  <2>3. ASSUME NEW u \in Bindings,
               \/ ReleaseBinding(r, u) \/ SkipBinding(r, u)
               \/ AddBindingFinalizer(r, u) \/ SnapshotEndpoints(r, u)
               \/ ReturnUnread(r, u) \/ PinWorkers(r, u)
               \/ AllocateLease(r, u) \/ RejectBinding(r, u)
               \/ ProvisionShard(r, u) \/ HoldBackend(r, u) \/ MutateNLB(r, u)
               \/ RetireLease(r, u) \/ ReportConverged(r, u) \/ RefuseForeign(r, u)
               \/ SweepGet(r, u) \/ SweepRemove(r, u) \/ QuarantineOrphan(r, u)
        PROVE  Goal
    BY Zenon, <1>1, <2>3 DEF ReleaseBinding, SkipBinding, AddBindingFinalizer,
       SnapshotEndpoints, ReturnUnread, PinWorkers, AllocateLease, RejectBinding,
       ProvisionShard, HoldBackend, MutateNLB, RetireLease, ReportConverged,
       RefuseForeign, SweepGet, SweepRemove, QuarantineOrphan
  <2> QED BY Zenon, <1>4, <2>1, <2>2, <2>3 DEF Reconcile
<1>5. ASSUME \/ \E k \in Shards : WorkSucceeds(k)
             \/ \E u \in Bindings : CreateBinding(u) \/ DeleteBinding(u) \/ LetGo(u)
             \/ DeletePool \/ UNCHANGED vars
      PROVE  Goal
  BY Zenon, <1>1, <1>5 DEF WorkSucceeds, WorkEnds, CreateBinding, DeleteBinding,
     LetGo, DeletePool, vars
<1>6. ASSUME \/ \E k \in Shards : WorkFails(k) \/ ForeignSet(k)
             \/ \E r \in Replicas : Abort(r)
             \/ \E u \in Bindings : EditBinding(u) \/ StripFinalizer(u) \/ Resurrect(u)
             \/ \E s \in Services : ServiceEvent(s)
             \/ \E h \in Hosts : NodeEvent(h)
      PROVE  Goal
  BY Zenon, <1>2, <1>6 DEF WorkFails, WorkEnds, ForeignSet, Abort, EditBinding,
     StripFinalizer, Resurrect, ServiceEvent, NodeEvent
<1> QED BY Zenon, <1>3, <1>4, <1>5, <1>6 DEF Next, Environment

(* The pool is deleted by a user, gets its finalizer between passes, or is *)
(* written at the end of a pass whose copy of it is the latest.            *)
PoolKept == /\ pool'.shards = pool.shards /\ pool'.workers = pool.workers
            /\ alloc' = alloc
PoolDeleted == /\ PoolKept /\ pool'.fin = pool.fin
               /\ pool.st = "live" /\ stale' = Replicas
               /\ pool'.st = (IF pool.fin THEN "deleting" ELSE "gone")
               /\ UNCHANGED ctlVars
PoolClaimed == /\ PoolKept /\ pool'.st = pool.st /\ pool.st = "live" /\ pool'.fin
               /\ pc[leader] = "idle" /\ UNCHANGED ctlVars
PoolSaved(r) ==
    /\ pc[r] # "idle" /\ r \notin stale /\ Ends(r)
    /\ pool'.shards = my[r].p.shards
    /\ \/ pool'.fin = my[r].p.fin /\ pool'.st = my[r].p.st
       \/ /\ pool'.st = "gone" /\ alloc' = my[r].a
          /\ \A u \in DOMAIN alloc' : alloc'[u].tomb
PoolShape ==
    \/ PoolKept /\ pool'.fin = pool.fin /\ pool'.st = pool.st
    \/ PoolDeleted \/ PoolClaimed
    \/ \E r \in Replicas : PoolSaved(r)

(* Every step.                                                             *)
LEMMA StepPool ==
    ASSUME TypeOK, [Next]_vars
    PROVE  PoolShape /\ \A q \in stale : q \in stale' \/ StartPass(q)
<1> DEFINE Goal == PoolShape /\ \A q \in stale : q \in stale' \/ StartPass(q)
<1> SUFFICES Goal
  BY Zenon
<1>0. pool \in Pools /\ CtlOK /\ stale \subseteq Replicas
  BY TypeParts DEF PoolOK
<1>1. ASSUME UNCHANGED poolVars PROVE Goal
  BY <1>1 DEF poolVars, PoolShape, PoolKept
<1>2. ASSUME NEW r \in Replicas, NEW p, NEW a, pc[r] # "idle", savePool(r, p, a),
             p.shards = my[r].p.shards,
             \/ p.fin = my[r].p.fin /\ p.st = my[r].p.st
             \/ /\ p.st = "gone" /\ a = my[r].a
                /\ \A u \in DOMAIN my[r].a : my[r].a[u].tomb
      PROVE  Goal
  <2>1. CASE r \in stale
    BY Zenon, <1>1, <1>2, <2>1 DEF savePool
  <2>2. CASE r \notin stale
    <3>1. pool' = p /\ alloc' = a /\ stale' = Replicas /\ Ends(r)
      BY Zenon, <1>0, <1>2, <2>2 DEF savePool, EndPass, Ends, CtlOK
    <3>2. PoolSaved(r)
      BY Zenon, <1>2, <2>2, <3>1 DEF PoolSaved
    <3> QED BY Zenon, <1>0, <3>1, <3>2 DEF PoolShape
  <2> QED BY <2>1, <2>2
<1>3. ASSUME NEW r \in Replicas, NEW a, pc[r] # "idle", savePool(r, my[r].p, a)
      PROVE  Goal
  BY Zenon, <1>2, <1>3
<1>4. ASSUME NEW r \in Replicas, FreezeSpec(r) \/ FinishWork(r) PROVE Goal
  <2>1. PoolKept /\ pool'.fin = pool.fin /\ pool'.st = pool.st /\ stale' = Replicas
    BY <1>0, <1>4 DEF FreezeSpec, FinishWork, PoolKept, Pools
  <2> QED BY Zenon, <1>0, <2>1 DEF PoolShape
<1>5. ASSUME NEW r \in Replicas, AddPoolFinalizer(r) PROVE Goal
  <2>1. PoolClaimed /\ stale' = Replicas
    BY <1>0, <1>5 DEF AddPoolFinalizer, Due, PoolClaimed, PoolKept, Pools
  <2> QED BY Zenon, <1>0, <2>1 DEF PoolShape
<1>6. ASSUME DeletePool PROVE Goal
  <2>1. PoolDeleted
    BY <1>0, <1>6 DEF DeletePool, PoolDeleted, PoolKept, Pools
  <2> QED BY Zenon, <1>0, <2>1 DEF PoolShape, PoolDeleted
<1>7. ASSUME NEW k \in Shards, WorkEnds(k) PROVE Goal
  <2>1. pool' = IF pool.pending = k THEN [pool EXCEPT !.pending = WorkDone] ELSE pool
    BY <1>7 DEF WorkEnds
  <2>2. PoolKept /\ pool'.fin = pool.fin /\ pool'.st = pool.st /\ stale' = stale
    BY <1>0, <1>7, <2>1 DEF WorkEnds, PoolKept, Pools
  <2> QED BY <2>2 DEF PoolShape
<1>8. ASSUME NEW r \in Replicas, StartPass(r) PROVE Goal
  BY Zenon, <1>8 DEF StartPass, PoolShape, PoolKept
<1>9. ASSUME NEW r \in Replicas, NEW u \in Bindings, PinWorkers(r, u) PROVE Goal
  <2> DEFINE p == [my[r].p EXCEPT !.workers = Workers(r)]
  <2>1. my[r].p \in Pools
    BY Zenon, <1>0, CopyParts DEF CtlOK
  <2>2. p.shards = my[r].p.shards /\ p.fin = my[r].p.fin /\ p.st = my[r].p.st
    BY <2>1 DEF Pools
  <2>3. pc[r] # "idle" /\ savePool(r, p, my[r].a)
    BY Zenon, <1>9 DEF PinWorkers, NeedsSnapshot, Admitting, Looping
  <2> HIDE DEF p
  <2> QED BY Zenon, <1>2, <2>2, <2>3
<1>10. ASSUME NEW r \in Replicas, ReleasePool(r) PROVE Goal
  <2> DEFINE p == [my[r].p EXCEPT !.fin = FALSE, !.st = "gone"]
  <2>1. my[r].p \in Pools /\ IsLedger(my[r].a)
    BY Zenon, <1>0, CopyParts DEF CtlOK
  <2>2. p.shards = my[r].p.shards /\ p.st = "gone"
    BY Zenon, <2>1 DEF Pools
  <2>3. pc[r] # "idle" /\ savePool(r, p, my[r].a)
    BY <1>10 DEF ReleasePool, SweepDone, Sweeping
  <2>4. \A u \in DOMAIN my[r].a : my[r].a[u].tomb
    BY Zenon, <1>10, <2>1 DEF ReleasePool, SweepDone, Orphans, IsLedger
  <2> HIDE DEF p
  <2> QED BY Zenon, <1>2, <2>2, <2>3, <2>4
<1> HIDE DEF Goal
<1>11. ASSUME NEW r \in Replicas, Reconcile(r) PROVE Goal
  <2>1. CASE SavePending(r)
    BY Zenon, <1>3, <2>1 DEF SavePending
  <2>2. ASSUME NEW u \in Bindings, RetireLease(r, u) \/ QuarantineOrphan(r, u)
                                   \/ AllocateLease(r, u)
        PROVE  Goal
    <3>1. pc[r] # "idle"
      BY Zenon,
         <2>2 DEF RetireLease, Stepping, QuarantineOrphan, Sweeping, AllocateLease,
                  Admitting, Looping
    <3> QED BY Zenon, <1>3, <2>2, <3>1 DEF RetireLease, QuarantineOrphan,
               AllocateLease
  <2>3. CASE \/ Provision(r) \/ ListBindings(r) \/ SnapshotNodes(r) \/ FinishPass(r)
    BY Zenon, <1>1, <2>3 DEF Provision, ListBindings, SnapshotNodes, FinishPass
  <2>4. ASSUME NEW v \in Bindings,
               \/ ReleaseBinding(r, v) \/ SkipBinding(r, v)
               \/ AddBindingFinalizer(r, v) \/ SnapshotEndpoints(r, v)
               \/ FailSnapshot(r, v) \/ ReturnUnread(r, v) \/ RejectBinding(r, v)
               \/ RejectUnread(r, v) \/ ProvisionShard(r, v) \/ HoldBackend(r, v)
               \/ MutateNLB(r, v) \/ ReportConverged(r, v) \/ RefuseForeign(r, v)
               \/ SweepGet(r, v) \/ SweepRemove(r, v)
        PROVE  Goal
    BY Zenon, <1>1, <2>4 DEF ReleaseBinding, SkipBinding, AddBindingFinalizer,
       SnapshotEndpoints, FailSnapshot, ReturnUnread, RejectBinding, RejectUnread,
       ProvisionShard, HoldBackend, MutateNLB, ReportConverged, RefuseForeign,
       SweepGet, SweepRemove
  <2> QED BY Zenon,
      <1>4, <1>5, <1>8, <1>9, <1>10, <1>11, <2>1, <2>2, <2>3, <2>4
          DEF Reconcile
<1>12. ASSUME \/ \E k \in Shards : ForeignSet(k)
              \/ \E r \in Replicas : Abort(r) \/ ChangeLeader(r)
              \/ \E u \in Bindings : \/ CreateBinding(u) \/ DeleteBinding(u) \/ LetGo(u)
                                     \/ EditBinding(u) \/ StripFinalizer(u)
                                     \/ Resurrect(u)
              \/ \E s \in Services : ServiceEvent(s)
              \/ \E h \in Hosts : NodeEvent(h)
              \/ UNCHANGED vars
       PROVE  Goal
  BY Zenon, <1>1, <1>12 DEF ForeignSet, Abort, ChangeLeader, CreateBinding,
     DeleteBinding, LetGo, EditBinding, StripFinalizer, Resurrect, ServiceEvent,
     NodeEvent, vars
<1>13. ASSUME NEW k \in Shards, WorkSucceeds(k) \/ WorkFails(k) PROVE Goal
  BY Zenon, <1>7, <1>13 DEF WorkSucceeds, WorkFails
<1> QED BY Zenon, <1>6, <1>11, <1>12, <1>13 DEF Next, Environment

(* The request on an NLB stays, ends, or is made by a pass that has only   *)
(* its save left.                                                          *)
Asks(r, u, k) ==
    /\ u \in DOMAIN my[r].a /\ my[r].a[u].shard = k
    /\ \/ MutateNLB(r, u) /\ op'[k] = NextStep(r, u)
       \/ SweepRemove(r, u) /\ op'[k] = Removal(r, u)
    /\ op'[k] # NoOp
OpShape(k) ==
    \/ op'[k] = op[k] /\ nlb'[k] = nlb[k]
    \/ op[k] # NoOp /\ op'[k] = NoOp /\ nlb'[k] # "UPDATING"
    \/ /\ nlb'[k] = "UPDATING"
       /\ \E r \in Replicas :
             /\ pc[r] \notin {"idle", "save"} /\ pc'[r] = "save"
             /\ \/ op'[k].name = Foreign /\ op'[k].kind = "create"
                \/ \E u \in Bindings : Asks(r, u, k)

(* Every step, for every NLB.                                              *)
LEMMA StepOp ==
    ASSUME TypeOK, [Next]_vars, NEW k \in Shards
    PROVE  OpShape(k)
<1>0. CloudOK /\ CtlOK
  BY Zenon, TypeParts
<1>1. ASSUME UNCHANGED <<nlb, op>> PROVE OpShape(k)
  BY Zenon, <1>1 DEF OpShape
<1>2. ASSUME NEW r \in Replicas, NEW j \in Shards, NEW next, EnsureShard(r, j, next),
             pc[r] \notin {"idle", "save"}
      PROVE  OpShape(k)
  <2>1. CASE CreateNLB(r, j)
    <3>1. k # j => op'[k] = op[k] /\ nlb'[k] = nlb[k]
      BY Zenon, <1>0, <2>1 DEF CreateNLB, CloudOK
    <3>2. /\ nlb'[j] = "UPDATING" /\ pc'[r] = "save"
          /\ op'[j].name = Foreign /\ op'[j].kind = "create"
      BY <1>0, <2>1 DEF CreateNLB, CloudOK, CtlOK, NoOp, Foreign
    <3> QED BY Zenon, <1>2, <3>1, <3>2 DEF OpShape
  <2>2. CASE DiscoverNLB(r, j, next)
    BY Zenon, <1>1, <2>2 DEF DiscoverNLB, cloudVars
  <2> QED BY <1>2, <2>1, <2>2 DEF EnsureShard
<1>3. ASSUME NEW r \in Replicas, NEW u \in Bindings, NEW o,
             u \in DOMAIN my[r].a, Issue(r, my[r].a[u].shard, o, my[r].p), o # NoOp,
             pc[r] \notin {"idle", "save"},
             \/ MutateNLB(r, u) /\ o = NextStep(r, u)
             \/ SweepRemove(r, u) /\ o = Removal(r, u)
      PROVE  OpShape(k)
  <2> DEFINE j == my[r].a[u].shard
  <2>0. j \in Shards
    BY Zenon, <1>0, <1>3, CopyParts DEF CtlOK, IsLedger, Lease
  <2>1. CASE nlb[j] # "ACTIVE"
    BY Zenon, <1>1, <1>3, <2>1 DEF Issue
  <2>2. CASE nlb[j] = "ACTIVE"
    <3>1. k # j => op'[k] = op[k] /\ nlb'[k] = nlb[k]
      BY Zenon, <1>0, <1>3, <2>2 DEF Issue, CloudOK
    <3>2. nlb'[j] = "UPDATING" /\ pc'[r] = "save" /\ op'[j] = o
      <4>1. /\ nlb' = [nlb EXCEPT ![j] = "UPDATING"]
            /\ pc' = [pc EXCEPT ![r] = "save"] /\ op' = [op EXCEPT ![j] = o]
        BY Zenon, <1>3, <2>2 DEF Issue
      <4> QED BY Zenon, <1>0, <2>0, <4>1 DEF CloudOK, CtlOK
    <3>3. Asks(r, u, j)
      BY Zenon, <1>3, <3>2 DEF Asks
    <3> QED BY Zenon, <1>3, <3>1, <3>2, <3>3 DEF OpShape
  <2> QED BY Zenon, <2>1, <2>2
<1>4. ASSUME NEW r \in Replicas, NEW u \in Bindings, MutateNLB(r, u)
      PROVE  OpShape(k)
  <2>1. /\ u \in DOMAIN my[r].a /\ pc[r] = "step"
        /\ Issue(r, my[r].a[u].shard, NextStep(r, u), my[r].p)
        /\ NextStep(r, u) # NoOp
    BY Zenon, <1>4 DEF MutateNLB, Stepping, Active, Leased
  <2> QED BY Zenon, <1>3, <1>4, <2>1
<1>5. ASSUME NEW r \in Replicas, NEW u \in Bindings, SweepRemove(r, u)
      PROVE  OpShape(k)
  <2>1. pc[r] = "loop" /\ u \in DOMAIN my[r].a
    BY Zenon, <1>5 DEF SweepRemove, Sweeping, Swept, Orphans
  <2>2. CASE ~Clean(r, u)
    BY Zenon, <1>1, <1>5, <2>2 DEF SweepRemove
  <2>3. CASE Clean(r, u)
    <3>1. /\ Issue(r, my[r].a[u].shard, Removal(r, u), my[r].p)
          /\ Removal(r, u) # NoOp
      BY Zenon, <1>5, <2>3 DEF SweepRemove
    <3> QED BY Zenon, <1>3, <1>5, <2>1, <3>1
  <2> QED BY <2>2, <2>3
<1>6. ASSUME NEW j \in Shards, WorkSucceeds(j) \/ WorkFails(j) PROVE OpShape(k)
  BY Zenon, <1>0, <1>6 DEF WorkSucceeds, WorkFails, WorkEnds, CloudOK, OpShape
<1>7. ASSUME NEW r \in Replicas, Reconcile(r) PROVE OpShape(k)
  <2>1. CASE Provision(r)
    BY Zenon, <1>2, <2>1, FirstShard DEF Provision
  <2>2. ASSUME NEW u \in Bindings, ProvisionShard(r, u) PROVE OpShape(k)
    <3>1. pc[r] = "loop" /\ u \in DOMAIN my[r].a
          /\ EnsureShard(r, my[r].a[u].shard, "step")
      BY Zenon, <2>2 DEF ProvisionShard, Looping, Active, Leased
    <3>2. my[r].a[u].shard \in Shards
      BY Zenon, <1>0, <3>1, CopyParts DEF CtlOK, IsLedger, Lease
    <3> QED BY Zenon, <1>2, <3>1, <3>2
  <2>3. CASE \/ AddPoolFinalizer(r) \/ FreezeSpec(r) \/ FinishWork(r)
             \/ StartPass(r) \/ ListBindings(r) \/ SnapshotNodes(r)
             \/ SavePending(r) \/ ReleasePool(r) \/ FinishPass(r)
    BY Zenon, <1>1, <2>3 DEF AddPoolFinalizer, FreezeSpec, FinishWork, StartPass,
       ListBindings, SnapshotNodes, SavePending, ReleasePool, FinishPass, cloudVars
  <2>4. ASSUME NEW v \in Bindings,
               \/ ReleaseBinding(r, v) \/ SkipBinding(r, v)
               \/ AddBindingFinalizer(r, v) \/ SnapshotEndpoints(r, v)
               \/ FailSnapshot(r, v) \/ ReturnUnread(r, v) \/ PinWorkers(r, v)
               \/ AllocateLease(r, v) \/ RejectBinding(r, v) \/ RejectUnread(r, v)
               \/ HoldBackend(r, v) \/ RetireLease(r, v) \/ ReportConverged(r, v)
               \/ RefuseForeign(r, v) \/ SweepGet(r, v) \/ QuarantineOrphan(r, v)
        PROVE  OpShape(k)
    BY Zenon, <1>1, <2>4 DEF ReleaseBinding, SkipBinding, AddBindingFinalizer,
       SnapshotEndpoints, FailSnapshot, ReturnUnread, PinWorkers, AllocateLease,
       RejectBinding, RejectUnread, HoldBackend, RetireLease, ReportConverged,
       RefuseForeign, SweepGet, QuarantineOrphan, cloudVars
  <2> QED BY Zenon, <1>4, <1>5, <1>7, <2>1, <2>2, <2>3, <2>4 DEF Reconcile
<1>8. ASSUME \/ \E j \in Shards : ForeignSet(j)
             \/ \E r \in Replicas : Abort(r) \/ ChangeLeader(r)
             \/ \E u \in Bindings : \/ CreateBinding(u) \/ DeleteBinding(u) \/ LetGo(u)
                                    \/ EditBinding(u) \/ StripFinalizer(u)
                                    \/ Resurrect(u)
             \/ DeletePool
             \/ \E s \in Services : ServiceEvent(s)
             \/ \E h \in Hosts : NodeEvent(h)
             \/ UNCHANGED vars
      PROVE  OpShape(k)
  BY Zenon, <1>1, <1>8 DEF ForeignSet, Abort, ChangeLeader, CreateBinding,
     DeleteBinding, LetGo, EditBinding, StripFinalizer, Resurrect, DeletePool,
     ServiceEvent, NodeEvent, vars, cloudVars
<1> QED BY Zenon, <1>6, <1>7, <1>8 DEF Next, Environment

(* What is on an NLB changes when a request succeeds; besides, others add  *)
(* and remove sets of their own and, if the plan has it, put back what was *)
(* removed.                                                                *)
Alone(k) ==
    /\ \A l \in listeners : l.shard = k => l \in listeners'
    /\ \A s \in bsets : s.shard = k /\ s.name # Foreign => s \in bsets'
    /\ \A l \in listeners' : l.shard = k =>
          l \in listeners \/ "resurrect" \in plan.kinds
    /\ \A s \in bsets' : s.shard = k =>
          \/ s \in bsets
          \/ s.be = {} /\ (s.name = Foreign \/ "resurrect" \in plan.kinds)

(* Every step, for every NLB.                                              *)
LEMMA StepCloud ==
    ASSUME TypeOK, [Next]_vars, NEW k \in Shards
    PROVE  Alone(k) \/ WorkSucceeds(k)
<1> DEFINE Goal == Alone(k) \/ WorkSucceeds(k)
<1> SUFFICES Goal
  BY Zenon
<1>1. ASSUME UNCHANGED <<listeners, bsets>> PROVE Goal
  BY <1>1 DEF Alone
<1>2. ASSUME NEW j \in Shards, WorkSucceeds(j), j # k PROVE Goal
  <2> DEFINE o == op[j]
  <2>1. listeners' = Applied(j, o).lst /\ bsets' = Applied(j, o).sets
    BY Zenon, <1>2 DEF WorkSucceeds
  <2> HIDE DEF o
  <2>2. /\ \A l \in Applied(j, o).lst : l.shard = k => l \in listeners
        /\ \A l \in listeners : l.shard = k => l \in Applied(j, o).lst
    BY <1>2 DEF Applied, At
  <2>3. /\ \A s \in Applied(j, o).sets : s.shard = k => s \in bsets
        /\ \A s \in bsets : s.shard = k => s \in Applied(j, o).sets
    BY <1>2 DEF Applied, At
  <2> QED BY Zenon, <2>1, <2>2, <2>3 DEF Alone
<1>3. ASSUME NEW j \in Shards, ForeignSet(j) PROVE Goal
  <2>1. PICK x : x = [shard |-> j, name |-> Foreign, be |-> {}]
    BY Zenon
  <2>2. x.name = Foreign /\ x.be = {}
    BY <2>1
  <2>3. /\ listeners' = listeners
        /\ bsets' = bsets \ {x} \/ bsets' = bsets \cup {x}
    BY Zenon, <1>3, <2>1 DEF ForeignSet
  <2> QED BY Zenon, <2>2, <2>3 DEF Alone
<1>4. ASSUME NEW v \in Bindings, Resurrect(v) PROVE Goal
  BY <1>4 DEF Resurrect, Disturb, Alone
<1> HIDE DEF Goal
<1>6. ASSUME NEW r \in Replicas, Reconcile(r) PROVE Goal
  <2>1. UNCHANGED <<listeners, bsets>>
    BY ZenonT(60), <1>6 DEF Reconcile, AddPoolFinalizer, FreezeSpec, FinishWork,
       StartPass, Provision, ListBindings, SnapshotNodes, SavePending,
       ReleaseBinding, SkipBinding, AddBindingFinalizer, SnapshotEndpoints,
       FailSnapshot, ReturnUnread, PinWorkers, AllocateLease, RejectBinding,
       RejectUnread, ProvisionShard, HoldBackend, MutateNLB, RetireLease,
       ReportConverged, RefuseForeign, SweepGet, SweepRemove, QuarantineOrphan,
       ReleasePool, FinishPass, EnsureShard, CreateNLB, DiscoverNLB, cloudVars
  <2> QED BY <1>1, <2>1
<1>7. ASSUME \/ \E j \in Shards : WorkFails(j)
             \/ \E r \in Replicas : Abort(r) \/ ChangeLeader(r)
             \/ \E v \in Bindings : \/ CreateBinding(v) \/ DeleteBinding(v) \/ LetGo(v)
                                    \/ EditBinding(v) \/ StripFinalizer(v)
             \/ DeletePool
             \/ \E s \in Services : ServiceEvent(s)
             \/ \E h \in Hosts : NodeEvent(h)
             \/ UNCHANGED vars
      PROVE  Goal
  BY Zenon, <1>1, <1>7 DEF WorkFails, Abort, ChangeLeader, CreateBinding,
     DeleteBinding, LetGo, EditBinding, StripFinalizer, DeletePool, ServiceEvent,
     NodeEvent, vars, cloudVars
<1>8. ASSUME WorkSucceeds(k) PROVE Goal
  BY Zenon, <1>8 DEF Goal
<1> QED BY Zenon, <1>2, <1>3, <1>4, <1>6, <1>7, <1>8 DEF Next, Environment

(* A pass comes to "step" from ProvisionShard only, and waits there with   *)
(* what it has.                                                            *)
LEMMA StepArrives ==
    ASSUME TypeOK, [Next]_vars, NEW q \in Replicas, pc'[q] = "step"
    PROVE  \/ pc[q] = "step" /\ my'[q] = my[q]
           \/ \E u \in Bindings : ProvisionShard(q, u)
<1> DEFINE Goal == \/ pc[q] = "step" /\ my'[q] = my[q]
                   \/ \E u \in Bindings : ProvisionShard(q, u)
<1> SUFFICES Goal
  BY Zenon
<1>0. CtlOK
  BY TypeParts
<1>1. ASSUME UNCHANGED ctlVars PROVE Goal
  BY <1>1 DEF ctlVars
<1>2. ASSUME NEW r \in Replicas, NEW m, NEW c,
             my' = [my EXCEPT ![r] = m], pc' = [pc EXCEPT ![r] = c], c # "step"
      PROVE  Goal
  BY <1>0, <1>2 DEF CtlOK
<1>3. ASSUME NEW r \in Replicas, EndPass(r) PROVE Goal
  BY Zenon, <1>2, <1>3 DEF EndPass
<1>4. ASSUME NEW r \in Replicas, NEW u, NextBinding(r, u) PROVE Goal
  BY Zenon, <1>2, <1>4 DEF NextBinding
<1>5. ASSUME NEW r \in Replicas, NEW u, NEW c, bindingStatus(r, u, c) PROVE Goal
  <2> HIDE DEF Goal
  <2> QED BY Zenon, <1>3, <1>4, <1>5 DEF bindingStatus
<1>6. ASSUME NEW r \in Replicas, NEW k, NEW o, NEW p, Issue(r, k, o, p) PROVE Goal
  <2>1. CASE EndPass(r)
    BY Zenon, <1>3, <2>1
  <2>2. CASE ~EndPass(r)
    <3>1. \E m : my' = [my EXCEPT ![r] = m] /\ pc' = [pc EXCEPT ![r] = "save"]
      BY Zenon, <1>6, <2>2 DEF Issue
    <3> QED BY Zenon, <1>2, <3>1
  <2> QED BY Zenon, <2>1, <2>2
<1>7. ASSUME NEW r \in Replicas, r # q, NEW k \in Shards, NEW next,
             EnsureShard(r, k, next)
      PROVE  Goal
  <2>1. pc'[q] = pc[q] /\ my'[q] = my[q]
    BY Zenon,
       <1>0, <1>7 DEF EnsureShard, CreateNLB, DiscoverNLB, EndPass, CtlOK
  <2> QED BY Zenon, <2>1
<1>8. ASSUME Provision(q) PROVE FALSE
  BY Zenon,
     <1>0, <1>8 DEF Provision, EnsureShard, CreateNLB, DiscoverNLB, EndPass, CtlOK
<1>9. ASSUME NEW k \in Shards, WorkEnds(k) PROVE Goal
  BY Zenon, <1>9 DEF WorkEnds
<1>10. ASSUME NEW r \in Replicas, NEW u \in Bindings, ProvisionShard(r, u) PROVE Goal
  <2>1. /\ EnsureShard(r, my[r].a[u].shard, "step") /\ u \in DOMAIN my[r].a
    BY Zenon, <1>10 DEF ProvisionShard, Active, Leased
  <2>2. my[r].a[u].shard \in Shards
    BY Zenon, <1>0, <2>1, CopyParts DEF CtlOK, IsLedger, Lease
  <2> QED BY Zenon, <1>7, <1>10, <2>1, <2>2
<1>11. ASSUME NEW r \in Replicas, NEW u \in Bindings, SweepGet(r, u) PROVE Goal
  <2>1. /\ pc[r] = "loop"
        /\ \/ EndPass(r)
           \/ pc' = pc /\ \A x \in Replicas \ {r} : my'[x] = my[x]
    BY Zenon, <1>0, <1>11 DEF SweepGet, Sweeping, CtlOK
  <2> QED BY Zenon, <1>3, <2>1
<1>12. ASSUME NEW r \in Replicas, NEW u \in Bindings, FailSnapshot(r, u) PROVE Goal
  <2>1. pc[r] = "loop" /\ pc' = pc /\ \A x \in Replicas \ {r} : my'[x] = my[x]
    BY <1>0, <1>12 DEF FailSnapshot, Admitting, Looping, CtlOK
  <2> QED BY Zenon, <2>1
<1>13. ASSUME NEW r \in Replicas,
              \/ StartPass(r) \/ ListBindings(r) \/ SnapshotNodes(r)
              \/ \E u \in Bindings : SnapshotEndpoints(r, u)
       PROVE  Goal
  <2>1. /\ \A x \in Replicas \ {r} : my'[x] = my[x] /\ pc'[x] = pc[x]
        /\ pc'[r] # "step"
    BY <1>0, <1>13 DEF StartPass, ListBindings, SnapshotNodes, SnapshotEndpoints,
                       CtlOK
  <2> QED BY Zenon, <2>1
<1>14. ASSUME NEW r \in Replicas, Provision(r) PROVE Goal
  BY Zenon, <1>7, <1>8, <1>14, FirstShard DEF Provision
<1> HIDE DEF Goal
<1>15. ASSUME NEW r \in Replicas, Reconcile(r) PROVE Goal
  <2>1. CASE AddPoolFinalizer(r) \/ FreezeSpec(r) \/ FinishWork(r)
    BY Zenon, <1>1, <2>1 DEF AddPoolFinalizer, FreezeSpec, FinishWork
  <2>2. CASE SavePending(r) \/ ReleasePool(r) \/ FinishPass(r)
    BY Zenon, <1>3, <2>2 DEF SavePending, ReleasePool, FinishPass, savePool
  <2>3. ASSUME NEW u \in Bindings,
               \/ ReleaseBinding(r, u) \/ AddBindingFinalizer(r, u)
               \/ ReturnUnread(r, u) \/ PinWorkers(r, u) \/ AllocateLease(r, u)
               \/ RetireLease(r, u) \/ RefuseForeign(r, u) \/ QuarantineOrphan(r, u)
        PROVE  Goal
    BY Zenon, <1>3, <2>3 DEF ReleaseBinding, AddBindingFinalizer, updateBinding,
       ReturnUnread, PinWorkers, AllocateLease, RetireLease, RefuseForeign,
       QuarantineOrphan, savePool
  <2>4. ASSUME NEW u \in Bindings,
               \/ SkipBinding(r, u) \/ RejectBinding(r, u) \/ RejectUnread(r, u)
               \/ HoldBackend(r, u) \/ ReportConverged(r, u)
        PROVE  Goal
    BY Zenon, <1>4, <1>5, <2>4 DEF SkipBinding, RejectBinding, RejectUnread,
       HoldBackend, ReportConverged
  <2>5. ASSUME NEW u \in Bindings, MutateNLB(r, u) \/ SweepRemove(r, u)
        PROVE  Goal
    BY Zenon, <1>3, <1>6, <2>5 DEF MutateNLB, SweepRemove
  <2> QED BY Zenon,
      <1>10, <1>11, <1>12, <1>13, <1>14, <1>15, <2>1, <2>2, <2>3, <2>4, <2>5
          DEF Reconcile
<1>16. ASSUME NEW k \in Shards, WorkSucceeds(k) \/ WorkFails(k) PROVE Goal
  BY Zenon, <1>9, <1>16 DEF WorkSucceeds, WorkFails
<1>17. ASSUME NEW r \in Replicas, Abort(r) PROVE Goal
  BY Zenon, <1>3, <1>17 DEF Abort
<1>18. ASSUME \/ \E k \in Shards : ForeignSet(k)
              \/ \E r \in Replicas : ChangeLeader(r)
              \/ \E u \in Bindings : \/ CreateBinding(u) \/ DeleteBinding(u) \/ LetGo(u)
                                     \/ EditBinding(u) \/ StripFinalizer(u)
                                     \/ Resurrect(u)
              \/ DeletePool
              \/ \E s \in Services : ServiceEvent(s)
              \/ \E h \in Hosts : NodeEvent(h)
              \/ UNCHANGED vars
       PROVE  Goal
  BY Zenon, <1>1, <1>18 DEF ForeignSet, ChangeLeader, CreateBinding, DeleteBinding,
     LetGo, EditBinding, StripFinalizer, Resurrect, DeletePool, ServiceEvent,
     NodeEvent, vars
<1> QED BY <1>15, <1>16, <1>17, <1>18 DEF Next, Environment

-----------------------------------------------------------------------------
(* The inductive invariant.  The pass of a sole leader has the ledger, the *)
(* workers and the NLBs of the pool in its copy, and its snapshots of OCI  *)
(* are what is there, but for what others add.                             *)

IdleBlank == \A r \in Replicas : pc[r] = "idle" => my[r] = Blank
TodoListed == \A r \in Replicas : \A u \in my[r].todo : Exists(my[r].bs[u])
Quiet == \A k \in Shards : nlb[k] # "UPDATING" => op[k] = NoOp
StepReady == \A r \in Replicas, u \in Bindings :
    pc[r] = "step" /\ IsCurrent(r, u) =>
        /\ u \in DOMAIN my[r].a
        /\ my[r].cs[my[r].a[u].shard].seen
        /\ my[r].p.shards[my[r].a[u].shard] = "ip"
        /\ ~Deleting(r, u) /\ ~Suspended(my[r].bs[u]) => WorkersPrepared(r, u)

Mirrors(r) ==
    /\ r = leader /\ my[r].a = alloc
    /\ pool.fin /\ my[r].p.fin /\ my[r].p.workers = pool.workers
    /\ r \notin stale => my[r].p.st = pool.st
    /\ \A k \in Shards :
          /\ pool.shards[k] = "ip" => my[r].p.shards[k] = "ip"
          /\ pc[r] # "save" /\ my[r].p.shards[k] = "ip" => pool.shards[k] = "ip"
CopyIsPool == \A r \in Replicas : pc[r] # "idle" => Mirrors(r)

Shows(c, k) ==
    /\ nlb[k] = "ACTIVE"
    /\ \A x \in c.lst \cup c.sets : x.shard = k
    /\ c.lst \subseteq listeners
    /\ \A s \in c.sets : s.name # Foreign => s \in bsets
    /\ \A s \in bsets : s.shard = k => s \in c.sets \/ s.be = {}
    /\ "resurrect" \notin plan.kinds =>
          /\ \A l \in listeners : l.shard = k => l \in c.lst
          /\ \A s \in bsets : s.shard = k /\ s.name # Foreign => s \in c.sets
SnapIsCloud == \A r \in Replicas, k \in Shards :
    pc[r] \notin {"idle", "save"} /\ my[r].cs[k].seen => Shows(my[r].cs[k], k)

PoolEnd ==
    /\ pool.fin \/ DOMAIN alloc = {} \/ pool.st = "gone"
    /\ pool.st = "deleting" => pool.fin
    /\ pool.st = "gone" => /\ \A u \in DOMAIN alloc : alloc[u].tomb
                           /\ \A r \in Replicas : pc[r] = "idle"
Apart ==
    /\ \A s, t \in bsets : s.shard = t.shard /\ s.name # t.name => s.be \cap t.be = {}
    /\ \A k \in Shards : op[k].kind = "putSet" =>
          \A s \in bsets : s.shard = k /\ s.name # op[k].name => s.be \cap op[k].be = {}
OnShards ==
    /\ \A x \in listeners \cup bsets : x.name # Foreign => pool.shards[x.shard] = "ip"
    /\ \A k \in Shards : op[k].name # Foreign => pool.shards[k] = "ip"
Dark == \A u \in DOMAIN alloc : alloc[u].tomb => ~Native(u)
Held(u) == bind[u].fin /\ Exists(bind[u])
Finalized ==
    /\ \A u \in DOMAIN alloc : ~alloc[u].tomb => Held(u)
    /\ \A r \in Replicas, u \in Bindings :
          my[r].bs[u].fin /\ my[r].bs[u].st = "live" => Held(u)

Led == /\ CopyIsPool /\ SnapIsCloud /\ PoolEnd /\ Apart
       /\ "resurrect" \notin plan.kinds => OnShards /\ Dark
       /\ "strip" \notin plan.kinds => Finalized
LeaderInv == /\ ServedInv /\ IdleBlank /\ TodoListed /\ Quiet /\ StepReady
             /\ Sole => Led

(* Steps preserve what holds of every replica.                             *)
LEMMA ViewsKept ==
    ASSUME TypeOK, IdleBlank, TodoListed, [Next]_vars
    PROVE  IdleBlank' /\ TodoListed'
<1> SUFFICES ASSUME NEW q \in Replicas
             PROVE  /\ pc'[q] = "idle" => my'[q] = Blank
                    /\ \A u \in my'[q].todo : Exists(my'[q].bs[u])
  BY Zenon DEF IdleBlank, TodoListed
<1>0. /\ pc[q] = "idle" => my[q] = Blank
      /\ \A u \in my[q].todo : Exists(my[q].bs[u])
  BY Zenon DEF IdleBlank, TodoListed
<1>1. CASE Ends(q)
  BY <1>1 DEF Ends, Blank
<1>2. CASE Starts(q)
  BY Zenon, <1>0, <1>2 DEF Starts
<1>3. CASE Lists(q)
  BY Zenon, <1>3 DEF Lists
<1>4. CASE Goes(q)
  BY Zenon, <1>0, <1>4 DEF Goes
<1> QED BY Zenon, <1>1, <1>2, <1>3, <1>4, StepView DEF ViewShape

(* An NLB without a request in progress is not UPDATING.                   *)
LEMMA QuietStep ==
    ASSUME TypeOK, Quiet, [Next]_vars
    PROVE  Quiet'
BY Zenon, StepOp DEF Quiet, OpShape

(* ProvisionShard leaves a pass at "step" with everything that Step uses.  *)
LEMMA ReadyStep ==
    ASSUME TypeOK, StepReady, [Next]_vars
    PROVE  StepReady'
<1> SUFFICES ASSUME NEW q \in Replicas, NEW u \in Bindings, pc'[q] = "step",
                    IsCurrent(q, u)'
             PROVE  /\ u \in DOMAIN my'[q].a
                    /\ my'[q].cs[my'[q].a[u].shard].seen
                    /\ my'[q].p.shards[my'[q].a[u].shard] = "ip"
                    /\ (~Deleting(q, u) /\ ~Suspended(my[q].bs[u]))'
                          => WorkersPrepared(q, u)'
  BY Zenon DEF StepReady
<1>0. CtlOK /\ CopyOK(my[q])
  BY Zenon, TypeParts DEF CtlOK
<1>1. CASE pc[q] = "step" /\ my'[q] = my[q]
  BY ZenonT(30),
     <1>1 DEF StepReady, IsCurrent, Deleting, WorkersPrepared, WorkersChanged,
              WorkerProblem, Workers
<1>2. ASSUME NEW v \in Bindings, ProvisionShard(q, v)
      PROVE  /\ u \in DOMAIN my'[q].a
             /\ my'[q].cs[my'[q].a[u].shard].seen
             /\ my'[q].p.shards[my'[q].a[u].shard] = "ip"
             /\ (~Deleting(q, u) /\ ~Suspended(my[q].bs[u]))'
                   => WorkersPrepared(q, u)'
  <2> DEFINE k == my[q].a[v].shard
             snap == IF my[q].cs[k].seen THEN my[q].cs[k] ELSE get(k)
             cs == [my[q].cs EXCEPT ![k] = snap]
             m == [my[q] EXCEPT !.cs = cs]
  <2>0. /\ v \in DOMAIN my[q].a /\ EnsureShard(q, k, "step") /\ IsCurrent(q, v)
        /\ Deleting(q, v) \/ my[q].bs[v].fin
        /\ NeedsSnapshot(q, v) => my[q].es.seen /\ WorkersPrepared(q, v)
    BY Zenon, <1>2 DEF ProvisionShard, Looping, Active, Leased
  <2>1. my' = [my EXCEPT ![q].cs[k] = snap] /\ my[q].p.shards[k] = "ip"
    BY ZenonT(30),
       <1>0, <2>0 DEF EnsureShard, CreateNLB, DiscoverNLB, EndPass, CtlOK
  <2>2. my'[q] = m
    BY Zenon, <1>0, <2>1 DEF CtlOK, CopyOK, Copies
  <2>3. k \in Shards /\ my[q].cs \in [Shards -> Snaps] /\ my[q].todo \subseteq Nat
    BY ZenonT(30), <1>0, <2>0, CopyParts, EngineConstants DEF IsLedger, Lease
  <2>4. /\ m.a = my[q].a /\ m.bs = my[q].bs /\ m.p = my[q].p /\ m.cs = cs
        /\ m.todo = my[q].todo /\ m.es = my[q].es
    BY Zenon, <1>0 DEF CopyOK, Copies
  <2>5. snap.seen
    BY Zenon DEF get
  <2>6. cs[k].seen
    BY Zenon, <2>3, <2>5
  <2> HIDE DEF m, cs
  <2>7. u = v
    <3>1. u \in my[q].todo /\ v \in my[q].todo /\ u <= v /\ v <= u
      BY Zenon, <2>0, <2>2, <2>4 DEF IsCurrent
    <3> QED BY <2>3, <3>1
  <2>8. ~Deleting(q, v) /\ ~Suspended(my[q].bs[v]) => WorkersPrepared(q, v)
    BY Zenon, <1>2, <2>0 DEF NeedsSnapshot, ProvisionShard
  <2>9. /\ Deleting(q, v)' <=> Deleting(q, v)
        /\ WorkersPrepared(q, v)' <=> WorkersPrepared(q, v)
    BY Zenon,
       <2>2, <2>4 DEF Deleting, WorkersPrepared, WorkersChanged, WorkerProblem,
                      Workers
  <2>10. /\ v \in DOMAIN m.a /\ m.cs[m.a[v].shard].seen
         /\ m.p.shards[m.a[v].shard] = "ip"
    BY Zenon, <2>0, <2>1, <2>4, <2>6
  <2> QED BY Zenon, <2>2, <2>4, <2>7, <2>8, <2>9, <2>10
<1> QED BY ZenonT(30), <1>1, <1>2, StepArrives

(* The copy of a sole leader's pass follows the pool: nobody else writes   *)
(* what matters in it, and the leader's own writes end the pass.           *)
LEMMA CopyStep ==
    ASSUME TypeOK, Sole, CopyIsPool, PoolEnd, [Next]_vars
    PROVE  CopyIsPool'
<1> SUFFICES ASSUME NEW q \in Replicas, pc'[q] # "idle" PROVE Mirrors(q)'
  BY Zenon DEF CopyIsPool
<1>0. leader' = leader
  BY Zenon, StepPlan
<1>1. CASE Starts(q)
  BY Zenon, <1>0, <1>1 DEF Starts, Mirrors, Ready, PoolEnd
<1>2. CASE Lists(q) \/ Goes(q)
  <2>1. pc[q] # "idle" /\ my'[q].a = my[q].a /\ KeepsPool(q)
        /\ (pc[q] = "save" => pc'[q] = "save")
    BY Zenon, <1>2 DEF Lists, Goes, KeepsPool
  <2>2. Mirrors(q)
    BY Zenon, <2>1 DEF CopyIsPool
  <2>3. q \notin stale' => q \notin stale
    BY Zenon, <2>1, StepPool DEF StartPass, Due
  <2>4. ASSUME NEW r \in Replicas, PoolSaved(r) PROVE FALSE
    BY Zenon, <2>2, <2>4 DEF PoolSaved, CopyIsPool, Mirrors, Ends
  <2>5. ~PoolClaimed
    BY Zenon, <2>1, <2>2 DEF PoolClaimed, Mirrors
  <2>6. /\ PoolKept /\ pool'.fin = pool.fin
        /\ pool'.st = pool.st \/ stale' = Replicas
    BY Zenon, <2>4, <2>5, StepPool DEF PoolShape, PoolDeleted
  <2>7. \A k \in Shards :
           /\ pool'.shards[k] = "ip" => my'[q].p.shards[k] = "ip"
           /\ pc'[q] # "save" /\ my'[q].p.shards[k] = "ip" => pool'.shards[k] = "ip"
    <3> SUFFICES ASSUME NEW k \in Shards
                 PROVE  /\ pool'.shards[k] = "ip" => my'[q].p.shards[k] = "ip"
                        /\ pc'[q] # "save" /\ my'[q].p.shards[k] = "ip" =>
                              pool'.shards[k] = "ip"
      BY Zenon
    <3>1. pool'.shards[k] = pool.shards[k]
      BY Zenon, <2>6 DEF PoolKept
    <3>2. /\ pool.shards[k] = "ip" => my[q].p.shards[k] = "ip"
          /\ pc[q] # "save" /\ my[q].p.shards[k] = "ip" => pool.shards[k] = "ip"
      BY Zenon, <2>2 DEF Mirrors
    <3>3. /\ \/ my'[q].p.shards[k] = my[q].p.shards[k]
             \/ my'[q].p.shards[k] = "ip" \/ my[q].p.shards[k] = "none"
          /\ pc'[q] # "save" => my'[q].p = my[q].p
      BY Zenon, <2>1 DEF KeepsPool
    <3> QED BY Zenon, <2>1, <3>1, <3>2, <3>3
  <2> QED BY Zenon,
      <1>0, <2>1, <2>2, <2>3, <2>6, <2>7 DEF KeepsPool, PoolKept, Mirrors
<1> QED BY Zenon, <1>1, <1>2, StepView DEF ViewShape, Ends

(* The NLBs that the pool knows stay known.                                *)
LEMMA ShardsKept ==
    ASSUME TypeOK, CopyIsPool, [Next]_vars, NEW k \in Shards,
           pool.shards[k] = "ip"
    PROVE  pool'.shards[k] = "ip"
<1>1. ASSUME NEW r \in Replicas, PoolSaved(r) PROVE pool'.shards[k] = "ip"
  BY Zenon, <1>1 DEF PoolSaved, CopyIsPool, Mirrors
<1>2. PoolKept \/ \E r \in Replicas : PoolSaved(r)
  BY Zenon, StepPool DEF PoolShape, PoolDeleted, PoolClaimed
<1> QED BY Zenon, <1>1, <1>2 DEF PoolKept

(* The pool has its finalizer as long as there are leases to guard, and    *)
(* when it is gone they are all retired and no pass is under way.          *)
LEMMA EndStep ==
    ASSUME TypeOK, Sole, CopyIsPool, PoolEnd, [Next]_vars
    PROVE  PoolEnd'
<1>0. leader' = leader /\ IsLedger(alloc)
  BY Zenon, StepPlan DEF TypeOK
<1>1. CASE PoolKept /\ pool'.fin = pool.fin /\ pool'.st = pool.st
  <2>1. pool.st = "gone" => \A q \in Replicas : pc'[q] = "idle"
    BY ZenonT(30), StepView DEF PoolEnd, ViewShape, Ends, Starts, Lists, Goes
  <2> QED BY Zenon, <1>1, <2>1 DEF PoolEnd, PoolKept
<1>2. CASE PoolDeleted
  <2>1. pool.fin \/ DOMAIN alloc = {}
    BY Zenon, <1>2 DEF PoolDeleted, PoolEnd
  <2>2. ~pool.fin => \A q \in Replicas : pc[q] = "idle"
    BY Zenon DEF CopyIsPool, Mirrors
  <2> QED BY Zenon,
      <1>2, <2>1, <2>2 DEF PoolDeleted, PoolKept, PoolEnd, ctlVars
<1>3. CASE PoolClaimed
  BY Zenon, <1>3 DEF PoolClaimed, PoolEnd
<1>4. ASSUME NEW r \in Replicas, PoolSaved(r) PROVE PoolEnd'
  <2>1. Mirrors(r) /\ pool.st # "gone"
    BY Zenon, <1>4 DEF PoolSaved, CopyIsPool, PoolEnd
  <2>2. CASE pool'.fin = my[r].p.fin /\ pool'.st = my[r].p.st
    BY Zenon, <1>4, <2>1, <2>2 DEF PoolSaved, Mirrors, PoolEnd
  <2>3. CASE pool'.st = "gone" /\ \A u \in DOMAIN alloc' : alloc'[u].tomb
    <3>1. ASSUME NEW q \in Replicas PROVE pc'[q] = "idle"
      <4>1. q # r => pc[q] = "idle"
        BY Zenon, <2>1 DEF CopyIsPool, Mirrors
      <4>2. CASE q # r
        BY Zenon, <1>4, <2>1, <4>1, <4>2, StepView
           DEF ViewShape, Ends, Starts, Lists, Goes, Mirrors
      <4> QED BY Zenon, <1>4, <4>2 DEF PoolSaved, Ends
    <3> QED BY Zenon, <2>3, <3>1 DEF PoolEnd
  <2> QED BY Zenon, <1>4, <2>2, <2>3 DEF PoolSaved
<1> QED BY Zenon, <1>1, <1>2, <1>3, <1>4, StepPool DEF PoolShape

(* While the pass of a sole leader is before its save, nothing happens on  *)
(* an NLB that it has looked at, but for what others do.                   *)
LEMMA SnapCloudStep ==
    ASSUME TypeOK, Sole, IdleBlank, Quiet, CopyIsPool, SnapIsCloud, [Next]_vars
    PROVE  SnapIsCloud'
<1> SUFFICES ASSUME NEW q \in Replicas, NEW k \in Shards,
                    pc'[q] \notin {"idle", "save"}, my'[q].cs[k].seen
             PROVE  Shows(my[q].cs[k], k)'
  BY Zenon DEF SnapIsCloud
<1>0. plan'.kinds = plan.kinds
  BY Zenon, StepPlan
<1>1. CASE Gets(q, k)
  BY <1>1 DEF Gets, get, cloudVars, Shows
<1>2. CASE pc[q] = "idle"
  <2>1. my[q].cs[k] = NoSnap
    BY <1>2 DEF IdleBlank, Blank
  <2>2. my'[q].cs[k] = my[q].cs[k] \/ Gets(q, k)
    BY Zenon, <1>2, StepView DEF ViewShape, Ends, Starts, Lists, Goes
  <2>3. ~NoSnap.seen
    BY Zenon DEF NoSnap
  <2> QED BY Zenon, <1>1, <2>1, <2>2, <2>3
<1>3. CASE pc[q] # "idle" /\ ~Gets(q, k)
  <2>1. my'[q].cs[k] = my[q].cs[k] /\ pc[q] # "save"
    BY Zenon, <1>3, StepView DEF ViewShape, Ends, Starts, Lists, Goes
  <2>2. Shows(my[q].cs[k], k)
    BY Zenon, <1>3, <2>1 DEF SnapIsCloud
  <2>3. op[k] = NoOp
    BY Zenon, <2>2 DEF Shows, Quiet
  <2>4. nlb'[k] = "ACTIVE"
    <3>1. ASSUME NEW r \in Replicas, pc[r] # "idle", pc'[r] = "save" PROVE FALSE
      BY Zenon, <1>3, <3>1 DEF CopyIsPool, Mirrors
    <3> QED BY Zenon, <2>2, <2>3, <3>1, StepOp DEF OpShape, Shows
  <2>5. Alone(k)
    BY Zenon, <2>3, StepCloud DEF WorkSucceeds
  <2>6. PICK c : c = my[q].cs[k]
    BY Zenon
  <2>7. Shows(c, k) /\ my'[q].cs[k] = c
    BY Zenon, <2>1, <2>2, <2>6
  <2>8. /\ \A x \in c.lst \cup c.sets : x.shard = k
        /\ c.lst \subseteq listeners'
        /\ \A s \in c.sets : s.name # Foreign => s \in bsets'
    BY Zenon, <2>5, <2>7 DEF Shows, Alone
  <2>9. \A s \in bsets' : s.shard = k => s \in c.sets \/ s.be = {}
    BY Zenon, <2>5, <2>7 DEF Shows, Alone
  <2>10. "resurrect" \notin plan.kinds =>
          /\ \A l \in listeners' : l.shard = k => l \in c.lst
          /\ \A s \in bsets' : s.shard = k /\ s.name # Foreign => s \in c.sets
    BY Zenon, <2>5, <2>7 DEF Shows, Alone
  <2> QED BY Zenon, <1>0, <2>4, <2>7, <2>8, <2>9, <2>10 DEF Shows
<1> QED BY Zenon, <1>1, <1>2, <1>3

(* What a sole leader knows of the lease it asks OCI to change something   *)
(* for, and what it has seen on the NLB.                                   *)
Knows(r, u, k) ==
    /\ my[r].a = alloc /\ u \in DOMAIN alloc /\ alloc[u].shard = k
    /\ Shows(my[r].cs[k], k) /\ op'[k].name = u
    /\ \/ /\ MutateNLB(r, u) /\ op'[k] = NextStep(r, u)
          /\ ~alloc[u].tomb /\ pool.shards[k] = "ip"
       \/ /\ op'[k].kind # "putSet"
          /\ \E x \in listeners \cup bsets : x.name = u /\ x.shard = k

(* It does so at every request.                                            *)
LEMMA AsksSeen ==
    ASSUME LeaderInv, Sole, NEW r \in Replicas, NEW u \in Bindings, NEW k \in Shards,
           Asks(r, u, k)
    PROVE  Knows(r, u, k)
<1>1. u \in DOMAIN my[r].a /\ my[r].a[u].shard = k /\ op'[k] # NoOp /\ u # Foreign
  BY Zenon, EngineConstants DEF Asks, Foreign
<1>2. CASE MutateNLB(r, u) /\ op'[k] = NextStep(r, u)
  <2>1. pc[r] = "step" /\ IsCurrent(r, u) /\ ~my[r].a[u].tomb
    BY Zenon, <1>2 DEF MutateNLB, Stepping, Active
  <2>2. Mirrors(r)
    BY Zenon, <2>1 DEF LeaderInv, Led, CopyIsPool
  <2>3. my[r].cs[k].seen /\ my[r].p.shards[k] = "ip"
    BY Zenon, <1>1, <2>1 DEF LeaderInv, StepReady
  <2>4. Shows(my[r].cs[k], k) /\ pool.shards[k] = "ip"
    BY Zenon, <2>1, <2>2, <2>3 DEF LeaderInv, Led, SnapIsCloud, Mirrors
  <2>5. op'[k].name = u
    <3>1. PICK snap, port, be, remove :
             op'[k] = StepBackends(snap, u, port, be, remove)
      BY Zenon, <1>2 DEF NextStep
    <3>2. StepBackends(snap, u, port, be, remove) # NoOp
      BY Zenon, <1>1, <3>1
    <3>3. /\ StepBackends(snap, u, port, be, remove).name = u
          /\ StepBackends(snap, u, port, be, remove).port = port
      BY Zenon, <3>2, StepBackendsFor
    <3> QED BY Zenon, <3>1, <3>3
  <2> QED BY Zenon, <1>1, <1>2, <2>1, <2>2, <2>4, <2>5 DEF Mirrors, Knows
<1>3. CASE SweepRemove(r, u) /\ op'[k] = Removal(r, u)
  <2>1. pc[r] = "loop" /\ my[r].cs[k].seen
    BY ZenonT(30), <1>1, <1>3 DEF SweepRemove, Sweeping, SweptSnap
  <2>2. Mirrors(r)
    BY Zenon, <2>1 DEF LeaderInv, Led, CopyIsPool
  <2>3. Shows(my[r].cs[k], k)
    BY Zenon, <2>1 DEF LeaderInv, Led, SnapIsCloud
  <2>4. PICK c : c = my[r].cs[k]
    BY Zenon
  <2>5. /\ op'[k].name = u /\ op'[k].kind # "putSet"
        /\ \E x \in c.lst \cup c.sets : x.name = u
    <3>1. op'[k] = StepBackends(c, u, my[r].a[u].port, {}, TRUE)
      BY Zenon, <1>1, <1>3, <2>4 DEF Removal, SweptSnap
    <3>2. PICK p : p = my[r].a[u].port
      BY Zenon
    <3> QED BY <1>1, <3>1, <3>2 DEF StepBackends, NoOp
  <2>6. \E x \in listeners \cup bsets : x.name = u /\ x.shard = k
    BY Zenon, <1>1, <2>3, <2>4, <2>5 DEF Shows
  <2> QED BY Zenon, <1>1, <2>2, <2>3, <2>5, <2>6 DEF Mirrors, Knows
<1> QED BY Zenon, <1>2, <1>3 DEF Asks

(* What is new on an NLB was asked for, unless others put it there.        *)
LEMMA NewNative ==
    ASSUME TypeOK, [Next]_vars, "resurrect" \notin plan.kinds,
           NEW x \in listeners' \cup bsets', x.name # Foreign
    PROVE  x.shard \in Shards /\ (x \in listeners \cup bsets
                                  \/ x.name = op[x.shard].name)
<1>1. x.shard \in Shards
  BY Zenon, TypeStep DEF TypeOK, ListenerSets, SetSets
<1>2. CASE Alone(x.shard)
  BY Zenon, <1>1, <1>2 DEF Alone
<1>3. CASE WorkSucceeds(x.shard)
  <2>1. PICK k : k = x.shard
    BY Zenon
  <2>2. /\ \A l \in Applied(k, op[k]).lst : l \in listeners \/
              l = [shard |-> k, name |-> op[k].name, port |-> op[k].port]
        /\ \A s \in Applied(k, op[k]).sets : s \in bsets \/
              s = [shard |-> k, name |-> op[k].name, be |-> op[k].be]
    BY Zenon DEF Applied
  <2>3. /\ [shard |-> k, name |-> op[k].name, port |-> op[k].port].name = op[k].name
        /\ [shard |-> k, name |-> op[k].name, be |-> op[k].be].name = op[k].name
    BY Zenon
  <2>4. listeners' = Applied(k, op[k]).lst /\ bsets' = Applied(k, op[k]).sets
    BY Zenon, <1>3, <2>1 DEF WorkSucceeds
  <2> QED BY Zenon, <1>1, <2>1, <2>2, <2>3, <2>4
<1> QED BY Zenon, <1>1, <1>2, <1>3, StepCloud

(* What the engine puts on an NLB is on one that the pool knows.           *)
LEMMA ShardsStep ==
    ASSUME LeaderInv, Sole, "resurrect" \notin plan.kinds, [Next]_vars
    PROVE  OnShards'
<1>0. /\ TypeOK /\ OnShards
      /\ \A k \in Shards : pool.shards[k] = "ip" => pool'.shards[k] = "ip"
  BY Zenon, ShardsKept DEF LeaderInv, ServedInv, Led
<1>1. ASSUME NEW x \in listeners' \cup bsets', x.name # Foreign
      PROVE  pool'.shards[x.shard] = "ip"
  BY Zenon, <1>0, <1>1, NewNative DEF OnShards
<1>2. ASSUME NEW k \in Shards, op'[k].name # Foreign PROVE pool'.shards[k] = "ip"
  <2>1. ASSUME NEW r \in Replicas, NEW u \in Bindings, Asks(r, u, k)
        PROVE  pool.shards[k] = "ip"
    <3>1. CASE pool.shards[k] = "ip"
      BY Zenon, <3>1
    <3>2. ASSUME NEW x \in listeners \cup bsets, x.name = u, x.shard = k
          PROVE  pool.shards[k] = "ip"
      BY Zenon, <1>0, <3>2, NoOpFields DEF OnShards
    <3>3. Knows(r, u, k)
      BY Zenon, <2>1, AsksSeen
    <3> QED BY Zenon, <3>1, <3>2, <3>3 DEF Knows
  <2>2. OpShape(k)
    BY Zenon, <1>0, StepOp
  <2>3. op'[k] = op[k] \/ \E r \in Replicas, u \in Bindings : Asks(r, u, k)
    BY Zenon, <1>2, <2>2, NoOpFields DEF OpShape
  <2> QED BY Zenon, <1>0, <1>2, <2>1, <2>3 DEF OnShards
<1> QED BY Zenon, <1>1, <1>2 DEF OnShards

(* A lease is retired when nothing of it is left, and nothing comes back.  *)
LEMMA DarkStep ==
    ASSUME LeaderInv, Sole, "resurrect" \notin plan.kinds, [Next]_vars
    PROVE  Dark'
<1> SUFFICES ASSUME NEW u \in DOMAIN alloc', alloc'[u].tomb, Native(u)'
             PROVE  FALSE
  BY Zenon DEF Dark
<1>0. /\ TypeOK /\ Dark /\ OnShards /\ CopyIsPool /\ SnapIsCloud /\ Quiet
      /\ NativeLeased /\ FreshCopy
  BY DEF LeaderInv, ServedInv, Led
<1>1. u \in Bindings /\ u # Foreign /\ LeaseShape(u)
  BY Zenon,
     <1>0, TypeStep, StepLease, EngineConstants DEF TypeOK, IsLedger, Foreign
<1>2. ASSUME NEW k \in Shards, op'[k].name = u
      PROVE  Native(u) \/ (u \in DOMAIN alloc /\ ~alloc[u].tomb)
  <2>1. ASSUME NEW r \in Replicas, NEW v \in Bindings, Asks(r, v, k)
        PROVE  Native(u) \/ (u \in DOMAIN alloc /\ ~alloc[u].tomb)
    <3>1. /\ u = v /\ u \in DOMAIN alloc
          /\ ~alloc[u].tomb \/ \E x \in listeners \cup bsets : x.name = u
      <4>1. Knows(r, v, k)
        BY Zenon, <2>1, AsksSeen
      <4> QED BY Zenon, <1>2, <4>1 DEF Knows
    <3> QED BY Zenon, <3>1 DEF Native
  <2>2. OpShape(k)
    BY Zenon, <1>0, StepOp
  <2>3. op'[k] = op[k] \/ \E r \in Replicas, v \in Bindings : Asks(r, v, k)
    BY Zenon, <1>1, <1>2, <2>2, NoOpFields DEF OpShape
  <2> QED BY Zenon, <1>2, <2>1, <2>3 DEF Native
<1>3. Native(u) \/ \E k \in Shards : op'[k].name = u
  BY ZenonT(30), <1>0, <1>1, NewNative DEF Native
<1>4. CASE u \in DOMAIN alloc /\ alloc'[u] = alloc[u]
  BY Zenon, <1>0, <1>2, <1>3, <1>4 DEF Dark
<1>5. ASSUME NEW r \in Replicas, RetireLease(r, u) \/ QuarantineOrphan(r, u)
      PROVE  FALSE
  <2> DEFINE k == my[r].a[u].shard
  <2>1. UNCHANGED cloudVars /\ pc[r] \in {"loop", "step"} /\ u \in DOMAIN my[r].a
    BY Zenon,
       <1>5 DEF RetireLease, QuarantineOrphan, Stepping, Active, Leased, Sweeping,
                Orphans
  <2>2. Mirrors(r)
    BY Zenon, <1>0, <2>1 DEF CopyIsPool
  <2>3. u \in DOMAIN alloc /\ k = alloc[u].shard /\ k \in Shards
    BY Zenon, <1>0, <2>1, <2>2 DEF Mirrors, TypeOK, IsLedger, Lease
  <2>4. Native(u)
    BY Zenon, <2>1 DEF cloudVars, Native
  <2>5. /\ \A x \in listeners \cup bsets : x.name = u => x.shard = k
        /\ \A j \in Shards : op[j].name = u => j = k
    <3>1. ASSUME NEW x \in listeners \cup bsets, x.name = u PROVE x.shard = k
      <4>1. alloc[x.name].shard = x.shard
        BY Zenon, <1>0, <1>1, <3>1 DEF NativeLeased
      <4> QED BY Zenon, <2>3, <3>1, <4>1
    <3>2. ASSUME NEW j \in Shards, op[j].name = u PROVE j = k
      <4>1. alloc[op[j].name].shard = j
        BY Zenon, <1>0, <1>1, <3>2 DEF NativeLeased
      <4> QED BY Zenon, <2>3, <3>2, <4>1
    <3> QED BY Zenon, <3>1, <3>2
  <2>6. ASSUME Shows(my[r].cs[k], k), NEW be,
               StepBackends(my[r].cs[k], u, my[r].a[u].port, be, TRUE) = NoOp
        PROVE  FALSE
    <3>1. PICK c : c = my[r].cs[k]
      BY Zenon
    <3>2. PICK p : p = my[r].a[u].port
      BY Zenon
    <3>3. Shows(c, k) /\ StepBackends(c, u, p, be, TRUE) = NoOp
      BY Zenon, <2>6, <3>1, <3>2
    <3>4. \A x \in c.lst \cup c.sets : x.name # u
      BY Zenon, <3>3 DEF StepBackends, NoOp
    <3>5. \A x \in listeners \cup bsets : x.name # u
      BY Zenon, <1>1, <2>5, <3>3, <3>4 DEF Shows
    <3>6. op[k] = NoOp
      BY Zenon, <1>0, <2>3, <3>3 DEF Shows, Quiet
    <3>7. op[k].name # u
      BY Zenon, <1>1, <3>6, NoOpFields
    <3> QED BY Zenon, <2>4, <2>5, <3>5, <3>7 DEF Native
  <2>7. CASE RetireLease(r, u)
    <3>1. /\ pc[r] = "step" /\ IsCurrent(r, u) /\ NextStep(r, u) = NoOp
          /\ Deleting(r, u)
      BY Zenon, <2>7 DEF RetireLease, Stepping
    <3>2. Shows(my[r].cs[k], k)
      BY ZenonT(30),
         <1>0, <1>1, <2>3, <3>1 DEF LeaderInv, StepReady, SnapIsCloud
    <3>3. StepBackends(my[r].cs[k], u, my[r].a[u].port, Wanted(r, u).be, TRUE) = NoOp
      <4>1. Deleting(r, u) = TRUE
        BY Zenon, <3>1 DEF Deleting
      <4> QED BY ZenonT(30), <3>1, <4>1 DEF NextStep
    <3> QED BY Zenon, <2>6, <3>2, <3>3
  <2>8. CASE QuarantineOrphan(r, u)
    <3>1. CASE SweptSnap(r, u).seen /\ Removal(r, u) = NoOp
      <4>1. Shows(my[r].cs[k], k)
        BY Zenon, <1>0, <2>1, <2>3, <3>1 DEF SnapIsCloud, SweptSnap
      <4> QED BY Zenon, <2>6, <3>1, <4>1 DEF Removal, SweptSnap
    <3>2. CASE ~Placed(r, u)
      <4>1. pool.shards[k] # "ip"
        BY Zenon, <2>2, <2>3, <3>2 DEF Placed, Mirrors
      <4> QED BY ZenonT(30), <1>0, <1>1, <2>4, <2>5, <4>1 DEF OnShards, Native
    <3> QED BY <2>8, <3>1, <3>2 DEF QuarantineOrphan
  <2> QED BY Zenon, <1>5, <2>7, <2>8
<1> QED BY Zenon, <1>1, <1>4, <1>5 DEF LeaseShape

(* The backends of a request to change a set are those that Wanted gives.  *)
LEMMA PutWanted ==
    ASSUME NEW r, NEW u, NextStep(r, u).kind = "putSet"
    PROVE  NextStep(r, u).be = Wanted(r, u).be /\ ~Deleting(r, u)
<1>1. PICK c : c = my[r].cs[my[r].a[u].shard]
  BY Zenon
<1>2. PICK remove : remove = Deleting(r, u)
  OBVIOUS
<1>3. PICK be : be = Wanted(r, u).be
  OBVIOUS
<1>4. PICK p : p = my[r].a[u].port
  OBVIOUS
<1>5. NextStep(r, u) = StepBackends(c, u, p, be, remove)
  BY Zenon, <1>1, <1>2, <1>3, <1>4 DEF NextStep
<1>6. /\ StepBackends(c, u, p, be, remove).kind = "putSet" =>
            ~remove /\ StepBackends(c, u, p, be, remove).be = be
  BY Zenon DEF StepBackends, NoOp
<1> QED BY Zenon, <1>2, <1>3, <1>5, <1>6

(* A sole leader sends no destination that another set of the NLB has.     *)
LEMMA ApartStep ==
    ASSUME LeaderInv, Sole, [Next]_vars
    PROVE  Apart'
<1>0. TypeOK /\ Apart /\ TypeOK'
  BY Zenon, TypeStep DEF LeaderInv, ServedInv, Led
<1>1. ASSUME NEW s \in bsets', NEW t \in bsets', s.shard = t.shard, s.name # t.name
      PROVE  s.be \cap t.be = {}
  <2>1. PICK k \in Shards : k = s.shard
    BY Zenon, <1>0 DEF TypeOK, SetSets
  <2>2. CASE Alone(k)
    BY Zenon, <1>0, <1>1, <2>1, <2>2 DEF Alone, Apart
  <2>3. CASE WorkSucceeds(k)
    <3>1. \A x \in Applied(k, op[k]).sets : x \in bsets \/
             (op[k].kind = "putSet" /\
              x = [shard |-> k, name |-> op[k].name, be |-> op[k].be])
      BY Zenon DEF Applied
    <3>2. \A x \in bsets' : x \in bsets \/
             (op[k].kind = "putSet" /\ x.name = op[k].name /\ x.be = op[k].be)
      <4>1. bsets' = Applied(k, op[k]).sets
        BY Zenon, <2>3 DEF WorkSucceeds
      <4>2. PICK n, b : n = op[k].name /\ b = op[k].be
        BY Zenon
      <4>3. [shard |-> k, name |-> n, be |-> b].name = n
            /\ [shard |-> k, name |-> n, be |-> b].be = b
        BY Zenon
      <4> QED BY Zenon, <3>1, <4>1, <4>2, <4>3
    <3>3. CASE s \in bsets /\ t \in bsets
      BY Zenon, <1>0, <1>1, <3>3 DEF Apart
    <3>4. CASE s \in bsets /\ t \notin bsets
      BY Zenon, <1>0, <1>1, <2>1, <3>2, <3>4 DEF Apart
    <3>5. CASE s \notin bsets /\ t \in bsets
      BY Zenon, <1>0, <1>1, <2>1, <3>2, <3>5 DEF Apart
    <3> QED BY Zenon, <1>1, <3>2, <3>3, <3>4, <3>5
  <2> QED BY Zenon, <1>0, <2>2, <2>3, StepCloud
<1>2. ASSUME NEW k \in Shards, op'[k].kind = "putSet",
             NEW s \in bsets', s.shard = k, s.name # op'[k].name
      PROVE  s.be \cap op'[k].be = {}
  <2>1. CASE op'[k] = op[k]
    <3>1. ~WorkSucceeds(k)
      BY <1>0, <1>2 DEF WorkSucceeds, WorkEnds, NoOp, TypeOK
    <3>2. Alone(k)
      BY Zenon, <1>0, <3>1, StepCloud
    <3> QED BY Zenon, <1>0, <1>2, <2>1, <3>2 DEF Alone, Apart
  <2>2. ASSUME NEW r \in Replicas, NEW u \in Bindings, Asks(r, u, k)
        PROVE  s.be \cap op'[k].be = {}
    <3>1. /\ MutateNLB(r, u) /\ op'[k] = NextStep(r, u) /\ op'[k].name = u
          /\ Shows(my[r].cs[k], k) /\ my[r].a[u].shard = k
      <4>1. Knows(r, u, k)
        BY Zenon, <2>2, AsksSeen
      <4> QED BY Zenon, <1>2, <2>2, <4>1 DEF Knows, Asks
    <3>2. s \in bsets
      BY Zenon, <3>1 DEF MutateNLB
    <3>3. op'[k].be = Wanted(r, u).be
      BY Zenon, <1>2, <3>1, PutWanted
    <3>4. PICK want : want = Desired(my[r], u)
      BY Zenon
    <3>5. \/ op'[k].be = {}
          \/ op'[k].be = want.be /\ ~destinationConflict(my[r].cs[k], u, want.be)
      BY ZenonT(30), <3>1, <3>3, <3>4 DEF Wanted
    <3>6. s \in my[r].cs[k].sets \/ s.be = {}
      BY Zenon, <1>2, <3>1, <3>2 DEF Shows
    <3> QED BY Zenon, <1>2, <3>1, <3>5, <3>6 DEF destinationConflict
  <2>3. OpShape(k)
    BY Zenon, <1>0, StepOp
  <2>4. op'[k] = op[k] \/ \E r \in Replicas, u \in Bindings : Asks(r, u, k)
    BY Zenon, <1>2, <2>3, NoOpFields DEF OpShape
  <2> QED BY Zenon, <2>1, <2>2, <2>4
<1> QED BY Zenon, <1>1, <1>2 DEF Apart

(* A pass that has not read the bindings has none.                         *)
LEMMA BlankBinding ==
    ASSUME NEW u \in Bindings
    PROVE  ~Blank.bs[u].fin /\ Blank.bs[u].st = "unborn"
BY Zenon DEF Blank, Unborn

(* The finalizer of a binding goes after its lease is retired.             *)
LEMMA FinalizedStep ==
    ASSUME LeaderInv, Sole, "strip" \notin plan.kinds, [Next]_vars
    PROVE  Finalized'
<1>0. /\ TypeOK /\ Finalized /\ CopyIsPool /\ FreshCopy /\ IdleBlank /\ TodoListed
      /\ TypeOK' /\ CtlOK
  BY Zenon, TypeStep, TypeParts DEF LeaderInv, ServedInv, Led
<1>1. ASSUME NEW u \in Bindings, Held(u),
             \A r \in Replicas : ~ReleaseBinding(r, u)
      PROVE  Held(u)'
  BY Zenon, <1>0, <1>1, StepBind DEF Held, BindShape
<1>2. ASSUME NEW r \in Replicas, NEW u \in Bindings, ReleaseBinding(r, u)
      PROVE  /\ Mirrors(r) /\ ~Active(r, u) /\ EndPass(r)
             /\ alloc' = alloc
  BY Zenon,
     <1>0, <1>2 DEF ReleaseBinding, Looping, updateBinding, CopyIsPool, poolVars
<1>3. ASSUME NEW u \in DOMAIN alloc', ~alloc'[u].tomb PROVE Held(u)'
  <2>0. u \in Bindings /\ LeaseShape(u)
    BY Zenon, <1>0, StepLease DEF TypeOK, IsLedger
  <2>1. CASE u \in DOMAIN alloc /\ alloc'[u] = alloc[u]
    <3>1. Held(u)
      BY Zenon, <1>0, <1>3, <2>1 DEF Finalized
    <3>2. \A r \in Replicas : ~ReleaseBinding(r, u)
      BY Zenon, <1>2, <1>3, <2>0, <2>1 DEF Mirrors, Active, Leased
    <3> QED BY Zenon, <1>1, <2>0, <3>1, <3>2
  <2>2. ASSUME NEW r \in Replicas, AllocateLease(r, u) PROVE Held(u)'
    <3>1. /\ u \in my[r].todo /\ my[r].bs[u].fin /\ ~Deleting(r, u)
          /\ bind' = bind
      BY Zenon, <2>2 DEF AllocateLease, Admitting, Looping, IsCurrent
    <3>2. my[r].bs[u].st = "live"
      BY Zenon, <1>0, <3>1 DEF TodoListed, Exists, Deleting
    <3> QED BY Zenon, <1>0, <2>0, <3>1, <3>2 DEF Finalized, Held
  <2> QED BY Zenon, <1>3, <2>0, <2>1, <2>2 DEF LeaseShape
<1>4. ASSUME NEW q \in Replicas, NEW u \in Bindings,
             my'[q].bs[u].fin, my'[q].bs[u].st = "live"
      PROVE  Held(u)'
  <2>1. CASE Lists(q)
    BY Zenon, <1>4, <2>1 DEF Lists, Held, Exists
  <2>2. CASE Starts(q) \/ Goes(q)
    <3>1. my[q].bs[u].fin /\ my[q].bs[u].st = "live"
      BY Zenon, <1>4, <2>2 DEF Starts, Goes
    <3>2. Held(u)
      BY Zenon, <1>0, <3>1 DEF Finalized
    <3>3. pc[q] # "idle"
      BY Zenon, <1>0, <3>1, BlankBinding DEF IdleBlank
    <3>4. ASSUME NEW r \in Replicas, ReleaseBinding(r, u) PROVE FALSE
      <4>1. r = q
        BY Zenon, <1>0, <1>2, <3>3, <3>4 DEF CopyIsPool, Mirrors
      <4>2. my'[q] = Blank
        BY ZenonT(30), <1>0, <1>2, <3>4, <4>1 DEF EndPass, CtlOK
      <4> QED BY Zenon, <1>4, <4>2, BlankBinding
    <3> QED BY Zenon, <1>1, <3>2, <3>4
  <2>3. CASE Ends(q)
    BY Zenon, <1>4, <2>3, BlankBinding DEF Ends
  <2> QED BY Zenon, <1>0, <2>1, <2>2, <2>3, StepView DEF ViewShape
<1> QED BY Zenon, <1>3, <1>4 DEF Finalized

(* A step preserves the invariant.                                         *)
LEMMA LeaderStep == LeaderInv /\ [Next]_vars => LeaderInv'
<1> SUFFICES ASSUME LeaderInv, [Next]_vars PROVE LeaderInv'
  BY Zenon
<1>0. ServedInv /\ TypeOK
  BY DEF LeaderInv, ServedInv
<1>1. plan'.kinds = plan.kinds
  BY Zenon, <1>0, StepPlan
<1>2. ServedInv' /\ IdleBlank' /\ TodoListed' /\ Quiet' /\ StepReady'
  BY Zenon, <1>0, ServedStep, ViewsKept, QuietStep, ReadyStep DEF LeaderInv
<1>3. ASSUME Sole PROVE Led'
  <2>1. CopyIsPool' /\ SnapIsCloud' /\ PoolEnd' /\ Apart'
    BY Zenon,
       <1>0, <1>3, CopyStep, SnapCloudStep, EndStep, ApartStep DEF LeaderInv, Led
  <2>2. "resurrect" \notin plan.kinds => OnShards' /\ Dark'
    BY Zenon, <1>3, ShardsStep, DarkStep
  <2>3. "strip" \notin plan.kinds => Finalized'
    BY Zenon, <1>3, FinalizedStep
  <2> QED BY Zenon, <1>1, <2>1, <2>2, <2>3 DEF Led
<1> QED BY Zenon, <1>1, <1>2, <1>3 DEF LeaderInv, Sole

(* It holds at the start.                                                  *)
LEMMA LeaderInit == Init => LeaderInv
<1> SUFFICES ASSUME Init PROVE LeaderInv
  BY Zenon
<1>1. IdleBlank /\ TodoListed /\ StepReady /\ CopyIsPool /\ SnapIsCloud
  BY ZenonT(30)
     DEF Init, IdleBlank, TodoListed, StepReady, CopyIsPool, SnapIsCloud, Blank
<1>2. Quiet /\ PoolEnd /\ Apart /\ OnShards /\ Dark
  BY ZenonT(30)
     DEF Init, Quiet, PoolEnd, Apart, OnShards, Dark, NewPool, NoLeases, NoOp, Foreign
<1>3. Finalized
  BY Zenon DEF Init, Finalized, Blank, Unborn, NoLeases
<1> QED BY Zenon, <1>1, <1>2, <1>3, ServedInit DEF LeaderInv, Led

-----------------------------------------------------------------------------
(* Theorems.                                                               *)

(* While no deposed leader and nobody else is at work in OCI, a retired    *)
(* lease has nothing left there, whatever is aborted, fails or is deleted  *)
(* in between: the tombstone is saved after the last deletion was seen.    *)
THEOREM RetiredIsDark == Spec => []RetiredDark
<1>1. LeaderInv => RetiredDark
  BY Zenon DEF LeaderInv, Led, Sole, Dark, RetiredDark
<1> QED BY <1>1, LeaderInit, LeaderStep, PTL DEF Spec

(* The finalizers that the engine puts on bindings and on the pool go last:*)
(* a binding that is gone has no active lease, and a pool that is gone has *)
(* no active lease and nothing of a binding in OCI.                        *)
THEOREM FinalizersGoLast == Spec => []FinalizersGuard
<1>1. LeaderInv => FinalizersGuard
  <2> SUFFICES ASSUME LeaderInv, "leader" \notin plan.kinds, "strip" \notin plan.kinds
               PROVE  /\ \A u \in DOMAIN alloc : Exists(bind[u]) \/ alloc[u].tomb
                      /\ pool.st = "gone" => \A u \in Bindings :
                            /\ u \in DOMAIN alloc => alloc[u].tomb
                            /\ "resurrect" \notin plan.kinds => ~Native(u)
    BY Zenon DEF FinalizersGuard
  <2>1. Led /\ NativeLeased
    BY Zenon DEF LeaderInv, Sole, ServedInv
  <2>2. \A u \in DOMAIN alloc : Exists(bind[u]) \/ alloc[u].tomb
    BY Zenon, <2>1 DEF Led, Finalized, Held
  <2>3. pool.st = "gone" => \A u \in DOMAIN alloc : alloc[u].tomb
    BY Zenon, <2>1 DEF Led, PoolEnd
  <2>4. \A u \in Bindings : Native(u) => u \in DOMAIN alloc
    BY <2>1, EngineConstants DEF NativeLeased, Native, Foreign
  <2> QED BY Zenon, <2>1, <2>2, <2>3, <2>4 DEF Led, Dark
<1> QED BY <1>1, LeaderInit, LeaderStep, PTL DEF Spec

(* While one replica is at work, no destination is ever in two backend     *)
(* sets of an NLB, although the check is made on a snapshot and the set is *)
(* changed by a later work request.                                        *)
THEOREM DestinationsAreExclusive == Spec => []DestinationExclusive
<1>1. LeaderInv => DestinationExclusive
  BY Zenon DEF LeaderInv, Led, Sole, Apart, DestinationExclusive
<1> QED BY <1>1, LeaderInit, LeaderStep, PTL DEF Spec

(* The backends of a cluster binding are on workers of the saved inventory.*)
LEMMA ClusterBackends ==
    ASSUME NEW m, NEW u, Cluster(u),
           Suspended(m.bs[u]) \/ Ambiguous(m.es)
             \/ Overflow(clusterWorkers(m.es, m.p.workers))
             \/ clusterWorkers(m.es, m.p.workers) = m.p.workers
    PROVE  Desired(m, u).be \subseteq m.p.workers \X {m.a[u].nodePort}
<1>1. PICK ws : ws = clusterWorkers(m.es, m.p.workers)
  BY Zenon
<1>2. \A w : resolveCluster(m.es, u, m.a[u], w).be \subseteq w \X {m.a[u].nodePort}
  BY Zenon DEF resolveCluster
<1>3. PICK kept : kept = resolveCluster(m.es, u, m.a[u], ws \cap m.p.workers)
  BY Zenon
<1>4. kept.be \subseteq m.p.workers \X {m.a[u].nodePort}
  BY <1>2, <1>3
<1>5. [kept EXCEPT !.why = "bad"].be = kept.be
  BY Zenon, <1>3 DEF resolveCluster
<1>6. CASE Suspended(m.bs[u])
  BY Zenon, <1>6 DEF Desired, Cluster
<1>7. CASE ~Suspended(m.bs[u])
  <2>1. Desired(m, u) = IF Ambiguous(m.es) THEN [be |-> {}, why |-> "bad"]
                        ELSE IF Overflow(ws) THEN [kept EXCEPT !.why = "bad"]
                        ELSE resolveCluster(m.es, u, m.a[u], ws)
    BY Zenon, <1>1, <1>3, <1>7 DEF Desired, Cluster
  <2> QED BY <1>1, <1>2, <1>4, <1>5, <1>7, <2>1
<1> QED BY Zenon, <1>6, <1>7

(* While one replica is at work, the workers of every backend that it      *)
(* sends to OCI for a cluster binding were saved before, and the port is   *)
(* the one saved with the lease.                                           *)
THEOREM WorkersArePinned == Spec => PinnedBeforeWrite
<1>1. ASSUME LeaderInv, [Next]_vars, NEW k \in Shards, Sole, op'[k] # op[k],
             op'[k].kind = "putSet", Cluster(op'[k].name)
      PROVE  op'[k].be \subseteq pool.workers \X {alloc[op'[k].name].nodePort}
  <2>0. TypeOK
    BY Zenon, <1>1 DEF LeaderInv, ServedInv
  <2>1. PICK r \in Replicas, u \in Bindings : Asks(r, u, k)
    <3>1. OpShape(k)
      BY ZenonT(30), <1>1, <2>0, StepOp
    <3> QED BY Zenon, <1>1, <3>1, NoOpFields DEF OpShape
  <2>2. /\ my[r].a = alloc /\ op'[k].name = u /\ MutateNLB(r, u)
        /\ op'[k] = NextStep(r, u)
    <3>1. Knows(r, u, k)
      BY Zenon, <1>1, <2>1, AsksSeen
    <3> QED BY Zenon, <1>1, <3>1 DEF Knows
  <2>3. op'[k].be = Wanted(r, u).be /\ ~Deleting(r, u)
    BY Zenon, <1>1, <2>2, PutWanted
  <2>4. pc[r] = "step" /\ IsCurrent(r, u)
    BY Zenon, <2>2 DEF MutateNLB, Stepping
  <2>5. my[r].p.workers = pool.workers
    BY Zenon, <1>1, <2>4 DEF LeaderInv, Led, CopyIsPool, Mirrors
  <2>6. ~Suspended(my[r].bs[u]) => ~WorkersChanged(r)
    BY ZenonT(30),
       <1>1, <2>2, <2>3, <2>4 DEF LeaderInv, StepReady, WorkersPrepared
  <2>7. Desired(my[r], u).be \subseteq my[r].p.workers \X {my[r].a[u].nodePort}
    BY ZenonT(30),
       <1>1, <2>2, <2>6, ClusterBackends DEF WorkersChanged, WorkerProblem, Workers
  <2>8. Wanted(r, u).be \subseteq my[r].p.workers \X {my[r].a[u].nodePort}
    BY Zenon, <2>7 DEF Wanted
  <2> QED BY ZenonT(30), <2>2, <2>3, <2>5, <2>8
<1>2. LeaderInv /\ [Next]_vars =>
        [\A k \in Shards : LET o == op'[k] IN
          /\ "leader" \notin plan.kinds
          /\ o # op[k] /\ o.kind = "putSet" /\ Cluster(o.name)
          => o.be \subseteq pool.workers \X {alloc[o.name].nodePort}]_vars
  BY Zenon, <1>1 DEF Sole
<1> QED BY <1>2, LeaderInit, LeaderStep, PTL DEF Spec, PinnedBeforeWrite

-----------------------------------------------------------------------------
(* How a step changes the bindings: at most one of them, by one of these.  *)
WithState(b, st) == [b EXCEPT !.st = st]
WithoutFinalizer(b, st) == [b EXCEPT !.st = st, !.fin = FALSE]
WithStatus(b, c, g) == [b EXCEPT !.cond = c, !.og = g]
Finalizes(u, b) ==
    /\ b = [bind[u] EXCEPT !.fin = TRUE]
    /\ \E r \in Replicas : AddBindingFinalizer(r, u) /\ bind[u] = my[r].bs[u]
Releases(u, b) ==
    /\ \E st \in {"deleting", "gone"} : b = WithoutFinalizer(bind[u], st)
    /\ \E r \in Replicas : ReleaseBinding(r, u) /\ bind[u] = my[r].bs[u]
Reports(u, b) ==
    /\ Exists(bind[u])
    /\ \E r \in Replicas, c \in {"True", "False"} :
          /\ b = WithStatus(bind[u], c, my[r].bs[u].gen)
          /\ pc[r] # "idle"
          /\ c = "True" => ReportConverged(r, u) /\ Wanted(r, u).why = "ok"
Created(u, b) == bind[u].st = "unborn" /\ b = [bind[u] EXCEPT !.st = "live"]
Deleted(u, b) ==
    /\ bind[u].st = "live"
    /\ \E st \in IF bind[u].fin THEN {"deleting"} ELSE {"deleting", "gone"} :
          b = WithState(bind[u], st)
Freed(u, b) == /\ bind[u].st = "deleting" /\ ~bind[u].fin
               /\ b = WithState(bind[u], "gone")
Edited(u, b) == /\ "edit" \in plan.kinds /\ Exists(bind[u])
                /\ b = [bind[u] EXCEPT !.gen = @ + 1]
Stripped(u, b) ==
    /\ "strip" \in plan.kinds
    /\ \E st : b = [bind[u] EXCEPT !.fin = FALSE, !.st = st]
BindMove(u, b) ==
    \/ Finalizes(u, b) \/ Releases(u, b) \/ Reports(u, b) \/ Created(u, b)
    \/ Deleted(u, b) \/ Freed(u, b) \/ Edited(u, b) \/ Stripped(u, b)
BindMoves ==
    \/ bind' = bind
    \/ /\ pool' = pool /\ alloc' = alloc
       /\ \E u \in Bindings : \E b :
             BindMove(u, b) /\ bind' = [bind EXCEPT ![u] = b]

(* Every step.                                                             *)
LEMMA StepMoves ==
    ASSUME TypeOK, [Next]_vars
    PROVE  BindMoves
<1>0. bind \in BindingLists
  BY Zenon DEF TypeOK
<1>1. ASSUME UNCHANGED bind PROVE BindMoves
  BY Zenon, <1>1 DEF BindMoves
<1>2. ASSUME NEW u \in Bindings, NEW b, BindMove(u, b), bind' = [bind EXCEPT ![u] = b],
             UNCHANGED poolVars
      PROVE  BindMoves
  BY Zenon, <1>2 DEF BindMoves, poolVars
<1>3. ASSUME NEW r \in Replicas, NEW u \in Bindings, NEW c \in {"True", "False"},
             bindingStatus(r, u, c), UNCHANGED poolVars, pc[r] # "idle",
             c = "True" => ReportConverged(r, u) /\ Wanted(r, u).why = "ok"
      PROVE  BindMoves
  <2>1. CASE bind' = bind
    BY Zenon, <1>1, <2>1
  <2>2. CASE bind' # bind
    <3> DEFINE b == [bind[u] EXCEPT !.cond = c, !.og = my[r].bs[u].gen]
    <3>1. /\ Exists(bind[u])
          /\ bind' = [bind EXCEPT ![u].cond = c, ![u].og = my[r].bs[u].gen]
      BY Zenon, <1>3, <2>2 DEF bindingStatus
    <3>2. bind' = [bind EXCEPT ![u] = b]
      BY ZenonT(30), <1>0, <3>1 DEF BindingLists
    <3>3. BindMove(u, b)
      BY Zenon, <1>3, <3>1 DEF BindMove, Reports, WithStatus
    <3> QED BY Zenon, <1>2, <1>3, <3>2, <3>3
  <2> QED BY Zenon, <2>1, <2>2
<1>4. ASSUME NEW r \in Replicas, NEW u \in Bindings,
             RejectBinding(r, u) \/ RejectUnread(r, u) \/ HoldBackend(r, u)
      PROVE  BindMoves
  <2>1. pc[r] # "idle"
    BY Zenon, <1>4 DEF RejectBinding, RejectUnread, HoldBackend, Admitting, Looping
  <2> QED BY Zenon, <1>3, <1>4, <2>1 DEF RejectBinding, RejectUnread, HoldBackend
<1>5. ASSUME NEW r \in Replicas, NEW u \in Bindings, ReportConverged(r, u)
      PROVE  BindMoves
  <2>1. PICK c \in {"True", "False"} :
            bindingStatus(r, u, c) /\ (c = "True" => Wanted(r, u).why = "ok")
    BY Zenon, <1>5 DEF ReportConverged
  <2>2. pc[r] # "idle" /\ UNCHANGED poolVars
    BY Zenon, <1>5 DEF ReportConverged, Stepping
  <2> QED BY Zenon, <1>3, <1>5, <2>1, <2>2
<1>6. ASSUME NEW r \in Replicas, NEW u \in Bindings, ReleaseBinding(r, u)
      PROVE  BindMoves
  <2>1. PICK st \in {"deleting", "gone"} :
            updateBinding(r, u, [bind[u] EXCEPT !.st = st, !.fin = FALSE])
    BY Zenon, <1>6 DEF ReleaseBinding, Released
  <2> DEFINE b == [bind[u] EXCEPT !.st = st, !.fin = FALSE]
  <2>2. \/ bind' = bind
        \/ bind[u] = my[r].bs[u] /\ bind' = [bind EXCEPT ![u] = b]
    BY Zenon, <2>1 DEF updateBinding
  <2>3. bind[u] = my[r].bs[u] => BindMove(u, b)
    BY Zenon, <1>6 DEF BindMove, Releases, WithoutFinalizer
  <2>4. UNCHANGED poolVars
    BY Zenon, <1>6 DEF ReleaseBinding
  <2> HIDE DEF b
  <2> QED BY Zenon, <1>1, <1>2, <2>2, <2>3, <2>4
<1>7. ASSUME NEW r \in Replicas, NEW u \in Bindings, AddBindingFinalizer(r, u)
      PROVE  BindMoves
  <2> DEFINE b == [bind[u] EXCEPT !.fin = TRUE]
  <2>1. \/ bind' = bind
        \/ bind[u] = my[r].bs[u] /\ bind' = [bind EXCEPT ![u] = b]
    BY Zenon, <1>7 DEF AddBindingFinalizer, updateBinding
  <2>2. bind[u] = my[r].bs[u] => BindMove(u, b)
    BY Zenon, <1>7 DEF BindMove, Finalizes
  <2>3. UNCHANGED poolVars
    BY Zenon, <1>7 DEF AddBindingFinalizer
  <2> HIDE DEF b
  <2> QED BY Zenon, <1>1, <1>2, <2>1, <2>2, <2>3
<1>8. ASSUME NEW u \in Bindings, CreateBinding(u) PROVE BindMoves
  <2> DEFINE b == [bind[u] EXCEPT !.st = "live"]
  <2>1. bind' = [bind EXCEPT ![u] = b] /\ UNCHANGED poolVars
    BY Zenon, <1>0, <1>8 DEF CreateBinding, BindingLists
  <2>2. BindMove(u, b)
    BY Zenon, <1>8 DEF CreateBinding, BindMove, Created
  <2> QED BY Zenon, <1>2, <2>1, <2>2
<1>9. ASSUME NEW u \in Bindings, DeleteBinding(u) PROVE BindMoves
  <2>1. PICK st \in IF bind[u].fin THEN {"deleting"} ELSE {"deleting", "gone"} :
            bind' = [bind EXCEPT ![u].st = st]
    BY Zenon, <1>9 DEF DeleteBinding, Released
  <2> DEFINE b == [bind[u] EXCEPT !.st = st]
  <2>2. bind' = [bind EXCEPT ![u] = b] /\ UNCHANGED poolVars
    BY Zenon, <1>0, <1>9, <2>1 DEF DeleteBinding, BindingLists
  <2>3. BindMove(u, b)
    BY Zenon, <1>9 DEF DeleteBinding, BindMove, Deleted, WithState
  <2> QED BY Zenon, <1>2, <2>2, <2>3
<1>10. ASSUME NEW u \in Bindings, LetGo(u) PROVE BindMoves
  <2> DEFINE b == [bind[u] EXCEPT !.st = "gone"]
  <2>1. bind' = [bind EXCEPT ![u] = b] /\ UNCHANGED poolVars
    BY Zenon, <1>0, <1>10 DEF LetGo, BindingLists
  <2>2. BindMove(u, b)
    BY Zenon, <1>10 DEF LetGo, BindMove, Freed, WithState
  <2> QED BY Zenon, <1>2, <2>1, <2>2
<1>11. ASSUME NEW u \in Bindings, EditBinding(u) PROVE BindMoves
  <2> DEFINE b == [bind[u] EXCEPT !.gen = @ + 1]
  <2>1. bind' = [bind EXCEPT ![u] = b] /\ UNCHANGED poolVars
    BY Zenon, <1>0, <1>11 DEF EditBinding, BindingLists
  <2>2. BindMove(u, b)
    BY Zenon, <1>11 DEF EditBinding, Disturb, BindMove, Edited
  <2> QED BY Zenon, <1>2, <2>1, <2>2
<1>12. ASSUME NEW u \in Bindings, StripFinalizer(u) PROVE BindMoves
  <2>1. PICK st : bind' = [bind EXCEPT ![u].fin = FALSE, ![u].st = st]
    BY Zenon, <1>12 DEF StripFinalizer
  <2> DEFINE b == [bind[u] EXCEPT !.fin = FALSE, !.st = st]
  <2>2. bind' = [bind EXCEPT ![u] = b] /\ UNCHANGED poolVars
    BY ZenonT(30), <1>0, <1>12, <2>1 DEF StripFinalizer, BindingLists
  <2>3. BindMove(u, b)
    BY Zenon, <1>12 DEF StripFinalizer, Disturb, BindMove, Stripped
  <2> QED BY Zenon, <1>2, <2>2, <2>3
<1>13. ASSUME NEW r \in Replicas, Reconcile(r) PROVE BindMoves
  <2>1. CASE \/ AddPoolFinalizer(r) \/ FreezeSpec(r) \/ FinishWork(r)
             \/ StartPass(r) \/ Provision(r) \/ ListBindings(r)
             \/ SnapshotNodes(r) \/ SavePending(r)
             \/ ReleasePool(r) \/ FinishPass(r)
    BY Zenon, <1>1, <2>1 DEF AddPoolFinalizer, FreezeSpec, FinishWork, StartPass,
       Provision, ListBindings, SnapshotNodes, SavePending, ReleasePool, FinishPass
  <2>2. ASSUME NEW u \in Bindings,
               \/ SkipBinding(r, u) \/ SnapshotEndpoints(r, u)
               \/ FailSnapshot(r, u) \/ ReturnUnread(r, u) \/ PinWorkers(r, u)
               \/ AllocateLease(r, u) \/ ProvisionShard(r, u) \/ MutateNLB(r, u)
               \/ RetireLease(r, u) \/ RefuseForeign(r, u)
               \/ SweepGet(r, u) \/ SweepRemove(r, u) \/ QuarantineOrphan(r, u)
        PROVE  BindMoves
    BY Zenon, <1>1, <2>2 DEF SkipBinding, SnapshotEndpoints, FailSnapshot,
       ReturnUnread, PinWorkers, AllocateLease, ProvisionShard, MutateNLB,
       RetireLease, RefuseForeign, SweepGet, SweepRemove, QuarantineOrphan
  <2> QED BY Zenon, <1>4, <1>5, <1>6, <1>7, <1>13, <2>1, <2>2 DEF Reconcile
<1>14. ASSUME \/ \E k \in Shards : WorkSucceeds(k) \/ WorkFails(k) \/ ForeignSet(k)
              \/ \E r \in Replicas : Abort(r) \/ ChangeLeader(r)
              \/ \E u \in Bindings : Resurrect(u)
              \/ DeletePool
              \/ \E s \in Services : ServiceEvent(s)
              \/ \E h \in Hosts : NodeEvent(h)
              \/ UNCHANGED vars
       PROVE  BindMoves
  BY Zenon, <1>1, <1>14 DEF WorkSucceeds, WorkFails, WorkEnds, ForeignSet, Abort,
     ChangeLeader, Resurrect, DeletePool, ServiceEvent, NodeEvent, vars
<1> QED BY Zenon, <1>8, <1>9, <1>10, <1>11, <1>12, <1>13, <1>14 DEF Next, Environment

-----------------------------------------------------------------------------
(* Flows that are being served.  While endpoints only go, come back and    *)
(* move, every read of a Service and of the Nodes is as steady as they     *)
(* are, so a pass resolves a binding to its one destination or to a gap;   *)
(* and it does not empty a backend set during a gap, unless it has seen    *)
(* that nothing flows through the set.                                     *)
Calm == plan.kinds \subseteq {"gap", "move", "abort", "fail", "failCreate"}
NodePortOf(u) == FirstDest[Service[u]][2]
SteadyRead(S) == \A s \in Services :
    S[s].uid = 1 /\ S[s].ok /\ S[s].st # "bad" /\ S[s].port = FirstDest[s][2]
AllReady(N) == \A h \in Hosts : N[h] = "ready"
Fits(n, be) ==
    be # {} => n \in Bindings /\ \E h \in Hosts : be = {<<h, NodePortOf(n)>>}
Flows(k, n) == Listening(k, n) /\ \E s \in bsets : At(s, k, n) /\ s.be # {}

CalmWorld == SteadyRead(svc) /\ AllReady(nodes)
CalmGens == \A u \in Bindings :
    bind[u].gen = 0 /\ \A r \in Replicas : my[r].bs[u].gen = 0
CalmLeases == \A u \in DOMAIN alloc : alloc[u].svc = <<Service[u], 1>>
SteadyEyes(r) ==
    /\ pc[r] = "nodes" \/ my[r].es.seen => SteadyRead(my[r].es.svc)
    /\ my[r].es.seen => AllReady(my[r].es.nodes)
    /\ \A u \in Bindings :
          pc[r] = "step" /\ IsCurrent(r, u) /\ ~Deleting(r, u) => my[r].es.seen
CalmEyes == \A r \in Replicas : SteadyEyes(r)
CalmSets == \A s \in bsets : Fits(s.name, s.be)
CalmOps == \A k \in Shards : op[k].kind = "putSet" =>
    /\ Fits(op[k].name, op[k].be)
    /\ op[k].be = {} => ~Flows(k, op[k].name)
FlowInv ==
    /\ LeaderInv /\ LedgerInv
    /\ Calm => /\ CalmWorld /\ CalmGens /\ CalmLeases /\ CalmEyes
               /\ CalmSets /\ CalmOps

(* Only events of Services and Nodes change them.                          *)
LEMMA StepWorld ==
    ASSUME [Next]_vars
    PROVE  \/ UNCHANGED worldVars
           \/ \E s \in Services : ServiceEvent(s)
           \/ \E h \in Hosts : NodeEvent(h)
<1> DEFINE Goal == \/ UNCHANGED worldVars
                   \/ \E s \in Services : ServiceEvent(s)
                   \/ \E h \in Hosts : NodeEvent(h)
<1> SUFFICES Goal
  BY Zenon
<1>1. ASSUME UNCHANGED worldVars PROVE Goal
  BY Zenon, <1>1
<1>2. ASSUME \/ \E s \in Services : ServiceEvent(s)
             \/ \E h \in Hosts : NodeEvent(h)
      PROVE  Goal
  BY Zenon, <1>2
<1> HIDE DEF Goal
<1>3. ASSUME NEW r \in Replicas, Reconcile(r) PROVE Goal
  <2>1. CASE \/ AddPoolFinalizer(r) \/ FreezeSpec(r) \/ FinishWork(r)
             \/ StartPass(r) \/ Provision(r) \/ ListBindings(r)
             \/ SnapshotNodes(r) \/ SavePending(r)
             \/ ReleasePool(r) \/ FinishPass(r)
    BY Zenon, <1>1, <2>1 DEF AddPoolFinalizer, FreezeSpec, FinishWork, StartPass,
       Provision, ListBindings, SnapshotNodes, SavePending, ReleasePool, FinishPass
  <2>2. ASSUME NEW u \in Bindings,
               \/ ReleaseBinding(r, u) \/ SkipBinding(r, u)
               \/ AddBindingFinalizer(r, u) \/ SnapshotEndpoints(r, u)
               \/ FailSnapshot(r, u) \/ ReturnUnread(r, u) \/ PinWorkers(r, u)
               \/ AllocateLease(r, u) \/ RejectBinding(r, u) \/ RejectUnread(r, u)
        PROVE  Goal
    BY Zenon, <1>1, <2>2 DEF ReleaseBinding, SkipBinding, AddBindingFinalizer,
       SnapshotEndpoints, FailSnapshot, ReturnUnread, PinWorkers, AllocateLease,
       RejectBinding, RejectUnread
  <2>3. ASSUME NEW u \in Bindings,
               \/ ProvisionShard(r, u) \/ HoldBackend(r, u) \/ MutateNLB(r, u)
               \/ RetireLease(r, u) \/ ReportConverged(r, u) \/ RefuseForeign(r, u)
               \/ SweepGet(r, u) \/ SweepRemove(r, u) \/ QuarantineOrphan(r, u)
        PROVE  Goal
    BY Zenon, <1>1, <2>3 DEF ProvisionShard, HoldBackend, MutateNLB, RetireLease,
       ReportConverged, RefuseForeign, SweepGet, SweepRemove, QuarantineOrphan
  <2> QED BY Zenon, <1>3, <2>1, <2>2, <2>3 DEF Reconcile
<1>4. ASSUME NEW k \in Shards, WorkSucceeds(k) \/ WorkFails(k) \/ ForeignSet(k)
      PROVE  Goal
  BY Zenon, <1>1, <1>4 DEF WorkSucceeds, WorkFails, WorkEnds, ForeignSet
<1>5. ASSUME NEW r \in Replicas, Abort(r) \/ ChangeLeader(r) PROVE Goal
  BY Zenon, <1>1, <1>5 DEF Abort, ChangeLeader
<1>6. ASSUME NEW u \in Bindings, \/ CreateBinding(u) \/ DeleteBinding(u) \/ LetGo(u)
                                 \/ EditBinding(u) \/ StripFinalizer(u) \/ Resurrect(u)
      PROVE  Goal
  BY Zenon, <1>1, <1>6 DEF CreateBinding, DeleteBinding, LetGo, EditBinding,
     StripFinalizer, Resurrect
<1>7. ASSUME DeletePool \/ UNCHANGED vars PROVE Goal
  BY Zenon, <1>1, <1>7 DEF DeletePool, vars
<1> QED BY Zenon, <1>2, <1>3, <1>4, <1>5, <1>6, <1>7 DEF Next, Environment

(* Services and Nodes stay steady.                                         *)
LEMMA WorldStep ==
    ASSUME TypeOK, Calm, CalmWorld, [Next]_vars
    PROVE  CalmWorld'
<1>0. svc \in ServiceReads
  BY Zenon DEF TypeOK
<1>1. CASE UNCHANGED worldVars
  BY Zenon, <1>1 DEF CalmWorld, worldVars
<1>2. ASSUME NEW kind, Disturb(kind)
      PROVE  kind \in {"gap", "move", "abort", "fail", "failCreate"}
  BY Zenon, <1>2 DEF Disturb, Calm
<1>3. ASSUME NEW h \in Hosts, NodeEvent(h) PROVE CalmWorld'
  BY <1>2, <1>3 DEF NodeEvent
<1>4. ASSUME NEW s \in Services, ServiceEvent(s) PROVE CalmWorld'
  <2>1. nodes' = nodes
    BY Zenon, <1>4 DEF ServiceEvent
  <2>2. \/ \E h \in Hosts : svc' = [svc EXCEPT ![s].host = h, ![s].st = "ready"]
        \/ svc' = [svc EXCEPT ![s].st = "gap"]
    <3>1. /\ ~Disturb("bad") /\ ~Disturb("port") /\ ~Disturb("invalid")
          /\ ~Disturb("recreate")
      BY <1>2
    <3> QED BY Zenon, <1>4, <3>1 DEF ServiceEvent
  <2>3. \A x \in Services :
           /\ svc'[x].uid = svc[x].uid /\ svc'[x].ok = svc[x].ok
           /\ svc'[x].port = svc[x].port /\ svc'[x].st \in {svc[x].st, "gap", "ready"}
    <3> SUFFICES ASSUME NEW x \in Services
                 PROVE  /\ svc'[x].uid = svc[x].uid /\ svc'[x].ok = svc[x].ok
                        /\ svc'[x].port = svc[x].port
                        /\ svc'[x].st \in {svc[x].st, "gap", "ready"}
      BY Zenon
    <3>1. /\ DOMAIN svc = Services /\ "host" \in DOMAIN svc[x] /\ "st" \in DOMAIN svc[x]
          /\ "uid" \in DOMAIN svc[x] /\ "ok" \in DOMAIN svc[x] /\ "port" \in DOMAIN svc[x]
      BY <1>0 DEF ServiceReads
    <3>2. CASE x # s
      BY Zenon, <2>2, <3>1, <3>2
    <3>3. CASE x = s
      <4>1. PICK m : m = svc[s]
        BY Zenon
      <4>2. \/ \E h : svc'[x] = [[m EXCEPT !.host = h] EXCEPT !.st = "ready"]
            \/ svc'[x] = [m EXCEPT !.st = "gap"]
        BY Zenon, <2>2, <3>1, <3>3, <4>1
      <4>3. ASSUME NEW h, svc'[x] = [[m EXCEPT !.host = h] EXCEPT !.st = "ready"]
            PROVE  /\ svc'[x].uid = svc[x].uid /\ svc'[x].ok = svc[x].ok
                   /\ svc'[x].port = svc[x].port
                   /\ svc'[x].st \in {svc[x].st, "gap", "ready"}
        BY Zenon, <3>1, <3>3, <4>1, <4>3
      <4>4. CASE svc'[x] = [m EXCEPT !.st = "gap"]
        BY Zenon, <3>1, <3>3, <4>1, <4>4
      <4> QED BY Zenon, <4>2, <4>3, <4>4
    <3> QED BY Zenon, <3>2, <3>3
  <2> QED BY <2>1, <2>3 DEF CalmWorld, SteadyRead
<1> QED BY Zenon, <1>1, <1>3, <1>4, StepWorld

(* Nobody edits a binding, so no pass has listed an edited one.            *)
LEMMA GensStep ==
    ASSUME TypeOK, Calm, CalmGens, [Next]_vars
    PROVE  CalmGens'
<1>0. bind \in BindingLists
  BY Zenon DEF TypeOK
<1>1. \A u \in Bindings : bind'[u].gen = bind[u].gen
  <2>1. CASE bind' = bind
    BY Zenon, <2>1
  <2>2. ASSUME NEW u \in Bindings, NEW b, BindMove(u, b),
               bind' = [bind EXCEPT ![u] = b]
        PROVE  \A v \in Bindings : bind'[v].gen = bind[v].gen
    <3>1. "edit" \notin plan.kinds
      BY DEF Calm
    <3>2. PICK x : x = bind[u]
      BY Zenon
    <3>3. "gen" \in DOMAIN x
      BY <1>0, <3>2 DEF BindingLists
    <3>4. b.gen = x.gen
      BY Zenon, <2>2, <3>1, <3>2, <3>3 DEF BindMove, Finalizes, Releases, Reports,
         Created, Deleted, Freed, Edited, Stripped, WithState, WithoutFinalizer,
         WithStatus
    <3> QED BY Zenon, <1>0, <2>2, <3>2, <3>4 DEF BindingLists
  <2> QED BY Zenon, <2>1, <2>2, StepMoves DEF BindMoves
<1>2. ASSUME NEW q \in Replicas, NEW v \in Bindings PROVE my'[q].bs[v].gen = 0
  <2>1. CASE Ends(q)
    BY <2>1 DEF Ends, Blank, Unborn
  <2>2. CASE Lists(q)
    BY Zenon, <1>1, <2>2 DEF Lists, CalmGens
  <2>3. CASE Starts(q) \/ Goes(q)
    BY Zenon, <2>3 DEF Starts, Goes, CalmGens
  <2> QED BY Zenon, <2>1, <2>2, <2>3, StepView DEF ViewShape
<1> QED BY Zenon, <1>1, <1>2 DEF CalmGens

(* A new lease is of the Service that stands.                              *)
LEMMA LeasesStep ==
    ASSUME TypeOK, FreshCopy, CalmWorld, CalmLeases, [Next]_vars
    PROVE  CalmLeases'
<1> SUFFICES ASSUME NEW u \in DOMAIN alloc' PROVE alloc'[u].svc = <<Service[u], 1>>
  BY Zenon DEF CalmLeases
<1>0. IsLedger(alloc) /\ IsLedger(alloc') /\ SaveShape /\ LeaseShape(u)
  BY Zenon, TypeStep, StepShape, StepLease DEF TypeOK, Shape
<1>1. CASE alloc' = alloc
  BY Zenon, <1>1 DEF CalmLeases
<1>2. CASE Retired
  BY Zenon, <1>0, <1>2, RetireKeeps DEF Retired, CalmLeases
<1>3. CASE Granted
  <2>1. PICK v \in Bindings \ DOMAIN alloc, l \in Lease :
            ~l.tomb /\ alloc' = WithLease(alloc, v, l)
    BY Zenon, <1>3 DEF Granted
  <2>2. /\ DOMAIN alloc' = DOMAIN alloc \cup {v} /\ alloc'[v] = l
        /\ \A w \in DOMAIN alloc : alloc'[w] = alloc[w]
    BY <2>1 DEF WithLease
  <2>3. CASE u \in DOMAIN alloc
    BY Zenon, <2>2, <2>3 DEF CalmLeases
  <2>4. CASE u \notin DOMAIN alloc
    <3>1. PICK r \in Replicas : AllocateLease(r, u)
      BY Zenon, <1>0, <2>1, <2>2, <2>4 DEF LeaseShape
    <3>2. PICK s, p, n : savePool(r, my[r].p, WithLease(my[r].a, u,
             [svc |-> ServiceID(u), shard |-> s, port |-> p, nodePort |-> n,
              tomb |-> FALSE]))
      BY Zenon, <3>1 DEF AllocateLease
    <3>3. PICK i : i = ServiceID(u)
      BY Zenon
    <3>4. alloc' # alloc
      BY Zenon, <2>4
    <3>5. alloc'[u].svc = i
      BY <3>2, <3>3, <3>4 DEF savePool, poolVars, WithLease
    <3>6. u \in Bindings
      BY Zenon, <1>0 DEF IsLedger
    <3>7. i = <<Service[u], 1>>
      BY <3>3, <3>6, EngineConstants DEF ServiceID, CalmWorld, SteadyRead
    <3> QED BY Zenon, <3>5, <3>7
  <2> QED BY Zenon, <2>3, <2>4
<1> QED BY Zenon, <1>0, <1>1, <1>2, <1>3 DEF SaveShape

(* What a pass has seen of Services and Nodes stays, is forgotten at the   *)
(* end of the pass, or is read: first the Services, then the Nodes.        *)
SameEyes(q) == /\ my'[q].es.seen = my[q].es.seen /\ my'[q].es.svc = my[q].es.svc
               /\ my'[q].es.nodes = my[q].es.nodes
               /\ pc'[q] = "nodes" => pc[q] = "nodes"
EyesShape(q) ==
    \/ SameEyes(q) \/ Ends(q)
    \/ ~my'[q].es.seen /\ my'[q].es.svc = svc /\ pc'[q] = "nodes"
    \/ /\ pc[q] = "nodes" /\ pc'[q] = "loop"
       /\ my'[q].es.svc = my[q].es.svc /\ my'[q].es.nodes = nodes

(* Every step, for every replica.                                          *)
LEMMA StepEyes ==
    ASSUME TypeOK, [Next]_vars, NEW q \in Replicas
    PROVE  EyesShape(q)
<1> DEFINE Goal == EyesShape(q)
<1> SUFFICES Goal
  BY Zenon
<1>0. CtlOK /\ CopyOK(my[q])
  BY Zenon, TypeParts DEF CtlOK
<1>a. ASSUME my'[q].es = my[q].es, pc'[q] = pc[q] \/ pc'[q] # "nodes" PROVE Goal
  BY Zenon, <1>a DEF EyesShape, SameEyes
<1>b. ASSUME Ends(q) PROVE Goal
  BY Zenon, <1>b DEF EyesShape
<1>1. ASSUME UNCHANGED ctlVars PROVE Goal
  BY Zenon, <1>1, <1>a DEF ctlVars
<1>2. ASSUME NEW r \in Replicas, r # q, NEW m, NEW c,
             my' = [my EXCEPT ![r] = m], pc' = [pc EXCEPT ![r] = c]
      PROVE  Goal
  <2>1. my'[q] = my[q] /\ pc'[q] = pc[q]
    BY Zenon, <1>0, <1>2 DEF CtlOK
  <2> QED BY Zenon, <1>a, <2>1
<1>3. ASSUME NEW m, m.es = my[q].es, NEW c, c # "nodes",
             my' = [my EXCEPT ![q] = m], pc' = [pc EXCEPT ![q] = c]
      PROVE  Goal
  <2>1. my'[q] = m /\ pc'[q] = c
    BY Zenon, <1>0, <1>3 DEF CtlOK
  <2> QED BY Zenon, <1>3, <1>a, <2>1
<1>4. ASSUME NEW k \in Shards, WorkEnds(k) PROVE Goal
  <2>1. pc' = pc
    BY Zenon, <1>4 DEF WorkEnds
  <2>2. PICK p : my'[q] = my[q] \/ my'[q] = [my[q] EXCEPT !.p = p]
    BY Zenon, <1>4 DEF WorkEnds
  <2>3. my'[q].es = my[q].es
    BY Zenon, <1>0, <2>2 DEF CopyOK, Copies
  <2> QED BY Zenon, <1>a, <2>1, <2>3
<1> HIDE DEF Goal
<1>5. ASSUME NEW r \in Replicas, EndPass(r) PROVE Goal
  <2>1. CASE r = q
    <3>1. Ends(q)
      BY Zenon, <1>0, <1>5, <2>1 DEF EndPass, Ends, CtlOK
    <3> QED BY Zenon, <1>b, <3>1
  <2> QED BY Zenon, <1>2, <1>5, <2>1 DEF EndPass
<1>6. ASSUME NEW r \in Replicas, NEW c, c # "nodes", pc' = [pc EXCEPT ![r] = c],
             \/ \E p : my' = [my EXCEPT ![r].p = p]
             \/ \E t : my' = [my EXCEPT ![r].todo = t]
             \/ \E k \in Shards : \E x : my' = [my EXCEPT ![r].cs[k] = x]
             \/ \E p, a : my' = [my EXCEPT ![r].p = p, ![r].a = a]
             \/ \E b, t : my' = [my EXCEPT ![r].bs = b, ![r].todo = t]
             \/ \E k \in Shards : \E w, n :
                   my' = [my EXCEPT ![r].p.shards[k] = w, ![r].p.pending = n]
      PROVE  Goal
  <2>0. DOMAIN my = Replicas /\ "es" \in DOMAIN my[q]
    BY Zenon, <1>0 DEF CtlOK, CopyOK, Copies
  <2>1. my'[q].es = my[q].es
    <3>0. PICK m : m = my[q]
      BY Zenon
    <3>1. CASE r # q
      <4>1. my'[q] = my[q]
        BY Zenon, <1>6, <2>0, <3>1
      <4> QED BY Zenon, <4>1
    <3>2. CASE r = q /\ \/ \E p : my' = [my EXCEPT ![r].p = p]
                        \/ \E t : my' = [my EXCEPT ![r].todo = t]
                        \/ \E k \in Shards : \E x : my' = [my EXCEPT ![r].cs[k] = x]
      BY Zenon, <2>0, <3>2
    <3>3. CASE r = q /\ \E p, a : my' = [my EXCEPT ![r].p = p, ![r].a = a]
      <4>1. PICK p, a : my' = [my EXCEPT ![q].p = p, ![q].a = a]
        BY Zenon, <3>3
      <4>2. my'[q] = [[m EXCEPT !.p = p] EXCEPT !.a = a]
        BY Zenon, <2>0, <3>0, <4>1
      <4> QED BY Zenon, <2>0, <3>0, <4>2
    <3>4. CASE r = q /\ \E b, t : my' = [my EXCEPT ![r].bs = b, ![r].todo = t]
      <4>1. PICK b, t : my' = [my EXCEPT ![q].bs = b, ![q].todo = t]
        BY Zenon, <3>4
      <4>2. my'[q] = [[m EXCEPT !.bs = b] EXCEPT !.todo = t]
        BY Zenon, <2>0, <3>0, <4>1
      <4> QED BY Zenon, <2>0, <3>0, <4>2
    <3>5. CASE r = q /\ \E k \in Shards : \E w, n :
                  my' = [my EXCEPT ![r].p.shards[k] = w, ![r].p.pending = n]
      <4>1. PICK k \in Shards : \E w, n :
               my' = [my EXCEPT ![r].p.shards[k] = w, ![r].p.pending = n]
        BY Zenon, <3>5
      <4>2. PICK w, n : my' = [my EXCEPT ![r].p.shards[k] = w, ![r].p.pending = n]
        BY Zenon, <4>1
      <4>3. my'[q] = [[m EXCEPT !.p.shards[k] = w] EXCEPT !.p.pending = n]
        BY Zenon, <2>0, <3>0, <3>5, <4>2
      <4> QED BY Zenon, <2>0, <3>0, <4>3
    <3> QED BY Zenon, <1>6, <3>1, <3>2, <3>3, <3>4, <3>5
  <2>2. pc'[q] = pc[q] \/ pc'[q] # "nodes"
    BY Zenon, <1>0, <1>6 DEF CtlOK
  <2> QED BY Zenon, <1>a, <2>1, <2>2
<1>7. ASSUME NEW r \in Replicas, NEW u, NextBinding(r, u) PROVE Goal
  <2>1. \E t : my' = [my EXCEPT ![r].todo = t]
    BY Zenon, <1>7 DEF NextBinding
  <2> QED BY Zenon, <1>6, <1>7, <2>1 DEF NextBinding
<1>8. ASSUME NEW r \in Replicas, NEW u, NEW c, bindingStatus(r, u, c) PROVE Goal
  BY Zenon, <1>5, <1>7, <1>8 DEF bindingStatus
<1>9. ASSUME NEW r \in Replicas, NEW k \in Shards, NEW next, next # "nodes",
             EnsureShard(r, k, next)
      PROVE  Goal
  <2>1. CASE CreateNLB(r, k)
    <3>1. \E w, n : my' = [my EXCEPT ![r].p.shards[k] = w, ![r].p.pending = n]
      BY Zenon, <2>1 DEF CreateNLB
    <3> QED BY Zenon, <1>6, <2>1, <3>1 DEF CreateNLB
  <2>2. CASE DiscoverNLB(r, k, next)
    <3>1. \/ EndPass(r)
          \/ /\ pc' = [pc EXCEPT ![r] = "save"]
             /\ \E w, n : my' = [my EXCEPT ![r].p.shards[k] = w, ![r].p.pending = n]
          \/ /\ pc' = [pc EXCEPT ![r] = next]
             /\ \E x : my' = [my EXCEPT ![r].cs[k] = x]
      BY Zenon, <2>2 DEF DiscoverNLB
    <3> QED BY Zenon, <1>5, <1>6, <1>9, <3>1
  <2> QED BY Zenon, <1>9, <2>1, <2>2 DEF EnsureShard
<1>10. ASSUME NEW r \in Replicas, NEW k, NEW o, NEW p, Issue(r, k, o, p) PROVE Goal
  <2>1. \/ EndPass(r)
        \/ pc' = [pc EXCEPT ![r] = "save"] /\ \E n : my' = [my EXCEPT ![r].p = n]
    BY Zenon, <1>10 DEF Issue
  <2> QED BY Zenon, <1>5, <1>6, <2>1
<1>11. ASSUME NEW r \in Replicas, Reconcile(r) PROVE Goal
  <2>0. \A u \in DOMAIN my[r].a : my[r].a[u].shard \in Shards
    BY Zenon, <1>0, CopyParts DEF CtlOK, IsLedger, Lease
  <2>1. CASE AddPoolFinalizer(r) \/ FreezeSpec(r) \/ FinishWork(r)
    BY Zenon, <1>1, <2>1 DEF AddPoolFinalizer, FreezeSpec, FinishWork
  <2>2. CASE SavePending(r) \/ ReleasePool(r) \/ FinishPass(r)
    BY Zenon, <1>5, <2>2 DEF SavePending, ReleasePool, FinishPass, savePool
  <2>3. ASSUME NEW u \in Bindings,
               \/ ReleaseBinding(r, u) \/ AddBindingFinalizer(r, u)
               \/ ReturnUnread(r, u) \/ PinWorkers(r, u) \/ AllocateLease(r, u)
               \/ RetireLease(r, u) \/ RefuseForeign(r, u) \/ QuarantineOrphan(r, u)
        PROVE  Goal
    BY Zenon, <1>5, <2>3 DEF ReleaseBinding, AddBindingFinalizer, updateBinding,
       ReturnUnread, PinWorkers, AllocateLease, RetireLease, RefuseForeign,
       QuarantineOrphan, savePool
  <2>4. ASSUME NEW u \in Bindings,
               \/ SkipBinding(r, u) \/ RejectBinding(r, u) \/ RejectUnread(r, u)
               \/ HoldBackend(r, u) \/ ReportConverged(r, u)
        PROVE  Goal
    BY Zenon, <1>7, <1>8, <2>4 DEF SkipBinding, RejectBinding, RejectUnread,
       HoldBackend, ReportConverged
  <2>5. ASSUME NEW u \in Bindings, MutateNLB(r, u) \/ SweepRemove(r, u) PROVE Goal
    <3>1. EndPass(r) \/ \E k, o, p : Issue(r, k, o, p)
      BY Zenon, <2>5 DEF MutateNLB, SweepRemove
    <3> QED BY Zenon, <1>5, <1>10, <3>1
  <2>6. CASE Provision(r)
    BY Zenon, <1>9, <2>6, FirstShard DEF Provision
  <2>7. ASSUME NEW u \in Bindings, ProvisionShard(r, u) PROVE Goal
    BY Zenon, <1>9, <2>0, <2>7 DEF ProvisionShard, Active, Leased
  <2>8. ASSUME NEW u \in Bindings, SweepGet(r, u) PROVE Goal
    <3>1. u \in DOMAIN my[r].a /\ pc[r] = "loop"
      BY Zenon, <2>8 DEF SweepGet, Sweeping, Swept, Orphans
    <3>2. \/ EndPass(r)
          \/ pc' = pc /\ \E x : my' = [my EXCEPT ![r].cs[my[r].a[u].shard] = x]
      BY Zenon, <2>8 DEF SweepGet
    <3>3. pc' = pc => pc' = [pc EXCEPT ![r] = "loop"]
      BY Zenon, <1>0, <3>1 DEF CtlOK
    <3> QED BY Zenon, <1>5, <1>6, <2>0, <3>1, <3>2, <3>3
  <2>9. CASE StartPass(r)
    <3>1. PICK c : pc' = [pc EXCEPT ![r] = c] /\ c # "nodes"
      <4>1. PICK c : c = (IF ProvisionEmpty /\ pool.st = "live"
                          THEN "provision" ELSE "list")
        BY Zenon
      <4>2. c # "nodes"
        BY Zenon, <4>1
      <4> QED BY Zenon, <2>9, <4>1, <4>2 DEF StartPass
    <3>2. \E p, a : my' = [my EXCEPT ![r].p = p, ![r].a = a]
      BY Zenon, <2>9 DEF StartPass
    <3> QED BY Zenon, <1>6, <3>1, <3>2
  <2>10. CASE ListBindings(r)
    <3>1. \E b, t : my' = [my EXCEPT ![r].bs = b, ![r].todo = t]
      BY Zenon, <2>10 DEF ListBindings
    <3> QED BY Zenon, <1>6, <2>10, <3>1 DEF ListBindings
  <2>11. CASE /\ r # q
              /\ \/ SnapshotNodes(r)
                 \/ \E u \in Bindings : SnapshotEndpoints(r, u) \/ FailSnapshot(r, u)
    <3>1. my'[q] = my[q] /\ pc'[q] = pc[q]
      BY Zenon, <1>0, <2>11 DEF SnapshotNodes, SnapshotEndpoints, FailSnapshot, CtlOK
    <3> QED BY Zenon, <3>1 DEF Goal, EyesShape, SameEyes
  <2>12. CASE SnapshotNodes(q)
    <3>1. /\ pc[q] = "nodes" /\ pc'[q] = "loop"
          /\ my'[q].es = newEndpointSnapshot(my[q].es)
      BY Zenon, <1>0, <2>12 DEF SnapshotNodes, CtlOK, CopyOK, Copies
    <3>2. PICK es : es = my[q].es
      BY Zenon
    <3>3. es \in Views
      BY <1>0, <3>2, CopyParts
    <3>4. /\ newEndpointSnapshot(es).svc = es.svc
          /\ newEndpointSnapshot(es).nodes = nodes
      BY <3>3 DEF newEndpointSnapshot, Views
    <3> QED BY Zenon, <3>1, <3>2, <3>4 DEF Goal, EyesShape
  <2>13. ASSUME NEW u \in Bindings, SnapshotEndpoints(q, u) PROVE Goal
    <3>1. ~my[q].es.seen /\ pc'[q] = "nodes"
      BY Zenon, <1>0, <2>13 DEF SnapshotEndpoints, CtlOK
    <3>2. my'[q].es.seen = my[q].es.seen /\ my'[q].es.svc = svc
      BY Zenon, <1>0, <2>13 DEF SnapshotEndpoints, CtlOK, CopyOK, Copies
    <3> QED BY Zenon, <3>1, <3>2 DEF Goal, EyesShape
  <2>14. ASSUME NEW u \in Bindings, FailSnapshot(q, u) PROVE Goal
    <3>1. pc' = pc
      BY Zenon, <2>14 DEF FailSnapshot
    <3>2. /\ my'[q].es.seen = my[q].es.seen /\ my'[q].es.svc = my[q].es.svc
          /\ my'[q].es.nodes = my[q].es.nodes
      BY Zenon, <1>0, <2>14 DEF FailSnapshot, CtlOK, CopyOK, Copies
    <3> QED BY Zenon, <3>1, <3>2 DEF Goal, EyesShape, SameEyes
  <2> QED BY Zenon,
      <1>11, <2>1, <2>2, <2>3, <2>4, <2>5, <2>6, <2>7, <2>8, <2>9, <2>10, <2>11,
      <2>12, <2>13, <2>14 DEF Reconcile
<1>12. ASSUME NEW k \in Shards, WorkSucceeds(k) \/ WorkFails(k) PROVE Goal
  BY Zenon, <1>4, <1>12 DEF WorkSucceeds, WorkFails
<1>13. ASSUME NEW r \in Replicas, Abort(r) PROVE Goal
  BY Zenon, <1>5, <1>13 DEF Abort
<1>14. ASSUME \/ \E k \in Shards : ForeignSet(k)
              \/ \E r \in Replicas : ChangeLeader(r)
              \/ \E u \in Bindings : \/ CreateBinding(u) \/ DeleteBinding(u) \/ LetGo(u)
                                     \/ EditBinding(u) \/ StripFinalizer(u)
                                     \/ Resurrect(u)
              \/ DeletePool
              \/ \E s \in Services : ServiceEvent(s)
              \/ \E h \in Hosts : NodeEvent(h)
              \/ UNCHANGED vars
       PROVE  Goal
  BY Zenon, <1>1, <1>14 DEF ForeignSet, ChangeLeader, CreateBinding, DeleteBinding,
     LetGo, EditBinding, StripFinalizer, Resurrect, DeletePool, ServiceEvent,
     NodeEvent, vars
<1> QED BY Zenon, <1>11, <1>12, <1>13, <1>14 DEF Next, Environment

(* What a pass sees stays steady, and it has looked before it steps.       *)
LEMMA EyesStep ==
    ASSUME TypeOK, CalmWorld, CalmGens, CalmEyes, [Next]_vars
    PROVE  CalmEyes'
<1> SUFFICES ASSUME NEW q \in Replicas PROVE SteadyEyes(q)'
  BY Zenon DEF CalmEyes
<1>0. SteadyEyes(q) /\ CtlOK /\ CopyOK(my[q])
  BY Zenon, TypeParts DEF CalmEyes, CtlOK
<1>1. /\ pc'[q] = "nodes" \/ my'[q].es.seen => SteadyRead(my'[q].es.svc)
      /\ my'[q].es.seen => AllReady(my'[q].es.nodes)
  <2>1. CASE SameEyes(q)
    BY Zenon, <1>0, <2>1 DEF SameEyes, SteadyEyes
  <2>2. CASE Ends(q)
    <3>1. ~Blank.es.seen
      BY Zenon DEF Blank, NoView
    <3> QED BY Zenon, <2>2, <3>1 DEF Ends
  <2>3. CASE ~my'[q].es.seen /\ my'[q].es.svc = svc /\ pc'[q] = "nodes"
    BY Zenon, <2>3 DEF CalmWorld
  <2>4. CASE /\ pc[q] = "nodes" /\ pc'[q] = "loop"
             /\ my'[q].es.svc = my[q].es.svc /\ my'[q].es.nodes = nodes
    BY Zenon, <1>0, <2>4 DEF SteadyEyes, CalmWorld
  <2> QED BY Zenon, <2>1, <2>2, <2>3, <2>4, StepEyes DEF EyesShape
<1>2. ASSUME NEW u \in Bindings, pc'[q] = "step", IsCurrent(q, u)', ~Deleting(q, u)'
      PROVE  my'[q].es.seen
  <2>1. CASE pc[q] = "step" /\ my'[q] = my[q]
    <3>1. IsCurrent(q, u) /\ ~Deleting(q, u)
      BY Zenon, <1>2, <2>1 DEF IsCurrent, Deleting
    <3> QED BY Zenon, <1>0, <2>1, <3>1 DEF SteadyEyes
  <2>2. ASSUME NEW v \in Bindings, ProvisionShard(q, v) PROVE my'[q].es.seen
    <3>1. /\ pc[q] = "loop" /\ IsCurrent(q, v) /\ Active(q, v)
          /\ Deleting(q, v) \/ my[q].bs[v].fin
          /\ NeedsSnapshot(q, v) => my[q].es.seen
      BY Zenon, <2>2 DEF ProvisionShard, Looping
    <3>2. my'[q].bs = my[q].bs /\ my'[q].todo = my[q].todo /\ my'[q].es = my[q].es
      <4>1. PICK k : EnsureShard(q, k, "step")
        BY Zenon, <2>2 DEF ProvisionShard
      <4>2. \E x : my' = [my EXCEPT ![q].cs[k] = x]
        BY ZenonT(30), <1>0, <1>2, <4>1 DEF EnsureShard, CreateNLB, DiscoverNLB,
           EndPass, CtlOK
      <4> QED BY Zenon, <1>0, <4>2 DEF CtlOK, CopyOK, Copies
    <3>3. u \in my[q].todo /\ v \in my[q].todo /\ u <= v /\ v <= u
      BY Zenon, <1>2, <3>1, <3>2 DEF IsCurrent
    <3>4. u = v
      BY <3>3, EngineConstants
    <3>5. ~Deleting(q, v)
      BY Zenon, <1>2, <3>2, <3>4 DEF Deleting
    <3>6. ~Suspended(my[q].bs[v])
      <4>1. my[q].bs[v].gen = 0
        BY Zenon DEF CalmGens
      <4> QED BY <4>1 DEF Suspended
    <3>7. NeedsSnapshot(q, v)
      BY Zenon, <3>1, <3>5, <3>6 DEF NeedsSnapshot, Looping
    <3> QED BY Zenon, <3>1, <3>2, <3>7
  <2> QED BY Zenon, <1>2, <2>1, <2>2, StepArrives
<1> QED BY Zenon, <1>1, <1>2 DEF SteadyEyes

(* A set of one member has one member: by its definition, Cardinality      *)
(* counts it and then none.                                                *)
LEMMA OneMember ==
    ASSUME NEW d
    PROVE  Cardinality({d}) = 1
<1> DEFINE Counts(f) ==
               f = [T \in SUBSET {d} |-> IF T = {} THEN 0
                                         ELSE 1 + f[T \ {CHOOSE x : x \in T}]]
           count == CHOOSE f : Counts(f)
<1>1. Cardinality({d}) = count[{d}]
  BY Zenon DEF Cardinality
<1>2. {d} \ {CHOOSE x : x \in {d}} = {}
  <2>1. (CHOOSE x : x \in {d}) = d
    BY Zenon
  <2> QED BY <2>1
<1>3. \E f : Counts(f)
  <2> DEFINE g == [T \in SUBSET {d} |-> IF T = {} THEN 0 ELSE 1]
             h == [T \in SUBSET {d} |-> IF T = {} THEN 0
                                        ELSE 1 + g[T \ {CHOOSE x : x \in T}]]
  <2>1. g[{}] = 0
    BY Zenon
  <2>2. ASSUME NEW T \in SUBSET {d} PROVE g[T] = h[T]
    <3>1. CASE T = {}
      BY Zenon, <3>1
    <3>2. CASE T # {}
      <4>1. T = {d}
        BY <3>2
      <4>2. h[T] = 1 + g[T \ {CHOOSE x : x \in T}]
        BY Zenon, <3>2
      <4>3. T \ {CHOOSE x : x \in T} = {}
        BY Zenon, <1>2, <4>1
      <4>4. g[T] = 1
        BY Zenon, <3>2
      <4> HIDE DEF g, h
      <4> QED BY <2>1, <4>2, <4>3, <4>4
    <3> QED BY Zenon, <3>1, <3>2
  <2>3. g = h
    BY Zenon, <2>2
  <2> QED BY Zenon, <2>3
<1>4. Counts(count)
  BY Zenon, <1>3
<1> HIDE DEF count
<1>5. count[{}] = 0
  BY Zenon, <1>4
<1>6. count[{d}] = 1 + count[{d} \ {CHOOSE x : x \in {d}}]
  <2>1. {d} # {} /\ {d} \in SUBSET {d}
    BY Zenon
  <2> QED BY Zenon, <1>4, <2>1
<1> QED BY <1>1, <1>2, <1>5, <1>6

(* A NodePort binding resolves to its one destination, or to a gap.        *)
LEMMA ResolvesCalmly ==
    ASSUME NEW es \in Views, SteadyRead(es.svc), AllReady(es.nodes),
           NEW u \in Bindings, Mode[u] = "NodePort",
           NEW a, a.svc = <<Service[u], 1>>
    PROVE  \/ Resolve(es, u, a) = [be |-> {}, why |-> "gap"]
           \/ \E h \in Hosts : Resolve(es, u, a).be = {<<h, NodePortOf(u)>>}
<1>1. PICK v : v = es.svc[Service[u]]
  BY Zenon
<1>2. Service[u] \in Services
  BY EngineConstants
<1>3. /\ v.uid = 1 /\ v.ok /\ v.st \in {"ready", "gap"} /\ v.port = NodePortOf(u)
      /\ v.host \in Hosts
  <2>1. v \in [uid : Nat, ok : BOOLEAN, st : {"ready", "gap", "bad"},
               host : Hosts, port : NodePorts]
    BY Zenon, <1>1, <1>2 DEF Views, ServiceReads
  <2>2. v.st \in {"ready", "gap", "bad"} /\ v.host \in Hosts
    BY Zenon, <2>1
  <2> QED BY Zenon, <1>1, <1>2, <2>2 DEF SteadyRead, NodePortOf
<1>4. es.nodes[v.host] = "ready"
  BY Zenon, <1>3 DEF AllReady
<1>5. Resolve(es, u, a) = [be  |-> IF v.st = "gap" THEN {} ELSE {<<v.host, v.port>>},
                           why |-> IF v.st = "gap" THEN "gap" ELSE "ok"]
  BY Zenon, <1>1, <1>3, <1>4 DEF Resolve
<1>6. CASE v.st = "gap"
  BY Zenon, <1>5, <1>6
<1>7. CASE v.st # "gap"
  <2>1. PICK d : d = {<<v.host, v.port>>}
    BY Zenon
  <2>2. Resolve(es, u, a) = [be |-> d, why |-> "ok"]
    BY Zenon, <1>5, <1>7, <2>1
  <2>3. [be |-> d, why |-> "ok"].be = d
    BY Zenon
  <2> QED BY Zenon, <1>3, <2>1, <2>2, <2>3
<1> QED BY Zenon, <1>6, <1>7

(* What a pass asks for in a backend set fits the binding, and it asks for *)
(* an empty one only if nothing flows.                                     *)
LEMMA PutFits ==
    ASSUME \A x \in Bindings : Mode[x] = "NodePort",
           \A s, t \in Services : FirstDest[s][2] = FirstDest[t][2] => s = t,
           FlowInv, Calm, NEW r \in Replicas, NEW u \in Bindings, NEW k \in Shards,
           Asks(r, u, k), op'[k].kind = "putSet"
    PROVE  Fits(u, op'[k].be) /\ (op'[k].be = {} => ~Flows(k, u))
<1>0. /\ LeaderInv /\ ServicePortExclusive /\ CalmGens /\ CalmLeases /\ CalmEyes
      /\ CalmSets /\ TypeOK /\ NativeLeased
  BY Zenon DEF FlowInv, LedgerInv, LeaderInv, ServedInv
<1>1. Sole /\ "resurrect" \notin plan.kinds
  BY DEF Calm, Sole
<1>2. Dark
  BY Zenon, <1>0, <1>1 DEF LeaderInv, Led
<1>3. /\ my[r].a = alloc /\ u \in DOMAIN alloc /\ alloc[u].shard = k
      /\ MutateNLB(r, u) /\ op'[k] = NextStep(r, u) /\ ~alloc[u].tomb
      /\ Shows(my[r].cs[k], k)
  <2>1. Knows(r, u, k)
    BY Zenon, <1>0, <1>1, AsksSeen
  <2> QED BY Zenon, <2>1 DEF Knows
<1>4. op'[k].be = Wanted(r, u).be /\ ~Deleting(r, u)
  BY Zenon, <1>3, PutWanted
<1>5. pc[r] = "step" /\ IsCurrent(r, u) /\ ~Holds(r, u) /\ Clean(r, u)
  BY Zenon, <1>3 DEF MutateNLB, Stepping
<1>6. PICK c, es : c = my[r].cs[k] /\ es = my[r].es
  BY Zenon
<1>7. SteadyRead(es.svc) /\ AllReady(es.nodes)
  BY Zenon, <1>0, <1>4, <1>5, <1>6 DEF CalmEyes, SteadyEyes
<1>8. es \in Views
  BY Zenon, <1>0, <1>6, TypeParts, CopyParts DEF CtlOK
<1>9. PICK want : want = Resolve(es, u, alloc[u])
  BY Zenon
<1>10. Desired(my[r], u) = want
  <2>1. my[r].bs[u].gen = 0
    BY Zenon, <1>0 DEF CalmGens
  <2>2. ~Suspended(my[r].bs[u])
    BY <2>1 DEF Suspended
  <2>3. Mode[u] # "NodePortCluster"
    BY Zenon
  <2> QED BY Zenon, <1>3, <1>6, <1>9, <2>2, <2>3 DEF Desired
<1>11. \/ want = [be |-> {}, why |-> "gap"]
       \/ \E h \in Hosts : want.be = {<<h, NodePortOf(u)>>}
  <2>1. PICK a : a = alloc[u]
    BY Zenon
  <2>2. a.svc = <<Service[u], 1>>
    BY Zenon, <1>0, <1>3, <2>1 DEF CalmLeases
  <2>3. \/ Resolve(es, u, a) = [be |-> {}, why |-> "gap"]
        \/ \E h \in Hosts : Resolve(es, u, a).be = {<<h, NodePortOf(u)>>}
    <3>1. Mode[u] = "NodePort"
      BY Zenon
    <3> QED BY Zenon, <1>7, <1>8, <2>2, <3>1, ResolvesCalmly
  <2> QED BY Zenon, <1>9, <2>1, <2>3
<1>12. ASSUME NEW s \in c.sets, s.name # u, s.be \cap want.be # {} PROVE FALSE
  <2>1. s.name \in DOMAIN alloc
    BY Zenon, <1>3, <1>5, <1>6, <1>12 DEF Clean, Unowned
  <2>2. s.name \in Bindings /\ s.name # Foreign
    BY Zenon, <1>0, <2>1, EngineConstants DEF TypeOK, IsLedger, Foreign
  <2>3. s \in bsets
    BY Zenon, <1>3, <1>6, <1>12, <2>2 DEF Shows
  <2>4. ~alloc[s.name].tomb
    BY Zenon, <1>2, <2>1, <2>3 DEF Dark, Native
  <2>5. PICK h \in Hosts : s.be = {<<h, NodePortOf(s.name)>>}
    BY Zenon, <1>0, <1>12, <2>3 DEF CalmSets, Fits
  <2>6. PICK g \in Hosts : want.be = {<<g, NodePortOf(u)>>}
    <3>1. [be |-> {}, why |-> "gap"].be = {}
      BY Zenon
    <3> QED BY Zenon, <1>11, <1>12, <3>1
  <2>7. NodePortOf(s.name) = NodePortOf(u)
    BY <1>12, <2>5, <2>6
  <2>8. Service[s.name] = Service[u]
    BY Zenon, <2>2, <2>7, EngineConstants DEF NodePortOf
  <2>9. alloc[s.name].svc = alloc[u].svc
    BY Zenon, <1>0, <1>3, <2>1, <2>8 DEF CalmLeases
  <2> QED BY Zenon, <1>0, <1>3, <1>12, <2>1, <2>4, <2>9 DEF ServicePortExclusive
<1>13. Wanted(r, u) = want
  <2>1. ~destinationConflict(my[r].cs[my[r].a[u].shard], u, want.be)
    BY Zenon, <1>3, <1>6, <1>12 DEF destinationConflict
  <2> QED BY Zenon, <1>4, <1>10, <2>1 DEF Wanted
<1>14. Fits(u, op'[k].be)
  <2>1. PICK b : b = op'[k].be
    BY Zenon
  <2>2. b = want.be
    BY Zenon, <1>4, <1>13, <2>1
  <2>3. [be |-> {}, why |-> "gap"].be = {}
    BY Zenon
  <2>4. Fits(u, b)
    BY Zenon, <1>11, <2>2, <2>3 DEF Fits
  <2> QED BY Zenon, <2>1, <2>4
<1>15. ASSUME op'[k].be = {}, Flows(k, u) PROVE FALSE
  <2>1. want.why = "gap"
    <3>1. \A h : {<<h, NodePortOf(u)>>} # {}
      BY Zenon
    <3>2. [be |-> {}, why |-> "gap"].why = "gap"
      BY Zenon
    <3> QED BY Zenon, <1>4, <1>11, <1>13, <1>15, <3>1, <3>2
  <2>2. ~canRetainBackend(c, es, alloc, u)
    BY Zenon, <1>3, <1>4, <1>5, <1>6, <1>10, <2>1 DEF Holds
  <2>3. PICK l \in listeners : At(l, k, u)
    BY Zenon, <1>15 DEF Flows, Listening
  <2>4. PICK s \in bsets : At(s, k, u) /\ s.be # {}
    BY Zenon, <1>15 DEF Flows
  <2>5. u # Foreign
    BY EngineConstants DEF Foreign
  <2>6. l \in c.lst /\ s \in c.sets
    BY Zenon, <1>1, <1>3, <1>6, <2>3, <2>4, <2>5 DEF Shows, At
  <2>7. l.name = u /\ l.port = alloc[u].port
    BY Zenon, <1>0, <2>3, <2>5 DEF NativeLeased, At
  <2>8. s.name = u
    BY Zenon, <2>4 DEF At
  <2>9. PICK h \in Hosts : s.be = {<<h, NodePortOf(u)>>}
    BY Zenon, <1>0, <2>4, <2>8 DEF CalmSets, Fits
  <2>10. Cardinality(s.be) = 1
    BY Zenon, <2>9, OneMember
  <2>11. \A d \in s.be : d[2] = es.svc[Service[u]].port /\ es.nodes[d[1]] = "ready"
    <3>1. es.svc[Service[u]].port = NodePortOf(u) /\ es.nodes[h] = "ready"
      BY Zenon, <1>7, EngineConstants DEF SteadyRead, AllReady, NodePortOf
    <3> QED BY <2>9, <3>1
  <2>12. ~Unowned(c, alloc, alloc[u].shard)
    BY Zenon, <1>3, <1>5, <1>6 DEF Clean
  <2> QED BY Zenon, <2>2, <2>6, <2>7, <2>8, <2>10, <2>11, <2>12 DEF canRetainBackend
<1> QED BY Zenon, <1>14, <1>15

(* A set on an NLB was there, is empty, or is what was asked for.          *)
LEMMA SetsStep ==
    ASSUME TypeOK, CalmSets, CalmOps, [Next]_vars
    PROVE  CalmSets'
<1> SUFFICES ASSUME NEW s \in bsets' PROVE Fits(s.name, s.be)
  BY Zenon DEF CalmSets, Fits, NodePortOf
<1>1. PICK k \in Shards : k = s.shard
  BY Zenon, TypeStep DEF TypeOK, SetSets
<1>2. CASE Alone(k)
  BY Zenon, <1>1, <1>2 DEF Alone, CalmSets, Fits
<1>3. CASE WorkSucceeds(k)
  <2>1. bsets' = Applied(k, op[k]).sets
    BY Zenon, <1>3 DEF WorkSucceeds
  <2>2. \A x \in Applied(k, op[k]).sets : x \in bsets \/
           (op[k].kind = "putSet" /\
            x = [shard |-> k, name |-> op[k].name, be |-> op[k].be])
    BY Zenon DEF Applied
  <2>3. PICK n, b : n = op[k].name /\ b = op[k].be
    BY Zenon
  <2>4. /\ [shard |-> k, name |-> n, be |-> b].name = n
        /\ [shard |-> k, name |-> n, be |-> b].be = b
    BY Zenon
  <2> QED BY Zenon, <2>1, <2>2, <2>3, <2>4 DEF CalmSets, CalmOps
<1> QED BY Zenon, <1>2, <1>3, StepCloud

(* A request for an empty set stays one through which nothing flows: one   *)
(* request at a time changes an NLB.                                       *)
LEMMA OpsStep ==
    ASSUME \A x \in Bindings : Mode[x] = "NodePort",
           \A s, t \in Services : FirstDest[s][2] = FirstDest[t][2] => s = t,
           FlowInv, Calm, [Next]_vars
    PROVE  CalmOps'
<1> SUFFICES ASSUME NEW k \in Shards, op'[k].kind = "putSet"
             PROVE  /\ Fits(op'[k].name, op'[k].be)
                    /\ op'[k].be = {} => ~Flows(k, op[k].name)'
  BY Zenon DEF CalmOps, Fits, NodePortOf, Flows, Listening, At
<1>0. TypeOK /\ LeaderInv /\ CalmOps
  BY Zenon DEF FlowInv, LeaderInv, ServedInv
<1>1. Sole /\ "resurrect" \notin plan.kinds
  BY DEF Calm, Sole
<1>2. CASE op'[k] = op[k]
  <2>1. ~WorkSucceeds(k)
    BY <1>0 DEF WorkSucceeds, WorkEnds, NoOp, TypeOK
  <2>2. Alone(k)
    BY Zenon, <1>0, <2>1, StepCloud
  <2>3. PICK n : n = op[k].name
    BY Zenon
  <2>4. Flows(k, n)' => Flows(k, n)
    BY Zenon, <1>1, <2>2 DEF Flows, Listening, At, Alone
  <2> QED BY Zenon, <1>0, <1>2, <2>3, <2>4 DEF CalmOps
<1>3. ASSUME NEW r \in Replicas, NEW u \in Bindings, Asks(r, u, k)
      PROVE  /\ Fits(op'[k].name, op'[k].be)
             /\ op'[k].be = {} => ~Flows(k, op[k].name)'
  <2>1. MutateNLB(r, u) /\ op'[k].name = u
    <3>1. Knows(r, u, k)
      BY Zenon, <1>0, <1>1, <1>3, AsksSeen
    <3> QED BY Zenon, <3>1 DEF Knows
  <2>2. Fits(u, op'[k].be) /\ (op'[k].be = {} => ~Flows(k, u))
    BY Zenon, <1>3, PutFits
  <2>3. Flows(k, u)' => Flows(k, u)
    BY Zenon, <2>1 DEF MutateNLB, Flows, Listening, At
  <2> QED BY Zenon, <2>1, <2>2, <2>3
<1>4. op'[k] = op[k] \/ \E r \in Replicas, u \in Bindings : Asks(r, u, k)
  BY Zenon, <1>0, StepOp, NoOpFields DEF OpShape
<1> QED BY Zenon, <1>2, <1>3, <1>4

(* No step cuts a flow.                                                    *)
LEMMA FlowKept ==
    ASSUME FlowInv, Calm, [Next]_vars, NEW s \in bsets, s.be # {},
           NEW l \in listeners, At(l, s.shard, s.name)
    PROVE  \E t \in bsets' : At(t, s.shard, s.name) /\ t.be # {}
<1>0. TypeOK /\ CalmSets /\ CalmOps
  BY Zenon DEF FlowInv, LeaderInv, ServedInv
<1>1. PICK k \in Shards : k = s.shard
  BY Zenon, <1>0 DEF TypeOK, SetSets
<1>2. s.name # Foreign
  <2>1. s.name \in Bindings
    BY Zenon, <1>0 DEF CalmSets, Fits
  <2> QED BY <2>1, EngineConstants DEF Foreign
<1>3. At(s, k, s.name) /\ Flows(k, s.name)
  BY Zenon, <1>1 DEF Flows, Listening, At
<1>4. CASE Alone(k)
  BY Zenon, <1>1, <1>2, <1>3, <1>4 DEF Alone
<1>5. CASE WorkSucceeds(k)
  <2>1. bsets' = Applied(k, op[k]).sets
    BY Zenon, <1>5 DEF WorkSucceeds
  <2>2. PICK o : o = op[k]
    BY Zenon
  <2>3. CASE s.name # o.name
    <3>1. s \in Applied(k, o).sets
      BY Zenon, <2>3 DEF Applied, At
    <3> QED BY Zenon, <1>1, <1>3, <2>1, <2>2, <3>1
  <2>4. CASE s.name = o.name /\ o.kind = "putSet"
    <3>1. o.be # {}
      BY Zenon, <1>0, <1>3, <2>2, <2>4 DEF CalmOps
    <3> DEFINE t == [shard |-> k, name |-> o.name, be |-> o.be]
    <3>2. t \in Applied(k, o).sets
      BY Zenon, <2>4 DEF Applied
    <3>3. At(t, k, o.name) /\ t.be = o.be
      BY Zenon DEF At
    <3> HIDE DEF t
    <3> QED BY Zenon, <1>1, <2>1, <2>2, <2>4, <3>1, <3>2, <3>3
  <2>5. CASE s.name = o.name /\ o.kind # "putSet"
    <3>1. {x \in listeners : ~At(x, k, o.name)} # listeners
      BY Zenon, <1>1, <2>5
    <3>2. Applied(k, o).sets = bsets
      BY Zenon, <2>5, <3>1 DEF Applied
    <3> QED BY Zenon, <1>1, <1>3, <2>1, <2>2, <3>2
  <2> QED BY Zenon, <2>3, <2>4, <2>5
<1> QED BY Zenon, <1>0, <1>4, <1>5, StepCloud

(* While endpoints only go, come back or move, no pass, crash or failed    *)
(* request ever cuts a flow that is being served, for any number of        *)
(* NodePort bindings, if no two Services have the same node port, which    *)
(* the API server sees to: Holds leaves the backend of canRetainBackend    *)
(* alone, and StepBackends empties a set only when nothing flows.          *)
THEOREM GapsKeepFlows ==
    ASSUME \A u \in Bindings : Mode[u] = "NodePort",
           \A s, t \in Services : FirstDest[s][2] = FirstDest[t][2] => s = t
    PROVE  Spec => GapKeepsFlow
<1>1. Init => FlowInv
  <2> SUFFICES ASSUME Init PROVE FlowInv
    OBVIOUS
  <2>1. LeaderInv /\ LedgerInv
    BY Zenon, LeaderInit, TypeInit DEF Init, LedgerInv, FreshCopy, LeaseUnique,
       ServicePortExclusive, NoLeases
  <2>2. CalmWorld
    BY DEF Init, CalmWorld, SteadyRead, AllReady
  <2>3. CalmGens
    BY DEF Init, CalmGens, Unborn, Blank
  <2>4. CalmLeases /\ CalmSets
    BY Zenon DEF Init, CalmLeases, CalmSets, NoLeases
  <2>5. CalmEyes
    BY Zenon DEF Init, CalmEyes, SteadyEyes, Blank, NoView
  <2>6. CalmOps
    BY Zenon, NoOpFields DEF Init, CalmOps
  <2> QED BY Zenon, <2>1, <2>2, <2>3, <2>4, <2>5, <2>6 DEF FlowInv
<1>2. FlowInv /\ [Next]_vars => FlowInv'
  <2> SUFFICES ASSUME FlowInv, [Next]_vars PROVE FlowInv'
    OBVIOUS
  <2>1. TypeOK /\ FreshCopy /\ LeaderInv /\ LedgerInv
    BY Zenon DEF FlowInv, LedgerInv
  <2>2. LeaderInv' /\ (Calm' => Calm)
    BY Zenon, <2>1, LeaderStep, StepPlan DEF Calm
  <2>3. LedgerInv'
    BY Zenon, <2>1, TypeStep, StepShape, FreshStep, UniqueStep
       DEF LedgerInv, TypeOK, Shape
  <2>4. ASSUME Calm
        PROVE  CalmWorld' /\ CalmGens' /\ CalmLeases' /\ CalmEyes' /\ CalmSets' /\ CalmOps'
    BY Zenon, <2>1, <2>4, WorldStep, GensStep, LeasesStep, EyesStep, SetsStep, OpsStep
       DEF FlowInv
  <2> QED BY Zenon, <2>2, <2>3, <2>4 DEF FlowInv
<1>3. FlowInv /\ [Next]_vars =>
        [Calm => \A s \in bsets :
              s.be # {} /\ (\E l \in listeners : At(l, s.shard, s.name)) =>
                  \E t \in bsets' : At(t, s.shard, s.name) /\ t.be # {}]_vars
  BY Zenon, FlowKept
<1> QED BY <1>1, <1>2, <1>3, PTL DEF Spec, GapKeepsFlow, Calm
=============================================================================
