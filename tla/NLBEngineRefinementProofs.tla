--------------------- MODULE NLBEngineRefinementProofs ----------------------
(***************************************************************************)
(* An explicit-port pool of NLBEngine implements EngineContract, for any   *)
(* number of bindings, Services, hosts and replicas, as long as there is   *)
(* no change of leader and nobody strips a finalizer.  Every step of a     *)
(* pass, of OCI and of the users writes what some operation of the         *)
(* contract writes, or nothing of it.  That rests on what the pass knows:  *)
(* while its copy of the pool is not stale, the copy is the pool but for   *)
(* the one change about to be saved.                                       *)
(***************************************************************************)
EXTENDS NLBEngineLeaderProofs, EngineRefinement, TLAPS

-----------------------------------------------------------------------------
(* What the engine writes, as EngineContract has it.  The copy of a pass   *)
(* whose save would be accepted is the pool until the pass asks OCI for    *)
(* something; then it differs by what was asked for.                       *)

Unretired(A) == \E u \in DOMAIN A : ~A[u].tomb
SaveReady(r) ==
    LET p == my[r].p
    IN  /\ p.st = pool.st /\ p.fin = pool.fin
        /\ \/ /\ p.shards[0] = "id" /\ pool.shards[0] = "none" /\ p.pending # NoWork
              /\ p.st = "live" \/ Unretired(my[r].a)
           \/ /\ p.shards[0] = "ip" /\ pool.shards[0] # "ip" /\ p.pending = NoWork
              /\ p.st = "live" \/ Unretired(my[r].a)
           \/ /\ p.shards[0] = pool.shards[0] /\ p.pending # NoWork
              /\ DOMAIN my[r].a # {}
CopyStands == \A r \in Replicas : pc[r] # "idle" /\ r \notin stale =>
    /\ pool.pending = NoWork
    /\ IF pc[r] = "save" THEN SaveReady(r) ELSE my[r].p = pool
Provisioning == \A r \in Replicas : pc[r] = "provision" => my[r].p.st = "live"
GensOlder == \A r \in Replicas, u \in Bindings : my[r].bs[u].gen <= bind[u].gen
FinExists == \A u \in Bindings : bind[u].fin => Exists(bind[u])
FinListed == \A r \in Replicas : Looped(pc[r]) =>
    \A u \in Bindings : bind[u].fin => Exists(my[r].bs[u])

(* The pool is written, which makes every copy old, or the end of the work *)
(* request that it waits for is noted.                                     *)
LEMMA StepWrites ==
    ASSUME [Next]_vars
    PROVE  pool' = pool \/ stale' = Replicas \/ \E k \in Shards : WorkEnds(k)
<1> DEFINE Goal == pool' = pool \/ stale' = Replicas \/ \E k \in Shards : WorkEnds(k)
<1> SUFFICES Goal
  BY Zenon
<1>1. ASSUME pool' = pool \/ stale' = Replicas PROVE Goal
  BY <1>1
<1>2. ASSUME NEW k \in Shards, WorkEnds(k) PROVE Goal
  BY <1>2
<1> HIDE DEF Goal
<1>3. ASSUME NEW r, NEW p, NEW a, savePool(r, p, a) PROVE Goal
  BY Zenon, <1>1, <1>3 DEF savePool, poolVars
<1>4. ASSUME NEW r \in Replicas, Reconcile(r) PROVE Goal
  <2>1. CASE SavePending(r) \/ ReleasePool(r)
    BY Zenon, <1>3, <2>1 DEF SavePending, ReleasePool
  <2>2. ASSUME NEW u \in Bindings, \/ PinWorkers(r, u) \/ AllocateLease(r, u)
                                   \/ RetireLease(r, u) \/ QuarantineOrphan(r, u)
        PROVE  Goal
    BY Zenon, <1>3, <2>2 DEF PinWorkers, AllocateLease, RetireLease, QuarantineOrphan
  <2>3. CASE \/ AddPoolFinalizer(r) \/ FreezeSpec(r) \/ FinishWork(r)
             \/ StartPass(r) \/ Provision(r) \/ ListBindings(r)
             \/ SnapshotNodes(r) \/ FinishPass(r)
    BY Zenon, <1>1, <2>3 DEF AddPoolFinalizer, FreezeSpec, FinishWork, StartPass,
       Provision, ListBindings, SnapshotNodes, FinishPass, poolVars
  <2>4. ASSUME NEW v \in Bindings,
               \/ ReleaseBinding(r, v) \/ SkipBinding(r, v)
               \/ AddBindingFinalizer(r, v) \/ SnapshotEndpoints(r, v)
               \/ FailSnapshot(r, v) \/ ReturnUnread(r, v) \/ RejectBinding(r, v)
               \/ RejectUnread(r, v) \/ ProvisionShard(r, v) \/ HoldBackend(r, v)
               \/ MutateNLB(r, v) \/ ReportConverged(r, v) \/ RefuseForeign(r, v)
               \/ SweepGet(r, v) \/ SweepRemove(r, v)
        PROVE  Goal
    BY Zenon, <1>1, <2>4 DEF ReleaseBinding, SkipBinding, AddBindingFinalizer,
       SnapshotEndpoints, FailSnapshot, ReturnUnread, RejectBinding, RejectUnread,
       ProvisionShard, HoldBackend, MutateNLB, ReportConverged, RefuseForeign,
       SweepGet, SweepRemove, poolVars
  <2> QED BY Zenon, <1>4, <2>1, <2>2, <2>3, <2>4 DEF Reconcile
<1>5. ASSUME NEW k \in Shards, WorkSucceeds(k) \/ WorkFails(k) PROVE Goal
  BY Zenon, <1>2, <1>5 DEF WorkSucceeds, WorkFails
<1>6. ASSUME \/ \E k \in Shards : ForeignSet(k)
             \/ \E r \in Replicas : Abort(r) \/ ChangeLeader(r)
             \/ \E u \in Bindings : \/ CreateBinding(u) \/ DeleteBinding(u) \/ LetGo(u)
                                    \/ EditBinding(u) \/ StripFinalizer(u)
                                    \/ Resurrect(u)
             \/ DeletePool
             \/ \E s \in Services : ServiceEvent(s)
             \/ \E h \in Hosts : NodeEvent(h)
             \/ UNCHANGED vars
      PROVE  Goal
  BY Zenon, <1>1, <1>6 DEF ForeignSet, Abort, ChangeLeader, CreateBinding,
     DeleteBinding, LetGo, EditBinding, StripFinalizer, Resurrect, DeletePool,
     ServiceEvent, NodeEvent, vars, poolVars
<1> QED BY Zenon, <1>4, <1>5, <1>6 DEF Next, Environment

(* A pass comes to its save with the copy that EnsureShard or Issue makes. *)
NewShard(q, k, w) ==
    /\ my'[q].p = [my[q].p EXCEPT !.shards[k] = w,
                                  !.pending = IF w = "id" THEN k ELSE NoWork]
    /\ IF w = "id" THEN my[q].p.shards[k] = "none" ELSE my[q].p.shards[k] # "ip"
    /\ pc[q] = "provision" \/ Unretired(my[q].a)
NewWork(q, k) == my'[q].p = [my[q].p EXCEPT !.pending = k] /\ DOMAIN my[q].a # {}
SaveFrom(q) == \/ \E k \in Shards, w \in {"id", "ip"} : NewShard(q, k, w)
               \/ \E k \in Shards : NewWork(q, k)

(* Every step, for every replica.                                          *)
LEMMA SaveArrives ==
    ASSUME TypeOK, [Next]_vars, NEW q \in Replicas, pc'[q] = "save"
    PROVE  \/ pc[q] = "save" /\ (my'[q] = my[q] \/ \E k \in Shards : WorkEnds(k))
           \/ pc[q] \notin {"idle", "save"} /\ SaveFrom(q)
<1> DEFINE Goal ==
       \/ pc[q] = "save" /\ (my'[q] = my[q] \/ \E k \in Shards : WorkEnds(k))
       \/ pc[q] \notin {"idle", "save"} /\ SaveFrom(q)
<1> SUFFICES Goal
  BY Zenon
<1>0. CtlOK /\ CopyOK(my[q]) /\ my[q].p \in Pools
  BY Zenon, TypeParts, CopyParts DEF CtlOK
<1>1. ASSUME UNCHANGED ctlVars PROVE Goal
  BY Zenon, <1>1 DEF ctlVars
<1>2. ASSUME NEW r \in Replicas, NEW m, NEW c,
             my' = [my EXCEPT ![r] = m], pc' = [pc EXCEPT ![r] = c], c # "save"
      PROVE  Goal
  BY Zenon, <1>0, <1>2 DEF CtlOK
<1>3. ASSUME NEW r \in Replicas, r # q, NEW m, NEW c,
             my' = [my EXCEPT ![r] = m], pc' = [pc EXCEPT ![r] = c]
      PROVE  Goal
  BY Zenon, <1>0, <1>3 DEF CtlOK
<1>4. ASSUME NEW k \in Shards, WorkEnds(k) PROVE Goal
  BY Zenon, <1>4 DEF WorkEnds
<1>5. ASSUME NEW k \in Shards, NEW w \in {"id", "ip"},
             my' = [my EXCEPT ![q].p.shards[k] = w,
                              ![q].p.pending = IF w = "id" THEN k ELSE NoWork],
             IF w = "id" THEN my[q].p.shards[k] = "none" ELSE my[q].p.shards[k] # "ip",
             pc[q] = "provision" \/ \E u \in DOMAIN my[q].a : ~my[q].a[u].tomb,
             pc[q] \notin {"idle", "save"}
      PROVE  Goal
  <2> DEFINE p == [my[q].p EXCEPT !.shards[k] = w,
                                  !.pending = IF w = "id" THEN k ELSE NoWork]
  <2>1. my' = [my EXCEPT ![q] = [my[q] EXCEPT !.p = p]]
    BY ZenonT(30), <1>0, <1>5 DEF CopyOK, Copies
  <2> HIDE DEF p
  <2>2. my'[q].p = p
    BY Zenon, <1>0, <2>1 DEF CtlOK, CopyOK, Copies
  <2> QED BY Zenon, <1>5, <2>2 DEF SaveFrom, NewShard, Unretired, p
<1>6. ASSUME NEW k \in Shards, DOMAIN my[q].a # {}, pc[q] \notin {"idle", "save"},
             my' = [my EXCEPT ![q].p = [my[q].p EXCEPT !.pending = k]]
      PROVE  Goal
  <2> DEFINE p == [my[q].p EXCEPT !.pending = k]
  <2> HIDE DEF p
  <2>1. my'[q].p = p
    BY Zenon, <1>0, <1>6 DEF CtlOK, CopyOK, Copies, p
  <2> QED BY Zenon, <1>6, <2>1 DEF SaveFrom, NewWork, p
<1> HIDE DEF Goal
<1>7. ASSUME NEW r \in Replicas, EndPass(r) PROVE Goal
  BY Zenon, <1>2, <1>7 DEF EndPass
<1>8. ASSUME NEW r \in Replicas, NEW u, NextBinding(r, u) PROVE Goal
  BY Zenon, <1>2, <1>8 DEF NextBinding
<1>9. ASSUME NEW r \in Replicas, NEW u, NEW c, bindingStatus(r, u, c) PROVE Goal
  BY Zenon, <1>7, <1>8, <1>9 DEF bindingStatus
<1>10. ASSUME NEW r \in Replicas, NEW k \in Shards, NEW next, next # "save",
              EnsureShard(r, k, next), pc[r] \notin {"idle", "save"},
              pc[r] = "provision" \/ \E u \in DOMAIN my[r].a : ~my[r].a[u].tomb
       PROVE  Goal
  <2>1. ASSUME NEW w \in {"id", "ip"},
               my' = [my EXCEPT ![r].p.shards[k] = w,
                                ![r].p.pending = IF w = "id" THEN k ELSE NoWork],
               pc' = [pc EXCEPT ![r] = "save"],
               IF w = "id" THEN my[r].p.shards[k] = "none"
               ELSE my[r].p.shards[k] # "ip"
        PROVE  Goal
    <3>1. CASE r = q
      BY Zenon, <1>5, <1>10, <2>1, <3>1
    <3>2. CASE r # q
      <4>1. my'[q] = my[q] /\ pc'[q] = pc[q]
        BY Zenon, <1>0, <2>1, <3>2 DEF CtlOK
      <4> QED BY Zenon, <4>1 DEF Goal
    <3> QED BY Zenon, <3>1, <3>2
  <2>2. CASE CreateNLB(r, k)
    BY Zenon, <2>1, <2>2 DEF CreateNLB
  <2>3. CASE DiscoverNLB(r, k, next)
    <3>1. CASE ~my[r].cs[k].seen /\ nlb[k] # "ACTIVE"
      BY Zenon, <1>7, <2>3, <3>1 DEF DiscoverNLB
    <3>2. CASE /\ ~(~my[r].cs[k].seen /\ nlb[k] # "ACTIVE")
               /\ my[r].p.shards[k] # "ip"
      BY Zenon, <2>1, <2>3, <3>2 DEF DiscoverNLB
    <3>3. CASE /\ ~(~my[r].cs[k].seen /\ nlb[k] # "ACTIVE")
               /\ my[r].p.shards[k] = "ip"
      BY Zenon, <1>2, <1>10, <2>3, <3>3 DEF DiscoverNLB
    <3> QED BY Zenon, <3>1, <3>2, <3>3
  <2> QED BY Zenon, <1>10, <2>2, <2>3 DEF EnsureShard
<1>11. ASSUME NEW r \in Replicas, NEW k \in Shards, NEW o,
              Issue(r, k, o, my[r].p), pc[r] \notin {"idle", "save"},
              DOMAIN my[r].a # {}
       PROVE  Goal
  <2>1. CASE nlb[k] # "ACTIVE"
    BY Zenon, <1>7, <1>11, <2>1 DEF Issue
  <2>2. CASE nlb[k] = "ACTIVE" /\ r = q
    BY Zenon, <1>6, <1>11, <2>2 DEF Issue
  <2>3. CASE nlb[k] = "ACTIVE" /\ r # q
    BY Zenon, <1>3, <1>11, <2>3 DEF Issue
  <2> QED BY Zenon, <2>1, <2>2, <2>3
<1>12. ASSUME NEW r \in Replicas, Reconcile(r) PROVE Goal
  <2>0. /\ \A u \in DOMAIN my[r].a : my[r].a[u].shard \in Shards
        /\ DOMAIN my[r].a \subseteq Bindings
    BY Zenon, <1>0, CopyParts DEF CtlOK, IsLedger, Lease
  <2>1. CASE AddPoolFinalizer(r) \/ FreezeSpec(r) \/ FinishWork(r)
    BY Zenon, <1>1, <2>1 DEF AddPoolFinalizer, FreezeSpec, FinishWork
  <2>2. CASE SavePending(r) \/ ReleasePool(r) \/ FinishPass(r)
    BY Zenon, <1>7, <2>2 DEF SavePending, ReleasePool, FinishPass, savePool
  <2>3. ASSUME NEW u \in Bindings,
               \/ ReleaseBinding(r, u) \/ AddBindingFinalizer(r, u)
               \/ ReturnUnread(r, u) \/ PinWorkers(r, u) \/ AllocateLease(r, u)
               \/ RetireLease(r, u) \/ RefuseForeign(r, u) \/ QuarantineOrphan(r, u)
        PROVE  Goal
    BY Zenon, <1>7, <2>3 DEF ReleaseBinding, AddBindingFinalizer, updateBinding,
       ReturnUnread, PinWorkers, AllocateLease, RetireLease, RefuseForeign,
       QuarantineOrphan, savePool
  <2>4. ASSUME NEW u \in Bindings,
               \/ SkipBinding(r, u) \/ RejectBinding(r, u) \/ RejectUnread(r, u)
               \/ HoldBackend(r, u) \/ ReportConverged(r, u)
        PROVE  Goal
    BY Zenon, <1>8, <1>9, <2>4 DEF SkipBinding, RejectBinding, RejectUnread,
       HoldBackend, ReportConverged
  <2>5. ASSUME NEW u \in Bindings, MutateNLB(r, u) PROVE Goal
    <3>1. pc[r] = "step" /\ u \in DOMAIN my[r].a
          /\ Issue(r, my[r].a[u].shard, NextStep(r, u), my[r].p)
      BY Zenon, <2>5 DEF MutateNLB, Stepping, Active, Leased
    <3> QED BY Zenon, <1>11, <2>0, <3>1
  <2>6. ASSUME NEW u \in Bindings, SweepRemove(r, u) PROVE Goal
    <3>1. pc[r] = "loop" /\ u \in DOMAIN my[r].a
      BY Zenon, <2>6 DEF SweepRemove, Sweeping, Swept, Orphans
    <3>2. EndPass(r) \/ Issue(r, my[r].a[u].shard, Removal(r, u), my[r].p)
      BY Zenon, <2>6 DEF SweepRemove
    <3> QED BY Zenon, <1>7, <1>11, <2>0, <3>1, <3>2
  <2>7. CASE Provision(r)
    BY Zenon, <1>10, <2>7, FirstShard DEF Provision
  <2>8. ASSUME NEW u \in Bindings, ProvisionShard(r, u) PROVE Goal
    <3>1. /\ pc[r] = "loop" /\ u \in DOMAIN my[r].a /\ ~my[r].a[u].tomb
          /\ EnsureShard(r, my[r].a[u].shard, "step")
      BY Zenon, <2>8 DEF ProvisionShard, Looping, Active, Leased
    <3> QED BY Zenon, <1>10, <2>0, <3>1
  <2>9. ASSUME NEW u \in Bindings, SweepGet(r, u) PROVE Goal
    <3>1. \/ EndPass(r)
          \/ pc' = pc /\ pc[r] = "loop" /\ \A x \in Replicas \ {r} : my'[x] = my[x]
      BY Zenon, <1>0, <2>9 DEF SweepGet, Sweeping, CtlOK
    <3> QED BY Zenon, <1>7, <3>1 DEF Goal
  <2>10. ASSUME NEW u \in Bindings, FailSnapshot(r, u) PROVE Goal
    <3>1. pc[r] = "loop" /\ pc' = pc /\ \A x \in Replicas \ {r} : my'[x] = my[x]
      BY Zenon, <1>0, <2>10 DEF FailSnapshot, Admitting, Looping, CtlOK
    <3> QED BY Zenon, <3>1 DEF Goal
  <2>11. CASE \/ StartPass(r) \/ ListBindings(r) \/ SnapshotNodes(r)
              \/ \E u \in Bindings : SnapshotEndpoints(r, u)
    <3>1. /\ \A x \in Replicas \ {r} : my'[x] = my[x] /\ pc'[x] = pc[x]
          /\ pc'[r] # "save"
      BY Zenon,
         <1>0, <2>11 DEF StartPass, ListBindings, SnapshotNodes, SnapshotEndpoints,
                         CtlOK
    <3> QED BY Zenon, <3>1 DEF Goal
  <2> QED BY Zenon,
      <1>12, <2>1, <2>2, <2>3, <2>4, <2>5, <2>6, <2>7, <2>8, <2>9, <2>10, <2>11
          DEF Reconcile
<1>13. ASSUME NEW k \in Shards, WorkSucceeds(k) \/ WorkFails(k) PROVE Goal
  BY Zenon, <1>4, <1>13 DEF WorkSucceeds, WorkFails
<1>14. ASSUME NEW r \in Replicas, Abort(r) PROVE Goal
  BY Zenon, <1>7, <1>14 DEF Abort
<1>15. ASSUME \/ \E k \in Shards : ForeignSet(k)
              \/ \E r \in Replicas : ChangeLeader(r)
              \/ \E u \in Bindings : \/ CreateBinding(u) \/ DeleteBinding(u) \/ LetGo(u)
                                     \/ EditBinding(u) \/ StripFinalizer(u)
                                     \/ Resurrect(u)
              \/ DeletePool
              \/ \E s \in Services : ServiceEvent(s)
              \/ \E h \in Hosts : NodeEvent(h)
              \/ UNCHANGED vars
       PROVE  Goal
  BY Zenon, <1>1, <1>15 DEF ForeignSet, ChangeLeader, CreateBinding, DeleteBinding,
     LetGo, EditBinding, StripFinalizer, Resurrect, DeletePool, ServiceEvent,
     NodeEvent, vars
<1> QED BY Zenon, <1>12, <1>13, <1>14, <1>15 DEF Next, Environment

(* An explicit-port pool has one shard (ValidatePool).                     *)
LEMMA OneShard == Explicit => Shards = {0}
BY PoolValid DEF ValidatePool, Shards

(* A pass that provisions an empty pool found it live.                     *)
LEMMA ProvisioningStep ==
    ASSUME TypeOK, Provisioning, [Next]_vars
    PROVE  Provisioning'
<1> SUFFICES ASSUME NEW q \in Replicas, pc'[q] = "provision"
             PROVE  my'[q].p.st = "live"
  BY Zenon DEF Provisioning
<1> QED BY StepView DEF ViewShape, Ends, Starts, Lists, Goes, KeepsPool, Provisioning

(* A step preserves what the copy of a pass is.                            *)
LEMMA StandsStep ==
    ASSUME Explicit, TypeOK, CopyStands, Provisioning, [Next]_vars
    PROVE  CopyStands'
<1> SUFFICES ASSUME NEW q \in Replicas, pc'[q] # "idle", q \notin stale'
             PROVE  /\ pool'.pending = NoWork
                    /\ IF pc'[q] = "save" THEN SaveReady(q)' ELSE my'[q].p = pool'
  BY Zenon DEF CopyStands
<1>0. Shards = {0} /\ CtlOK /\ pool \in Pools
  BY Zenon, OneShard, TypeParts DEF PoolOK
<1>1. CASE Starts(q)
  BY Zenon, <1>1 DEF Starts
<1>2. CASE Lists(q) \/ Goes(q)
  <2>1. /\ pc[q] # "idle" /\ my'[q].a = my[q].a
        /\ pc'[q] # "save" => pc[q] # "save" /\ my'[q].p = my[q].p
    BY Zenon, <1>2 DEF Lists, Goes, KeepsPool
  <2>2. q \notin stale
    BY Zenon, <2>1, StepPool DEF StartPass, Due
  <2>3. /\ pool.pending = NoWork
        /\ IF pc[q] = "save" THEN SaveReady(q) ELSE my[q].p = pool
    BY Zenon, <2>1, <2>2 DEF CopyStands
  <2>4. pool' = pool
    <3>1. ASSUME NEW k \in Shards, WorkEnds(k) PROVE pool' = pool
      BY <1>0, <2>3, <3>1 DEF WorkEnds, NoWork
    <3> QED BY Zenon, <3>1, StepWrites
  <2>5. CASE pc'[q] # "save"
    BY Zenon, <2>1, <2>3, <2>4, <2>5
  <2>6. CASE pc'[q] = "save"
    <3>1. CASE pc[q] = "save" /\ my'[q] = my[q]
      BY <2>3, <2>4, <2>6, <3>1 DEF SaveReady
    <3>2. ASSUME pc[q] = "save", NEW k \in Shards, WorkEnds(k) PROVE SaveReady(q)'
      <4>1. my[q].p \in Pools /\ CopyOK(my[q])
        BY Zenon, <1>0, CopyParts DEF CtlOK
      <4> DEFINE p == IF my[q].p.pending = k
                      THEN [my[q].p EXCEPT !.pending = WorkDone] ELSE my[q].p
      <4>2. my'[q] = [my[q] EXCEPT !.p = p]
        BY Zenon, <3>2 DEF WorkEnds
      <4>3. my'[q].p = p
        BY Zenon, <4>1, <4>2 DEF CopyOK, Copies
      <4>4. /\ p.st = my[q].p.st /\ p.fin = my[q].p.fin
            /\ p.shards = my[q].p.shards
            /\ p.pending = NoWork <=> my[q].p.pending = NoWork
        BY <1>0, <4>1 DEF Pools, NoWork, WorkDone
      <4> HIDE DEF p
      <4> QED BY Zenon, <2>1, <2>3, <2>4, <3>2, <4>3, <4>4 DEF SaveReady
    <3>3. CASE pc[q] \notin {"idle", "save"} /\ SaveFrom(q)
      <4>1. my[q].p = pool
        BY Zenon, <2>3, <3>3
      <4>2. pc[q] = "provision" => pool.st = "live"
        BY Zenon, <4>1 DEF Provisioning
      <4>3. ASSUME NEW w \in {"id", "ip"},
                   my'[q].p = [pool EXCEPT !.shards[0] = w,
                                           !.pending = IF w = "id" THEN 0 ELSE NoWork],
                   IF w = "id" THEN pool.shards[0] = "none" ELSE pool.shards[0] # "ip",
                   pool.st = "live" \/ Unretired(my[q].a)
            PROVE  SaveReady(q)'
        <5>1. /\ my'[q].p.st = pool.st /\ my'[q].p.fin = pool.fin
              /\ my'[q].p.shards[0] = w
              /\ my'[q].p.pending = IF w = "id" THEN 0 ELSE NoWork
          BY Zenon, <1>0, <4>3 DEF Pools
        <5> QED BY <2>1, <2>4, <4>3, <5>1 DEF SaveReady, NoWork
      <4>4. ASSUME my'[q].p = [pool EXCEPT !.pending = 0], DOMAIN my[q].a # {}
            PROVE  SaveReady(q)'
        BY <1>0, <2>1, <2>4, <4>4 DEF SaveReady, NoWork, Pools
      <4>5. ASSUME NEW k \in Shards, NEW w \in {"id", "ip"}, NewShard(q, k, w)
            PROVE  SaveReady(q)'
        <5>1. k = 0
          BY Zenon, <1>0
        <5> QED BY Zenon, <4>1, <4>2, <4>3, <4>5, <5>1 DEF NewShard
      <4>6. ASSUME NEW k \in Shards, NewWork(q, k) PROVE SaveReady(q)'
        <5>1. k = 0
          BY Zenon, <1>0
        <5> QED BY Zenon, <4>1, <4>4, <4>6, <5>1 DEF NewWork
      <4> QED BY Zenon, <2>3, <2>4, <2>6, <3>3, <4>5, <4>6 DEF SaveFrom
    <3> QED BY Zenon, <2>3, <2>4, <2>6, <3>1, <3>2, <3>3, SaveArrives
  <2> QED BY Zenon, <2>5, <2>6
<1> QED BY Zenon, <1>1, <1>2, StepView DEF ViewShape, Ends

(* What a step does to the generation and to the finalizer of a binding.   *)
LEMMA StepFinalizer ==
    ASSUME TypeOK, TodoListed, FinExists, "strip" \notin plan.kinds, [Next]_vars,
           NEW v \in Bindings
    PROVE  /\ bind[v].gen <= bind'[v].gen
           /\ bind'[v].fin =>
                 /\ Exists(bind'[v])
                 /\ bind[v].fin \/ \E r \in Replicas : AddBindingFinalizer(r, v)
<1> DEFINE Goal == /\ bind[v].gen <= bind'[v].gen
                   /\ bind'[v].fin =>
                         /\ Exists(bind'[v])
                         /\ \/ bind[v].fin
                            \/ \E r \in Replicas : AddBindingFinalizer(r, v)
<1> SUFFICES Goal
  BY Zenon
<1>0. bind \in BindingLists /\ bind[v] \in
         [st : {"unborn", "live", "deleting", "gone"}, fin : BOOLEAN, gen : Nat,
          cond : {"none", "True", "False"}, og : Nat]
  BY Zenon DEF TypeOK, BindingLists
<1>1. CASE bind'[v] = bind[v]
  BY <1>0, <1>1 DEF FinExists
<1>2. ASSUME NEW b, BindMove(v, b), bind'[v] = b PROVE Goal
  <2>1. CASE Finalizes(v, b)
    <3>1. PICK r \in Replicas : AddBindingFinalizer(r, v) /\ bind[v] = my[r].bs[v]
      BY Zenon, <2>1 DEF Finalizes
    <3>2. v \in my[r].todo
      BY Zenon, <3>1 DEF AddBindingFinalizer, Looping, IsCurrent
    <3>3. Exists(bind[v])
      BY Zenon, <3>1, <3>2 DEF TodoListed
    <3>4. b.gen = bind[v].gen /\ b.st = bind[v].st
      BY Zenon, <1>0, <2>1 DEF Finalizes
    <3> QED BY <1>0, <1>2, <3>1, <3>3, <3>4 DEF Exists
  <2>2. CASE Releases(v, b)
    BY <1>0, <1>2, <2>2 DEF Releases, WithoutFinalizer
  <2>3. CASE Reports(v, b)
    <3>1. b.gen = bind[v].gen /\ b.st = bind[v].st /\ b.fin = bind[v].fin
      BY Zenon, <1>0, <2>3 DEF Reports, WithStatus
    <3> QED BY <1>0, <1>2, <3>1 DEF FinExists, Exists
  <2>4. CASE Created(v, b) \/ Deleted(v, b) \/ Freed(v, b) \/ Edited(v, b)
    BY <1>0, <1>2, <2>4
       DEF Created, Deleted, Freed, Edited, WithState, FinExists, Exists
  <2> QED BY Zenon, <1>2, <2>1, <2>2, <2>3, <2>4 DEF BindMove, Stripped
<1>3. CASE bind' = bind
  BY Zenon, <1>1, <1>3
<1>4. ASSUME NEW u \in Bindings, NEW b, BindMove(u, b), bind' = [bind EXCEPT ![u] = b]
      PROVE  Goal
  <2>1. IF u = v THEN bind'[v] = b ELSE bind'[v] = bind[v]
    BY Zenon, <1>0, <1>4 DEF BindingLists
  <2> HIDE DEF Goal
  <2> QED BY Zenon, <1>1, <1>2, <1>4, <2>1
<1> HIDE DEF Goal
<1> QED BY Zenon, <1>3, <1>4, StepMoves DEF BindMoves

(* The invariant of the refinement.                                        *)
RefInv == /\ LeaderInv /\ plan.kinds \cap {"leader", "strip"} = {}
          /\ CopyStands /\ Provisioning /\ GensOlder /\ FinExists /\ FinListed

(* A step preserves it.                                                    *)
LEMMA RefInvStep ==
    ASSUME Explicit, RefInv, [Next]_vars
    PROVE  RefInv'
<1>0. /\ TypeOK /\ IdleBlank /\ TodoListed /\ CopyIsPool /\ LeaderInv
      /\ CopyStands /\ Provisioning /\ GensOlder /\ FinExists /\ FinListed
      /\ TypeOK' /\ "strip" \notin plan.kinds
  BY Zenon, TypeStep DEF RefInv, LeaderInv, ServedInv, Led, Sole
<1>1. LeaderInv' /\ plan'.kinds = plan.kinds /\ CopyStands' /\ Provisioning'
  BY Zenon, <1>0, LeaderStep, StepPlan, StandsStep, ProvisioningStep
<1>2. \A v \in Bindings :
         /\ bind[v].gen <= bind'[v].gen
         /\ bind'[v].fin =>
               /\ Exists(bind'[v])
               /\ bind[v].fin \/ \E r \in Replicas : AddBindingFinalizer(r, v)
  BY Zenon, <1>0, StepFinalizer
<1>3. FinExists'
  BY Zenon, <1>2 DEF FinExists, Exists
<1>4. ASSUME NEW q \in Replicas, NEW v \in Bindings
      PROVE  my'[q].bs[v].gen <= bind'[v].gen
  <2>0. bind[v].gen \in Nat /\ bind'[v].gen \in Nat /\ my[q].bs[v].gen \in Nat
    BY <1>0 DEF TypeOK, BindingLists, Copies
  <2>1. CASE Ends(q)
    BY <2>0, <2>1 DEF Ends, Blank, Unborn
  <2>2. CASE Lists(q)
    BY Zenon, <1>2, <2>0, <2>2 DEF Lists
  <2>3. CASE Starts(q) \/ Goes(q)
    <3>1. my'[q].bs = my[q].bs
      BY Zenon, <2>3 DEF Starts, Goes
    <3> QED BY <1>0, <1>2, <2>0, <3>1 DEF GensOlder
  <2> QED BY Zenon, <1>0, <2>1, <2>2, <2>3, StepView DEF ViewShape
<1>5. ASSUME NEW q \in Replicas, Looped(pc'[q]), NEW v \in Bindings, bind'[v].fin
      PROVE  Exists(my'[q].bs[v])
  <2>1. CASE Lists(q)
    BY Zenon, <1>0, <1>5, <2>1 DEF Lists, FinExists
  <2>2. CASE Goes(q)
    <3>1. my'[q].bs = my[q].bs /\ Looped(pc[q])
      BY Zenon, <1>5, <2>2 DEF Goes
    <3>2. ASSUME NEW r \in Replicas, AddBindingFinalizer(r, v) PROVE FALSE
      <4>1. pc[r] # "idle" /\ EndPass(r)
        BY Zenon, <3>2 DEF AddBindingFinalizer, Looping, updateBinding
      <4>2. r = q
        BY Zenon, <1>0, <3>1, <4>1 DEF CopyIsPool, Mirrors, Looped
      <4>3. pc'[q] = "idle"
        BY Zenon, <1>0, <4>1, <4>2 DEF EndPass, TypeOK
      <4> QED BY Zenon, <1>5, <4>3 DEF Looped
    <3> QED BY Zenon, <1>0, <1>2, <1>5, <3>1, <3>2 DEF FinListed
  <2> QED BY Zenon,
      <1>0, <1>5, <2>1, <2>2, StepView DEF ViewShape, Ends, Starts, Looped
<1>6. GensOlder' /\ FinListed'
  BY Zenon, <1>4, <1>5 DEF GensOlder, FinListed
<1> QED BY Zenon, <1>0, <1>1, <1>3, <1>6 DEF RefInv

(* It holds at the start.                                                  *)
LEMMA RefInvInit ==
    ASSUME \A p \in Plans : p.kinds \cap {"leader", "strip"} = {}, Init
    PROVE  RefInv
<1>1. CopyStands /\ Provisioning /\ FinListed
  BY Zenon DEF Init, CopyStands, Provisioning, FinListed, Looped
<1>2. GensOlder /\ FinExists
  BY DEF Init, GensOlder, FinExists, Unborn, Blank
<1>3. plan \in Plans
  BY Zenon DEF Init
<1> QED BY Zenon, <1>1, <1>2, <1>3, LeaderInit DEF RefInv

-----------------------------------------------------------------------------
(* Every step is a step of the contract.                                   *)

Refined == Contract!Next \/ UNCHANGED <<ContractPool, ContractLedger, ContractBindings>>

(* What the invariant says of a pass under way.                            *)
LEMMA PassKnows ==
    ASSUME Explicit, RefInv, NEW r \in Replicas, pc[r] # "idle"
    PROVE  /\ Mirrors(r) /\ pool.st \in {"live", "deleting"}
           /\ r \notin stale /\ pc[r] # "save" => my[r].p = pool
           /\ r \notin stale => pool.pending = NoWork
BY Zenon
   DEF RefInv, LeaderInv, ServedInv, Led, Sole, CopyIsPool, PoolEnd, CopyStands,
       TypeOK, Pools

(* A binding as the contract sees it.                                      *)
LEMMA ContractFields ==
    ASSUME NEW u \in Bindings, bind \in BindingLists
    PROVE  LET c == ContractBindings[u] IN
           /\ c = Contracted(u, bind[u])
           /\ c.st = bind[u].st /\ c.fin = bind[u].fin /\ c.gen = bind[u].gen
           /\ c.spec = Target(u)
BY Zenon DEF ContractBindings, Contracted

(* What the contract sees of three of these writes.                        *)
SeenState(u, st) == [ContractBindings EXCEPT ![u].st = st]
SeenRelease(u, st) == [ContractBindings EXCEPT ![u].fin = FALSE, ![u].st = st]
SeenStatus(u, c, g) == [ContractBindings EXCEPT ![u].cond = c, ![u].og = g]

(* A write of a binding is the same write of what the contract sees.       *)
LEMMA ContractWrites ==
    ASSUME NEW u \in Bindings, NEW b, bind \in BindingLists,
           bind' = [bind EXCEPT ![u] = b]
    PROVE  /\ \A st : b = WithState(bind[u], st) =>
                 ContractBindings' = SeenState(u, st)
           /\ b = [bind[u] EXCEPT !.st = "live"] =>
                 ContractBindings' = [ContractBindings EXCEPT ![u].st = "live",
                                                              ![u].spec = Target(u)]
           /\ b = [bind[u] EXCEPT !.fin = TRUE] =>
                 ContractBindings' = [ContractBindings EXCEPT ![u].fin = TRUE]
           /\ \A st : b = WithoutFinalizer(bind[u], st) =>
                 ContractBindings' = SeenRelease(u, st)
           /\ \A c, g : b = WithStatus(bind[u], c, g) =>
                 ContractBindings' = SeenStatus(u, c, g)
           /\ b = [bind[u] EXCEPT !.gen = @ + 1] =>
                 ContractBindings' = [ContractBindings EXCEPT ![u].gen = @ + 1]
<1>1. PICK a : a = bind[u]
  BY Zenon
<1>2. PICK t : t = Target(u)
  BY Zenon
<1>3. PICK c : c = [st |-> a.st, fin |-> a.fin, gen |-> a.gen, cond |-> a.cond,
                    og |-> a.og, spec |-> t]
  BY Zenon
<1>4. PICK f : f = ContractBindings
  BY Zenon
<1>5. u \in DOMAIN f /\ f[u] = c
  BY Zenon, <1>1, <1>2, <1>3, <1>4 DEF ContractBindings, Contracted
<1>6. ContractBindings' = [f EXCEPT ![u] = Contracted(u, b)]
  <2>1. ContractBindings' = [v \in Bindings |-> Contracted(v, bind'[v])]
    BY Zenon DEF ContractBindings, Contracted
  <2>2. \A v \in Bindings : bind'[v] = IF v = u THEN b ELSE bind[v]
    BY Zenon DEF BindingLists
  <2>3. f = [v \in Bindings |-> Contracted(v, bind[v])]
    BY Zenon, <1>4 DEF ContractBindings
  <2>4. [f EXCEPT ![u] = Contracted(u, b)]
          = [v \in Bindings |-> IF v = u THEN Contracted(u, b) ELSE f[v]]
    BY Zenon, <2>3
  <2>5. \A v \in Bindings : Contracted(v, bind'[v])
                              = IF v = u THEN Contracted(u, b) ELSE f[v]
    <3>1. ASSUME NEW v \in Bindings
          PROVE  Contracted(v, bind'[v]) = IF v = u THEN Contracted(u, b) ELSE f[v]
      <4>1. CASE v = u
        BY SMT, <2>2, <4>1
      <4>2. CASE v # u
        BY SMT, <2>2, <2>3, <4>2
      <4> QED BY Zenon, <4>1, <4>2
    <3> QED BY Zenon, <3>1
  <2> QED BY Zenon, <2>1, <2>4, <2>5
<1>7. a \in [st : {"unborn", "live", "deleting", "gone"}, fin : BOOLEAN, gen : Nat,
             cond : {"none", "True", "False"}, og : Nat]
  BY Zenon, <1>1 DEF BindingLists
<1>8. ASSUME NEW st
      PROVE  b = [a EXCEPT !.st = st] =>
                ContractBindings' = [f EXCEPT ![u].st = st]
  <2>1. Contracted(u, [a EXCEPT !.st = st]) = [c EXCEPT !.st = st]
    BY <1>2, <1>3, <1>7 DEF Contracted
  <2>2. [f EXCEPT ![u] = [c EXCEPT !.st = st]] = [f EXCEPT ![u].st = st]
    BY Zenon, <1>5
  <2> QED BY Zenon, <1>6, <2>1, <2>2
<1>9. b = [a EXCEPT !.st = "live"] =>
         ContractBindings' = [f EXCEPT ![u].st = "live", ![u].spec = t]
  <2>1. PICK c1 : c1 = [c EXCEPT !.st = "live"]
    BY Zenon
  <2>2. c1 = [st |-> "live", fin |-> a.fin, gen |-> a.gen, cond |-> a.cond,
              og |-> a.og, spec |-> t]
    BY Zenon, <1>3, <2>1
  <2>3. Contracted(u, [a EXCEPT !.st = "live"]) = c1
    BY Zenon, <1>2, <1>7, <2>2 DEF Contracted
  <2>4. [c1 EXCEPT !.spec = t] = c1
    BY <2>2
  <2>5. [c EXCEPT !.st = "live", !.spec = t] = [c1 EXCEPT !.spec = t]
    BY Zenon, <2>1
  <2>6. [f EXCEPT ![u] = [c EXCEPT !.st = "live", !.spec = t]]
          = [f EXCEPT ![u].st = "live", ![u].spec = t]
    BY Zenon, <1>5
  <2> QED BY Zenon, <1>6, <2>3, <2>4, <2>5, <2>6
<1>10. ASSUME NEW x
       PROVE  b = [a EXCEPT !.fin = x] => ContractBindings' = [f EXCEPT ![u].fin = x]
  <2>1. Contracted(u, [a EXCEPT !.fin = x]) = [c EXCEPT !.fin = x]
    BY <1>2, <1>3, <1>7 DEF Contracted
  <2>2. [f EXCEPT ![u] = [c EXCEPT !.fin = x]] = [f EXCEPT ![u].fin = x]
    BY Zenon, <1>5
  <2> QED BY Zenon, <1>6, <2>1, <2>2
<1>11. ASSUME NEW st, NEW x
       PROVE  b = [a EXCEPT !.st = st, !.fin = x] =>
                 ContractBindings' = [f EXCEPT ![u].fin = x, ![u].st = st]
  <2>1. PICK d : d = [a EXCEPT !.st = st, !.fin = x]
    BY Zenon
  <2>2. /\ d.st = st /\ d.fin = x /\ d.gen = a.gen
        /\ d.cond = a.cond /\ d.og = a.og
    BY Zenon, <1>7, <2>1
  <2>3. PICK c1 : c1 = [c EXCEPT !.fin = x]
    BY Zenon
  <2>4. c1 = [st |-> a.st, fin |-> x, gen |-> a.gen, cond |-> a.cond,
              og |-> a.og, spec |-> t]
    BY Zenon, <1>3, <2>3
  <2>5. Contracted(u, d) = [c1 EXCEPT !.st = st]
    BY <1>2, <2>2, <2>4 DEF Contracted
  <2>6. [c EXCEPT !.fin = x, !.st = st] = [c1 EXCEPT !.st = st]
    BY Zenon, <2>3
  <2>7. [f EXCEPT ![u] = [c EXCEPT !.fin = x, !.st = st]]
          = [f EXCEPT ![u].fin = x, ![u].st = st]
    BY Zenon, <1>5
  <2> QED BY Zenon, <1>6, <2>1, <2>5, <2>6, <2>7
<1>12. ASSUME NEW x, NEW g
       PROVE  b = [a EXCEPT !.cond = x, !.og = g] =>
                 ContractBindings' = [f EXCEPT ![u].cond = x, ![u].og = g]
  <2>1. PICK d : d = [a EXCEPT !.cond = x, !.og = g]
    BY Zenon
  <2>2. /\ d.st = a.st /\ d.fin = a.fin /\ d.gen = a.gen
        /\ d.cond = x /\ d.og = g
    BY Zenon, <1>7, <2>1
  <2>3. PICK c1 : c1 = [c EXCEPT !.cond = x]
    BY Zenon
  <2>4. c1 = [st |-> a.st, fin |-> a.fin, gen |-> a.gen, cond |-> x,
              og |-> a.og, spec |-> t]
    BY Zenon, <1>3, <2>3
  <2>5. Contracted(u, d) = [c1 EXCEPT !.og = g]
    BY <1>2, <2>2, <2>4 DEF Contracted
  <2>6. [c EXCEPT !.cond = x, !.og = g] = [c1 EXCEPT !.og = g]
    BY Zenon, <2>3
  <2>7. [f EXCEPT ![u] = [c EXCEPT !.cond = x, !.og = g]]
          = [f EXCEPT ![u].cond = x, ![u].og = g]
    BY Zenon, <1>5
  <2> QED BY Zenon, <1>6, <2>1, <2>5, <2>6, <2>7
<1>13. b = [a EXCEPT !.gen = @ + 1] =>
          ContractBindings' = [f EXCEPT ![u].gen = @ + 1]
  <2>1. Contracted(u, [a EXCEPT !.gen = @ + 1]) = [c EXCEPT !.gen = @ + 1]
    BY <1>2, <1>3, <1>7 DEF Contracted
  <2>2. [f EXCEPT ![u] = [c EXCEPT !.gen = @ + 1]] = [f EXCEPT ![u].gen = @ + 1]
    BY Zenon, <1>5
  <2> QED BY Zenon, <1>6, <2>1, <2>2
<1>14. /\ b = [bind[u] EXCEPT !.st = "live"] =>
             ContractBindings' = [ContractBindings EXCEPT ![u].st = "live",
                                                          ![u].spec = Target(u)]
       /\ b = [bind[u] EXCEPT !.gen = @ + 1] =>
             ContractBindings' = [ContractBindings EXCEPT ![u].gen = @ + 1]
  BY Zenon, <1>1, <1>2, <1>4, <1>9, <1>13
<1>15. ASSUME b = [bind[u] EXCEPT !.fin = TRUE]
       PROVE  ContractBindings' = [ContractBindings EXCEPT ![u].fin = TRUE]
  BY Zenon, <1>1, <1>4, <1>10, <1>15
<1>16. ASSUME NEW st, b = WithState(bind[u], st)
       PROVE  ContractBindings' = SeenState(u, st)
  BY Zenon, <1>1, <1>4, <1>8, <1>16 DEF WithState, SeenState
<1>17. ASSUME NEW st, b = WithoutFinalizer(bind[u], st)
       PROVE  ContractBindings' = SeenRelease(u, st)
  <2>1. ContractBindings' = [f EXCEPT ![u].fin = FALSE, ![u].st = st]
    BY Zenon, <1>1, <1>11, <1>17 DEF WithoutFinalizer
  <2> QED BY Zenon, <1>4, <2>1 DEF SeenRelease
<1>18. ASSUME NEW x, NEW g, b = WithStatus(bind[u], x, g)
       PROVE  ContractBindings' = SeenStatus(u, x, g)
  <2>1. ContractBindings' = [f EXCEPT ![u].cond = x, ![u].og = g]
    BY Zenon, <1>1, <1>12, <1>18 DEF WithStatus
  <2> QED BY Zenon, <1>4, <2>1 DEF SeenStatus
<1> QED BY Zenon, <1>14, <1>15, <1>16, <1>17, <1>18

(* A finalizer added, a binding released.                                  *)
LEMMA HeldRefines ==
    ASSUME Explicit, RefInv, NEW u \in Bindings, NEW b,
           Finalizes(u, b) \/ Releases(u, b),
           bind' = [bind EXCEPT ![u] = b], pool' = pool, alloc' = alloc
    PROVE  Contract!Next
<1>0. /\ bind \in BindingLists /\ TodoListed
      /\ ContractPool' = ContractPool /\ ContractLedger' = ContractLedger
      /\ ContractPool.st = pool.st
  BY Zenon
     DEF RefInv, LeaderInv, ServedInv, TypeOK, ContractPool, ContractLedger
<1>1. ContractBindings[u].st = bind[u].st /\ ContractBindings[u].fin = bind[u].fin
  BY Zenon, <1>0, ContractFields
<1>2. CASE Finalizes(u, b)
  <2>1. PICK r \in Replicas : AddBindingFinalizer(r, u) /\ bind[u] = my[r].bs[u]
    BY Zenon, <1>2 DEF Finalizes
  <2>2. /\ pc[r] # "idle" /\ u \in my[r].todo
        /\ bind[u].st # "deleting" /\ ~bind[u].fin
    BY Zenon, <2>1 DEF AddBindingFinalizer, Looping, IsCurrent, Deleting
  <2>3. bind[u].st = "live" /\ pool.st \in {"live", "deleting"}
    BY Zenon, <1>0, <2>1, <2>2, PassKnows DEF TodoListed, Exists
  <2>4. ContractBindings' = [ContractBindings EXCEPT ![u].fin = TRUE]
    BY Zenon, <1>0, <1>2, ContractWrites DEF Finalizes
  <2>5. Contract!HoldBinding(u)
    BY Zenon, <1>0, <1>1, <2>2, <2>3, <2>4 DEF Contract!HoldBinding, Contract!Exists
  <2> QED BY Zenon, <2>5 DEF Contract!Next, Contract!Controller
<1>3. CASE Releases(u, b)
  <2>1. PICK r \in Replicas : ReleaseBinding(r, u) /\ bind[u] = my[r].bs[u]
    BY Zenon, <1>3 DEF Releases
  <2>2. /\ pc[r] # "idle" /\ ~Active(r, u)
        /\ bind[u].st = "deleting" /\ bind[u].fin
    BY Zenon, <2>1 DEF ReleaseBinding, Looping, Deleting
  <2>3. /\ pool.st \in {"live", "deleting"}
        /\ u \in DOMAIN alloc => alloc[u].tomb
    BY Zenon, <2>2, PassKnows DEF Mirrors, Active, Leased
  <2>4. PICK st \in {"deleting", "gone"} : b = WithoutFinalizer(bind[u], st)
    BY Zenon, <1>3 DEF Releases
  <2>5. ContractBindings' = SeenRelease(u, st)
    BY Zenon, <1>0, <2>4, ContractWrites
  <2>6. u \notin Contract!Active(ContractLedger)
    BY Zenon, <2>3 DEF Contract!Active, ContractLedger
  <2>7. Contract!ReleaseBinding(u)
    BY Zenon, <1>0, <1>1, <2>2, <2>3, <2>5, <2>6
       DEF Contract!ReleaseBinding, Contract!Exists, SeenRelease
  <2> QED BY Zenon, <2>7 DEF Contract!Next, Contract!Controller
<1> QED BY Zenon, <1>2, <1>3

(* A report.                                                               *)
LEMMA ReportRefines ==
    ASSUME Explicit, RefInv, NEW u \in Bindings, NEW b, Reports(u, b),
           bind' = [bind EXCEPT ![u] = b], pool' = pool, alloc' = alloc
    PROVE  Contract!Next
<1>0. /\ bind \in BindingLists
      /\ ContractPool' = ContractPool /\ ContractLedger' = ContractLedger
      /\ ContractPool.st = pool.st /\ ContractPool.shard = pool.shards[0]
  BY Zenon
     DEF RefInv, LeaderInv, ServedInv, TypeOK, ContractPool, ContractLedger
<1>1. PICK r \in Replicas, c \in {"True", "False"} :
         /\ b = WithStatus(bind[u], c, my[r].bs[u].gen)
         /\ pc[r] # "idle"
         /\ c = "True" => ReportConverged(r, u) /\ Wanted(r, u).why = "ok"
  BY Zenon DEF Reports
<1>2. PICK g : g = my[r].bs[u].gen
  BY Zenon
<1>3. g \in Nat /\ g <= bind[u].gen /\ bind[u].gen \in Nat
  BY Zenon,
     <1>2 DEF RefInv, GensOlder, LeaderInv, ServedInv, TypeOK, Copies, BindingLists
<1>4. Mirrors(r) /\ pool.st \in {"live", "deleting"} /\ Exists(bind[u])
  BY Zenon, <1>1, PassKnows DEF Reports
<1>5. ASSUME c = "True"
      PROVE  u \in DOMAIN alloc /\ ~alloc[u].tomb /\ pool.shards[0] = "ip" /\ g % 2 = 0
  <2>1. /\ pc[r] = "step" /\ IsCurrent(r, u) /\ u \in DOMAIN alloc /\ ~alloc[u].tomb
        /\ ~Deleting(r, u) /\ my[r].a = alloc
    BY Zenon,
       <1>1, <1>4, <1>5 DEF ReportConverged, Stepping, Active, Leased, Mirrors
  <2>2. alloc[u].shard = 0 /\ 0 \in Shards
    BY Zenon,
       <2>1, OneShard DEF RefInv, LeaderInv, ServedInv, TypeOK, IsLedger, Lease
  <2>3. my[r].p.shards[0] = "ip"
    BY Zenon, <2>1, <2>2 DEF RefInv, LeaderInv, StepReady
  <2>4. pool.shards[0] = "ip"
    BY Zenon, <1>4, <2>1, <2>2, <2>3 DEF Mirrors
  <2>5. Desired(my[r], u).why = "ok"
    BY Zenon, <1>1, <1>5 DEF Wanted
  <2>6. ~Suspended(my[r].bs[u])
    BY Zenon, <2>5 DEF Desired
  <2>7. g % 2 # 1
    BY Zenon, <1>2, <2>6 DEF Suspended
  <2> QED BY <1>3, <2>1, <2>4, <2>7
<1>6. ContractBindings' = SeenStatus(u, c, g)
  <2>1. b = WithStatus(bind[u], c, g)
    BY Zenon, <1>1, <1>2
  <2>2. \A x, y : b = WithStatus(bind[u], x, y) =>
          ContractBindings' = SeenStatus(u, x, y)
    BY Zenon, <1>0, ContractWrites
  <2> QED BY Zenon, <2>1, <2>2
<1>7. c = "True" => u \in Contract!Active(ContractLedger)
  BY Zenon, <1>5 DEF Contract!Active, ContractLedger
<1>8. ContractBindings[u].st = bind[u].st /\ ContractBindings[u].gen = bind[u].gen
  BY Zenon, <1>0, ContractFields
<1>9. Contract!Report(u, c, g)
  BY Zenon, <1>0, <1>3, <1>4, <1>5, <1>6, <1>7, <1>8
     DEF Contract!Report, Contract!Exists, Exists, SeenStatus
<1>10. g \in 0 .. ContractBindings[u].gen
  BY <1>3, <1>8
<1> QED BY Zenon, <1>9, <1>10 DEF Contract!Next, Contract!Controller

(* What users do to a binding.                                             *)
LEMMA UserRefines ==
    ASSUME Explicit, RefInv, NEW u \in Bindings, NEW b,
           Created(u, b) \/ Deleted(u, b) \/ Freed(u, b) \/ Edited(u, b),
           bind' = [bind EXCEPT ![u] = b], pool' = pool, alloc' = alloc
    PROVE  Contract!Next
<1>0. /\ bind \in BindingLists
      /\ ContractPool' = ContractPool /\ ContractLedger' = ContractLedger
  BY Zenon
     DEF RefInv, LeaderInv, ServedInv, TypeOK, ContractPool, ContractLedger
<1>1. ContractBindings[u].st = bind[u].st /\ ContractBindings[u].fin = bind[u].fin
  BY Zenon, <1>0, ContractFields
<1>2. CASE Created(u, b)
  <2>1. ContractBindings' = [ContractBindings EXCEPT ![u].st = "live",
                                                     ![u].spec = Target(u)]
    BY Zenon, <1>0, <1>2, ContractWrites DEF Created
  <2>2. Contract!CreateBinding(u, Target(u))
    BY Zenon, <1>0, <1>1, <1>2, <2>1 DEF Created, Contract!CreateBinding
  <2> QED BY Zenon, <2>2 DEF Contract!Next, Contract!User
<1>3. CASE Deleted(u, b)
  <2>1. PICK st \in IF bind[u].fin THEN {"deleting"} ELSE {"deleting", "gone"} :
            b = WithState(bind[u], st)
    BY Zenon, <1>3 DEF Deleted
  <2>2. ContractBindings' = SeenState(u, st)
    BY Zenon, <1>0, <2>1, ContractWrites
  <2>3. Contract!DeleteBinding(u)
    BY Zenon, <1>0, <1>1, <1>3, <2>1, <2>2
       DEF Deleted, Contract!DeleteBinding, SeenState
  <2> QED BY Zenon, <2>3 DEF Contract!Next, Contract!User
<1>4. CASE Freed(u, b)
  <2>1. ContractBindings' = SeenState(u, "gone")
    BY Zenon, <1>0, <1>4, ContractWrites DEF Freed
  <2>2. Contract!LetGo(u)
    BY Zenon, <1>0, <1>1, <1>4, <2>1 DEF Freed, Contract!LetGo, SeenState
  <2> QED BY Zenon, <2>2 DEF Contract!Next, Contract!User
<1>5. CASE Edited(u, b)
  <2>1. ContractBindings' = [ContractBindings EXCEPT ![u].gen = @ + 1]
    BY Zenon, <1>0, <1>5, ContractWrites DEF Edited
  <2>2. Contract!EditBinding(u)
    BY Zenon, <1>0, <1>1, <1>5, <2>1 DEF Edited, Contract!EditBinding, Contract!Exists,
       Exists
  <2> QED BY Zenon, <2>2 DEF Contract!Next, Contract!User
<1> QED BY Zenon, <1>2, <1>3, <1>4, <1>5

(* The pool as the contract sees it, and what it sees of a write.          *)
SeenPool(s, f, q, w) == [st |-> s, fin |-> f, guard |-> FALSE, pending |-> q, shard |-> w]
PutFin(c, x) == [c EXCEPT !.fin = x]
PutWork(c, x) == [c EXCEPT !.pending = x]
PutState(c, x) == [c EXCEPT !.st = x]
PutShard(c, w, x) == [c EXCEPT !.shard = w, !.pending = x]

(* The writes, field by field.                                             *)
LEMMA FinPut ==
    ASSUME NEW s, NEW f, NEW q, NEW w, NEW x
    PROVE  PutFin(SeenPool(s, f, q, w), x) = SeenPool(s, x, q, w)
<1>1. PICK c : c = PutFin(SeenPool(s, f, q, w), x)
  BY Zenon
<1>2. c = SeenPool(s, x, q, w)
  BY Zenon, <1>1 DEF PutFin, SeenPool
<1> QED BY Zenon, <1>1, <1>2
LEMMA WorkPut ==
    ASSUME NEW s, NEW f, NEW q, NEW w, NEW x
    PROVE  PutWork(SeenPool(s, f, q, w), x) = SeenPool(s, f, x, w)
<1>1. PICK c : c = PutWork(SeenPool(s, f, q, w), x)
  BY Zenon
<1>2. c = SeenPool(s, f, x, w)
  BY Zenon, <1>1 DEF PutWork, SeenPool
<1> QED BY Zenon, <1>1, <1>2
LEMMA StatePut ==
    ASSUME NEW s, NEW f, NEW q, NEW w, NEW x
    PROVE  PutState(SeenPool(s, f, q, w), x) = SeenPool(x, f, q, w)
<1>1. PICK c : c = PutState(SeenPool(s, f, q, w), x)
  BY Zenon
<1>2. c = SeenPool(x, f, q, w)
  BY Zenon, <1>1 DEF PutState, SeenPool
<1> QED BY Zenon, <1>1, <1>2
LEMMA ShardPut ==
    ASSUME NEW s, NEW f, NEW q, NEW w, NEW x, NEW y
    PROVE  PutShard(SeenPool(s, f, q, w), x, y) = SeenPool(s, f, y, x)
<1>1. PICK c : c = [SeenPool(s, f, q, w) EXCEPT !.shard = x]
  BY Zenon
<1>2. c = SeenPool(s, f, q, x)
  BY Zenon, <1>1 DEF SeenPool
<1>3. PutShard(SeenPool(s, f, q, w), x, y) = [c EXCEPT !.pending = y]
  BY Zenon, <1>1 DEF PutShard
<1>4. PICK d : d = [c EXCEPT !.pending = y]
  BY Zenon
<1>5. d = SeenPool(s, f, y, x)
  BY Zenon, <1>2, <1>4 DEF SeenPool
<1> QED BY Zenon, <1>3, <1>4, <1>5

(* The pool and the next pool in these terms.                              *)
LEMMA PoolSeen ==
    /\ ContractPool = SeenPool(pool.st, pool.fin, pool.pending # NoWork, pool.shards[0])
    /\ ContractPool' = SeenPool(pool'.st, pool'.fin, pool'.pending # NoWork,
                                pool'.shards[0])
    /\ ContractPool.st = pool.st /\ ContractPool.fin = pool.fin
    /\ ContractPool.pending <=> pool.pending # NoWork
    /\ ContractPool.guard = FALSE /\ ContractPool.shard = pool.shards[0]
BY Zenon DEF ContractPool, SeenPool

(* Nothing that the contract sees.                                         *)
LEMMA Stutters ==
    ASSUME bind' = bind, alloc' = alloc, pool'.st = pool.st, pool'.fin = pool.fin,
           pool'.shards = pool.shards, pool'.pending = NoWork <=> pool.pending = NoWork
    PROVE  Refined
<1>1. ContractBindings' = ContractBindings /\ ContractLedger' = ContractLedger
  BY Zenon DEF ContractBindings, ContractLedger
<1>2. (pool'.pending # NoWork) = (pool.pending # NoWork)
  BY Zenon
<1>3. ContractPool' = ContractPool
  BY Zenon, <1>2, PoolSeen
<1> QED BY Zenon, <1>1, <1>3 DEF Refined

(* A step that writes a binding.                                           *)
LEMMA BindRefines ==
    ASSUME Explicit, RefInv, [Next]_vars, bind' # bind
    PROVE  Contract!Next
<1>1. TypeOK /\ "strip" \notin plan.kinds
  BY Zenon DEF RefInv, LeaderInv, ServedInv
<1>2. BindMoves
  BY Zenon, <1>1, StepMoves
<1>3. PICK u \in Bindings : \E b : BindMove(u, b) /\ bind' = [bind EXCEPT ![u] = b]
  BY Zenon, <1>2 DEF BindMoves
<1>4. PICK b : BindMove(u, b) /\ bind' = [bind EXCEPT ![u] = b]
  BY Zenon, <1>3
<1>5. pool' = pool /\ alloc' = alloc
  BY Zenon, <1>2 DEF BindMoves
<1>6. CASE Finalizes(u, b) \/ Releases(u, b)
  BY Zenon, <1>4, <1>5, <1>6, HeldRefines
<1>7. CASE Reports(u, b)
  BY Zenon, <1>4, <1>5, <1>7, ReportRefines
<1>8. CASE Created(u, b) \/ Deleted(u, b) \/ Freed(u, b) \/ Edited(u, b)
  BY Zenon, <1>4, <1>5, <1>8, UserRefines
<1> QED BY Zenon, <1>1, <1>4, <1>6, <1>7, <1>8 DEF BindMove, Stripped

(* The writes of the pool before a pass, and its deletion.                 *)
LEMMA EarlyRefines ==
    ASSUME RefInv, UNCHANGED <<alloc, bind>>,
           DeletePool \/ \E r \in Replicas : AddPoolFinalizer(r) \/ FinishWork(r)
    PROVE  Contract!Next
<1>0. /\ pool \in Pools /\ PoolEnd
      /\ ContractBindings' = ContractBindings /\ ContractLedger' = ContractLedger
  BY Zenon
     DEF RefInv, LeaderInv, ServedInv, TypeOK, Led, Sole, ContractBindings, ContractLedger
<1>w. PICK w : w = (pool.pending # NoWork)
  BY Zenon
<1>c. ContractPool = SeenPool(pool.st, pool.fin, w, pool.shards[0])
  BY Zenon, <1>w, PoolSeen
<1>1. CASE DeletePool
  <2>1. PICK s : s = IF pool.fin THEN "deleting" ELSE "gone"
    BY Zenon
  <2>2. /\ pool.st = "live" /\ pool'.st = s /\ pool'.fin = pool.fin
        /\ (pool'.pending # NoWork) = w
        /\ pool'.shards = pool.shards
    BY Zenon, <1>0, <1>w, <1>1, <2>1 DEF DeletePool, Pools
  <2>3. PICK c : c = PutState(ContractPool, "deleting")
    BY Zenon
  <2>4. c = SeenPool("deleting", pool.fin, w, pool.shards[0])
    BY <1>c, <2>3, StatePut
  <2>5. c.fin = pool.fin /\ c.guard = FALSE
    BY Zenon, <2>4 DEF SeenPool
  <2>6. ContractPool' = IF Contract!Held(c) THEN c ELSE PutState(c, "gone")
    <3>1. CASE pool.fin
      BY Zenon, <2>1, <2>2, <2>4, <2>5, <3>1, PoolSeen DEF Contract!Held
    <3>2. CASE ~pool.fin
      <4>1. PutState(c, "gone")
              = SeenPool("gone", pool.fin, w, pool.shards[0])
        BY <2>4, StatePut
      <4> QED BY Zenon, <2>1, <2>2, <2>5, <3>2, <4>1, PoolSeen DEF Contract!Held
    <3> QED BY Zenon, <3>1, <3>2
  <2>7. Contract!DeletePool
    BY Zenon, <1>0, <2>2, <2>3, <2>6, PoolSeen
       DEF Contract!DeletePool, Contract!Released, PutState
  <2> QED BY Zenon, <2>7 DEF Contract!Next, Contract!User
<1>2. ASSUME NEW r \in Replicas, AddPoolFinalizer(r) PROVE Contract!Next
  <2>1. /\ pool.st = "live" /\ ~pool.fin
        /\ pool'.st = pool.st /\ pool'.fin = TRUE
        /\ (pool'.pending # NoWork) = w
        /\ pool'.shards = pool.shards
    BY Zenon, <1>0, <1>w, <1>2 DEF AddPoolFinalizer, Pools
  <2>2. ContractPool' = PutFin(ContractPool, TRUE)
    <3>1. PICK t : t = TRUE
      BY Zenon
    <3>2. PutFin(ContractPool, t) = SeenPool(pool.st, t, w, pool.shards[0])
      BY <1>c, FinPut
    <3> QED BY Zenon, <2>1, <3>1, <3>2, PoolSeen
  <2>3. Contract!HoldPool
    BY Zenon, <1>0, <2>1, <2>2, PoolSeen DEF Contract!HoldPool, PutFin
  <2> QED BY Zenon, <2>3 DEF Contract!Next, Contract!Controller
<1>3. ASSUME NEW r \in Replicas, FinishWork(r) PROVE Contract!Next
  <2>1. /\ pool.st \in {"live", "deleting"} /\ pool.pending # NoWork
        /\ pool'.st = pool.st /\ pool'.fin = pool.fin
        /\ (pool'.pending # NoWork) = FALSE
        /\ pool'.shards = pool.shards
    BY <1>0, <1>3 DEF FinishWork, Due, Pools, NoWork, WorkDone
  <2>2. ContractPool' = PutWork(ContractPool, FALSE)
    <3>1. PICK t : t = FALSE
      BY Zenon
    <3>2. PutWork(ContractPool, t) = SeenPool(pool.st, pool.fin, t, pool.shards[0])
      BY ZenonT(30), <1>c, WorkPut
    <3> QED BY Zenon, <2>1, <3>1, <3>2, PoolSeen
  <2>3. Contract!EndWork
    BY Zenon, <1>0, <2>1, <2>2, PoolSeen DEF Contract!EndWork, Contract!Exists, PutWork
  <2> QED BY Zenon, <2>3 DEF Contract!Next, Contract!Controller
<1> QED BY Zenon, <1>1, <1>2, <1>3

(* The save of a pass that has asked OCI for something.                    *)
LEMMA SaveRefines ==
    ASSUME Explicit, RefInv, NEW r \in Replicas, SavePending(r), r \notin stale
    PROVE  Contract!Next
<1>1. pc[r] = "save" /\ pool' = my[r].p /\ alloc' = my[r].a /\ bind' = bind
  BY Zenon DEF SavePending, savePool
<1>2. /\ pool.st \in {"live", "deleting"} /\ pool.pending = NoWork
      /\ my[r].a = alloc /\ SaveReady(r)
  BY Zenon, <1>1, PassKnows DEF Mirrors, RefInv, CopyStands
<1>3. ContractBindings' = ContractBindings /\ ContractLedger' = ContractLedger
  BY Zenon, <1>1, <1>2 DEF ContractBindings, ContractLedger
<1>4. PICK t, e : t = TRUE /\ e = FALSE
  BY Zenon
<1>5. ContractPool = SeenPool(pool.st, pool.fin, e, pool.shards[0])
  <2>1. e = (pool.pending # NoWork)
    BY Zenon, <1>2, <1>4
  <2> QED BY Zenon, <2>1, PoolSeen
<1>6. pool'.st = pool.st /\ pool'.fin = pool.fin
  BY Zenon, <1>1, <1>2 DEF SaveReady
<1>7. ASSUME NEW x, NEW y, pool'.shards[0] = x, y = (pool'.pending # NoWork)
      PROVE  ContractPool' = PutShard(ContractPool, x, y)
  <2>1. ContractPool' = SeenPool(pool.st, pool.fin, y, x)
    BY Zenon, <1>6, <1>7, PoolSeen
  <2> QED BY <1>5, <2>1, ShardPut
<1>8. ASSUME pool.st = "live" \/ Unretired(alloc)
      PROVE  \/ pool.st = "live"
             \/ pool.st = "deleting" /\ Contract!Active(ContractLedger) # {}
  <2>1. CASE pool.st = "live"
    BY Zenon, <2>1
  <2>2. CASE Unretired(alloc)
    <3>1. PICK u \in DOMAIN alloc : ~alloc[u].tomb
      BY Zenon, <2>2 DEF Unretired
    <3>2. u \in Contract!Active(ContractLedger)
      BY Zenon, <3>1 DEF Contract!Active, ContractLedger
    <3> QED BY Zenon, <1>2, <3>2
  <2> QED BY Zenon, <1>8, <2>1, <2>2
<1>9. CASE pool'.shards[0] = "id" /\ pool.shards[0] = "none" /\ pool'.pending # NoWork
           /\ (pool.st = "live" \/ Unretired(alloc))
  <2>1. t = (pool'.pending # NoWork)
    BY Zenon, <1>4, <1>9
  <2>2. ContractPool' = PutShard(ContractPool, "id", t)
    BY Zenon, <1>7, <1>9, <2>1
  <2>3. Contract!Provision
    BY Zenon, <1>3, <1>4, <1>8, <1>9, <2>2, PoolSeen DEF Contract!Provision, PutShard
  <2> QED BY Zenon, <2>3 DEF Contract!Next, Contract!Controller
<1>10. CASE pool'.shards[0] = "ip" /\ pool.shards[0] # "ip" /\ pool'.pending = NoWork
            /\ (pool.st = "live" \/ Unretired(alloc))
  <2>1. e = (pool'.pending # NoWork)
    BY Zenon, <1>4, <1>10
  <2>2. ContractPool' = PutShard(ContractPool, "ip", e)
    BY Zenon, <1>7, <1>10, <2>1
  <2>3. Contract!Provision
    BY Zenon, <1>3, <1>4, <1>8, <1>10, <2>2, PoolSeen DEF Contract!Provision, PutShard
  <2> QED BY Zenon, <2>3 DEF Contract!Next, Contract!Controller
<1>11. CASE pool'.shards[0] = pool.shards[0] /\ pool'.pending # NoWork
            /\ DOMAIN alloc # {}
  <2>1. t = (pool'.pending # NoWork)
    BY Zenon, <1>4, <1>11
  <2>2. ContractPool' = SeenPool(pool.st, pool.fin, t, pool.shards[0])
    BY Zenon, <1>6, <1>11, <2>1, PoolSeen
  <2>3. ContractPool' = PutWork(ContractPool, t)
    BY <1>5, <2>2, WorkPut
  <2>4. ContractLedger # Contract!NoLeases
    <3>1. DOMAIN ContractLedger = DOMAIN alloc /\ DOMAIN Contract!NoLeases = {}
      BY Zenon DEF ContractLedger, Contract!NoLeases
    <3> QED BY Zenon, <1>11, <3>1
  <2>5. Contract!StartWork
    BY Zenon, <1>2, <1>3, <1>4, <2>3, <2>4, PoolSeen
       DEF Contract!StartWork, Contract!Exists, PutWork
  <2> QED BY Zenon, <2>5 DEF Contract!Next, Contract!Controller
<1> QED BY Zenon, <1>1, <1>2, <1>9, <1>10, <1>11 DEF SaveReady

(* The lease of a pass.                                                    *)
LEMMA LeaseRefines ==
    ASSUME Explicit, RefInv, NEW r \in Replicas, NEW u \in Bindings,
           AllocateLease(r, u), r \notin stale
    PROVE  Contract!Next
<1>1. /\ pc[r] = "loop" /\ u \in my[r].todo /\ u \notin DOMAIN my[r].a
      /\ my[r].bs[u].st # "deleting" /\ my[r].bs[u].fin /\ my[r].p.st = "live"
  BY Zenon DEF AllocateLease, Admitting, Looping, IsCurrent, Leased, Deleting
<1>2. /\ my[r].p = pool /\ my[r].a = alloc /\ pool.fin /\ pool.pending = NoWork
  BY Zenon, <1>1, PassKnows DEF Mirrors
<1>3. PICK s \in Candidates(u) :
         /\ Allocate(my[r].a, u, ServiceID(u), s)
         /\ savePool(r, my[r].p, WithLease(my[r].a, u,
                [svc |-> ServiceID(u), shard |-> s[1], port |-> s[2],
                 nodePort |-> IF Cluster(u) THEN svc[Service[u]].port ELSE 0,
                 tomb |-> FALSE]))
  BY Zenon DEF AllocateLease
<1>4. PICK l : l = [svc |-> ServiceID(u), shard |-> s[1], port |-> s[2],
                 nodePort |-> IF Cluster(u) THEN svc[Service[u]].port ELSE 0,
                 tomb |-> FALSE]
  BY Zenon
<1>5. pool' = pool /\ alloc' = WithLease(alloc, u, l) /\ bind' = bind
  BY Zenon, <1>2, <1>3, <1>4 DEF savePool, AllocateLease
<1>6. s = <<0, RequestedPort[u]>> /\ s \notin Occupied(alloc)
  BY Zenon, <1>2, <1>3 DEF Candidates, Allocate
<1>7. l.port = RequestedPort[u] /\ l.tomb = FALSE
  BY Zenon, <1>4, <1>6
<1>8. \A v \in DOMAIN alloc : alloc[v].port # RequestedPort[u]
  <2>1. \A v \in DOMAIN alloc : alloc[v].shard = 0
    BY Zenon,
       OneShard DEF RefInv, LeaderInv, ServedInv, TypeOK, IsLedger, Lease
  <2> QED BY Zenon, <1>6, <2>1 DEF Occupied
<1>9. Held(u) /\ bind \in BindingLists
  <2>1. my[r].bs[u].st = "live"
    BY Zenon, <1>1 DEF RefInv, LeaderInv, TodoListed, Exists
  <2> QED BY Zenon,
      <1>1, <2>1 DEF RefInv, LeaderInv, Led, Sole, Finalized, ServedInv, TypeOK
<1>10. /\ ContractBindings[u].st = bind[u].st /\ ContractBindings[u].fin = bind[u].fin
       /\ ContractBindings[u].spec.port = RequestedPort[u]
  <2>1. ContractBindings[u].spec = Target(u)
    BY Zenon, <1>9, ContractFields
  <2>2. Target(u).port = RequestedPort[u]
    BY Zenon DEF Target
  <2>3. ContractBindings[u].st = bind[u].st /\ ContractBindings[u].fin = bind[u].fin
    BY Zenon, <1>9, ContractFields
  <2> QED BY Zenon, <2>1, <2>2, <2>3
<1>11. /\ DOMAIN ContractLedger = DOMAIN alloc
       /\ \A v \in DOMAIN alloc :
             ContractLedger[v] = [port |-> alloc[v].port, tomb |-> alloc[v].tomb]
  BY Zenon DEF ContractLedger
<1>12. ContractLedger' =
          [v \in DOMAIN ContractLedger \cup {u} |->
             IF v = u THEN [port |-> ContractBindings[u].spec.port, tomb |-> FALSE]
             ELSE ContractLedger[v]]
  <2>1. ContractLedger' = [v \in DOMAIN alloc' |->
                             [port |-> alloc'[v].port, tomb |-> alloc'[v].tomb]]
    BY Zenon DEF ContractLedger
  <2>2. /\ DOMAIN alloc' = DOMAIN alloc \cup {u}
        /\ \A v \in DOMAIN alloc \cup {u} :
              alloc'[v] = IF v = u THEN l ELSE alloc[v]
    BY Zenon, <1>5 DEF WithLease
  <2>3. ASSUME NEW v \in DOMAIN alloc \cup {u}
        PROVE  [port |-> alloc'[v].port, tomb |-> alloc'[v].tomb]
                 = IF v = u THEN [port |-> ContractBindings[u].spec.port, tomb |-> FALSE]
                   ELSE ContractLedger[v]
    <3>1. CASE v = u
      BY Zenon, <1>7, <1>10, <2>2, <3>1
    <3>2. CASE v # u
      BY Zenon, <1>11, <2>2, <3>2
    <3> QED BY Zenon, <3>1, <3>2
  <2> QED BY Zenon, <1>11, <2>1, <2>2, <2>3
<1>13. ContractPool' = ContractPool /\ ContractBindings' = ContractBindings
  BY Zenon, <1>5 DEF ContractPool, ContractBindings
<1>14. \A v \in DOMAIN ContractLedger :
          ContractLedger[v].port # ContractBindings[u].spec.port
  BY <1>8, <1>10, <1>11
<1>15. Contract!Grant(u)
  BY Zenon, <1>1, <1>2, <1>9, <1>10, <1>11, <1>12, <1>13, <1>14, PoolSeen
     DEF Contract!Grant, Contract!Exists, Held, Exists
<1> QED BY Zenon, <1>15 DEF Contract!Next, Contract!Controller

(* The retirement of a lease.                                              *)
LEMMA TombRefines ==
    ASSUME Explicit, RefInv, NEW r \in Replicas, NEW u \in Bindings,
           RetireLease(r, u), r \notin stale
    PROVE  Contract!Next
<1>1. /\ pc[r] = "step" /\ u \in DOMAIN my[r].a /\ ~my[r].a[u].tomb
      /\ my[r].bs[u].st = "deleting"
      /\ pool' = my[r].p /\ alloc' = [my[r].a EXCEPT ![u].tomb = TRUE] /\ bind' = bind
  BY Zenon DEF RetireLease, Stepping, Active, Leased, Deleting, savePool
<1>2. /\ my[r].p = pool /\ my[r].a = alloc /\ pool.pending = NoWork
      /\ pool.st \in {"live", "deleting"}
  BY Zenon, <1>1, PassKnows DEF Mirrors
<1>3. bind[u].fin /\ bind[u].st = "deleting"
  <2>1. Held(u) /\ Gone(u)
    BY Zenon, <1>1, <1>2
       DEF RefInv, LeaderInv, Led, Sole, Finalized, ServedInv, ViewsTrue, ListedTruly
  <2> QED BY Zenon, <2>1 DEF Held, Gone, Exists
<1>4. bind \in BindingLists /\ IsLedger(alloc)
  BY Zenon DEF RefInv, LeaderInv, ServedInv, TypeOK
<1>5. ContractBindings[u].st = bind[u].st /\ ContractBindings[u].fin = bind[u].fin
  BY Zenon, <1>4, ContractFields
<1>6. PICK f : f = ContractLedger
  BY Zenon
<1>7. /\ f = [v \in DOMAIN alloc |-> [port |-> alloc[v].port, tomb |-> alloc[v].tomb]]
  BY Zenon, <1>6 DEF ContractLedger
<1>8. ContractLedger' = [f EXCEPT ![u].tomb = TRUE]
  <2>1. ContractLedger' = [v \in DOMAIN alloc' |->
                             [port |-> alloc'[v].port, tomb |-> alloc'[v].tomb]]
    BY Zenon DEF ContractLedger
  <2>2. /\ DOMAIN alloc' = DOMAIN alloc
        /\ \A v \in DOMAIN alloc : v # u => alloc'[v] = alloc[v]
        /\ alloc'[u].port = alloc[u].port /\ alloc'[u].tomb = TRUE
    BY Zenon, <1>1, <1>2, <1>4 DEF IsLedger, Lease
  <2>3. PICK c : c = [f[u] EXCEPT !.tomb = TRUE]
    BY Zenon
  <2>4. PICK a : a = f[u]
    BY Zenon
  <2>5. a = [port |-> alloc[u].port, tomb |-> alloc[u].tomb]
    BY Zenon, <1>1, <1>2, <1>7, <2>4
  <2>6. c = [port |-> alloc[u].port, tomb |-> TRUE]
    <3>1. PICK t : t = TRUE
      BY Zenon
    <3>2. c = [a EXCEPT !.tomb = t]
      BY Zenon, <2>3, <2>4, <3>1
    <3>3. c = [port |-> alloc[u].port, tomb |-> t]
      BY Zenon, <2>5, <3>2
    <3> QED BY Zenon, <3>1, <3>3
  <2>7. [f EXCEPT ![u].tomb = TRUE] = [v \in DOMAIN alloc |-> IF v = u THEN c ELSE f[v]]
    BY Zenon, <1>7, <2>3
  <2>8. ASSUME NEW v \in DOMAIN alloc
        PROVE  [port |-> alloc'[v].port, tomb |-> alloc'[v].tomb]
                 = IF v = u THEN c ELSE f[v]
    <3>1. CASE v = u
      BY Zenon, <2>2, <2>6, <3>1
    <3>2. CASE v # u
      BY Zenon, <1>7, <2>2, <3>2
    <3> QED BY Zenon, <3>1, <3>2
  <2> QED BY Zenon, <2>1, <2>2, <2>7, <2>8
<1>9. u \in Contract!Active(ContractLedger)
  BY Zenon, <1>1, <1>2 DEF Contract!Active, ContractLedger
<1>10. ContractPool' = ContractPool /\ ContractBindings' = ContractBindings
  BY Zenon, <1>1, <1>2 DEF ContractPool, ContractBindings
<1>11. Contract!Retire(u)
  BY Zenon, <1>2, <1>3, <1>5, <1>6, <1>8, <1>9, <1>10, PoolSeen
     DEF Contract!Retire, Contract!Exists
<1> QED BY Zenon, <1>11 DEF Contract!Next, Contract!Controller

(* While the finalizers hold, no active lease is without its binding.      *)
LEMMA NoOrphans ==
    ASSUME Explicit, RefInv, NEW r \in Replicas, Looped(pc[r])
    PROVE  Orphans(r) = {}
<1> SUFFICES ASSUME NEW u \in Orphans(r) PROVE FALSE
  BY Zenon
<1>1. u \in DOMAIN my[r].a /\ ~my[r].a[u].tomb /\ ~Exists(my[r].bs[u])
  BY Zenon DEF Orphans
<1>2. my[r].a = alloc /\ pc[r] # "idle"
  BY Zenon, PassKnows DEF Looped, Mirrors
<1>3. bind[u].fin
  BY Zenon, <1>1, <1>2 DEF RefInv, LeaderInv, Led, Sole, Finalized, Held
<1>4. u \in Bindings
  BY Zenon, <1>1, <1>2 DEF RefInv, LeaderInv, ServedInv, TypeOK, IsLedger
<1> QED BY Zenon, <1>1, <1>3, <1>4 DEF RefInv, FinListed

(* The end of the pool.                                                    *)
LEMMA EndRefines ==
    ASSUME Explicit, RefInv, NEW r \in Replicas, ReleasePool(r), r \notin stale
    PROVE  Contract!Next
<1>1. /\ pc[r] = "loop" /\ Orphans(r) = {} /\ my[r].p.st = "deleting"
      /\ \A u \in Bindings : ~Exists(my[r].bs[u])
      /\ alloc' = my[r].a /\ bind' = bind
      /\ pool' = [my[r].p EXCEPT !.fin = FALSE, !.st = "gone"]
  BY Zenon DEF ReleasePool, SweepDone, Sweeping, savePool
<1>2. /\ my[r].p = pool /\ my[r].a = alloc /\ pool.fin /\ pool.pending = NoWork
  BY Zenon, <1>1, PassKnows DEF Mirrors
<1>3. /\ pool'.st = "gone" /\ pool'.fin = FALSE /\ pool'.pending = NoWork
      /\ pool'.shards = pool.shards /\ pool.st = "deleting"
  <2>1. pool \in Pools
    BY Zenon DEF RefInv, LeaderInv, ServedInv, TypeOK
  <2> QED BY Zenon, <1>1, <1>2, <2>1 DEF Pools
<1>4. Contract!Active(ContractLedger) = {}
  <2>1. \A u \in DOMAIN alloc : alloc[u].tomb
    <3> SUFFICES ASSUME NEW u \in DOMAIN alloc, ~alloc[u].tomb PROVE FALSE
      BY Zenon
    <3>1. u \in Bindings
      BY Zenon DEF RefInv, LeaderInv, ServedInv, TypeOK, IsLedger
    <3> QED BY Zenon, <1>1, <1>2, <3>1 DEF Orphans
  <2> QED BY Zenon, <2>1 DEF Contract!Active, ContractLedger
<1>5. \A u \in Bindings : Contract!Exists(ContractBindings[u]) => ~ContractBindings[u].fin
  <2> SUFFICES ASSUME NEW u \in Bindings PROVE ~ContractBindings[u].fin
    BY Zenon
  <2>1. ~bind[u].fin /\ bind \in BindingLists
    BY Zenon, <1>1 DEF RefInv, FinListed, Looped, LeaderInv, ServedInv, TypeOK
  <2> QED BY Zenon, <2>1, ContractFields
<1>6. ContractBindings' = ContractBindings /\ ContractLedger' = ContractLedger
  BY Zenon, <1>1, <1>2 DEF ContractBindings, ContractLedger
<1>7. PICK e : e = FALSE
  BY Zenon
<1>8. ContractPool = SeenPool(pool.st, pool.fin, e, pool.shards[0])
  <2>1. e = (pool.pending # NoWork)
    BY Zenon, <1>2, <1>7
  <2> QED BY Zenon, <2>1, PoolSeen
<1>9. ContractPool' = SeenPool("gone", e, e, pool.shards[0])
  <2>1. e = (pool'.pending # NoWork)
    BY Zenon, <1>3, <1>7
  <2> QED BY Zenon, <1>3, <1>7, <2>1, PoolSeen
<1>10. PICK c : c = PutFin(ContractPool, e)
  BY Zenon
<1>11. c = SeenPool(pool.st, e, e, pool.shards[0])
  BY <1>8, <1>10, FinPut
<1>12. c.fin = e /\ c.guard = FALSE
  BY Zenon, <1>11 DEF SeenPool
<1>13. ContractPool' = PutState(c, "gone")
  BY <1>9, <1>11, StatePut
<1>14. ~Contract!Held(c)
  BY Zenon, <1>7, <1>12 DEF Contract!Held
<1>15. Contract!ReleasePool
  BY Zenon, <1>2, <1>3, <1>4, <1>5, <1>6, <1>7, <1>10, <1>13, <1>14, PoolSeen
     DEF Contract!ReleasePool, Contract!Released, PutFin, PutState
<1> QED BY Zenon, <1>15 DEF Contract!Next, Contract!Controller

(* A step that writes no binding.                                          *)
LEMMA PoolRefines ==
    ASSUME Explicit, RefInv, [Next]_vars, bind' = bind
    PROVE  Refined
<1>0. TypeOK /\ pool \in Pools /\ "leader" \notin plan.kinds
  BY Zenon DEF RefInv, LeaderInv, ServedInv, TypeOK
<1>1. ASSUME UNCHANGED <<pool, alloc>> PROVE Refined
  BY Zenon, <1>1, Stutters
<1>2. ASSUME Contract!Next PROVE Refined
  BY Zenon, <1>2 DEF Refined
<1>3. ASSUME NEW r \in Replicas, NEW p, NEW a, savePool(r, p, a), r \in stale
      PROVE  Refined
  BY Zenon, <1>1, <1>3 DEF savePool, poolVars
<1>4. ASSUME NEW k \in Shards, WorkEnds(k) PROVE Refined
  <2>1. /\ pool'.st = pool.st /\ pool'.fin = pool.fin /\ pool'.shards = pool.shards
        /\ pool'.pending = NoWork <=> pool.pending = NoWork
        /\ alloc' = alloc
    <3>1. pool' = (IF pool.pending = k THEN [pool EXCEPT !.pending = WorkDone] ELSE pool)
          /\ alloc' = alloc
      BY Zenon, <1>4 DEF WorkEnds
    <3>2. k # NoWork /\ WorkDone # NoWork
      BY DEF Shards, NoWork, WorkDone
    <3>3. CASE pool.pending = k
      BY Zenon, <1>0, <3>1, <3>2, <3>3 DEF Pools
    <3>4. CASE pool.pending # k
      BY Zenon, <3>1, <3>4
    <3> QED BY Zenon, <3>3, <3>4
  <2> QED BY Zenon, <2>1, Stutters
<1>5. ASSUME NEW r \in Replicas, Reconcile(r) PROVE Refined
  <2>1. CASE AddPoolFinalizer(r) \/ FinishWork(r)
    <3>1. UNCHANGED <<alloc, bind>>
      BY Zenon, <2>1 DEF AddPoolFinalizer, FinishWork
    <3> QED BY Zenon, <1>2, <2>1, <3>1, EarlyRefines
  <2>2. CASE FreezeSpec(r)
    <3>1. /\ pool'.st = pool.st /\ pool'.fin = pool.fin /\ pool'.shards = pool.shards
          /\ pool'.pending = pool.pending /\ alloc' = alloc
      BY Zenon, <1>0, <2>2 DEF FreezeSpec, Pools
    <3> QED BY Zenon, <3>1, Stutters
  <2>3. CASE SavePending(r)
    <3>1. CASE r \in stale
      BY Zenon, <1>3, <2>3, <3>1 DEF SavePending
    <3>2. CASE r \notin stale
      BY Zenon, <1>2, <2>3, <3>2, SaveRefines
    <3> QED BY Zenon, <3>1, <3>2
  <2>4. CASE ReleasePool(r)
    <3>1. CASE r \in stale
      BY Zenon, <1>3, <2>4, <3>1 DEF ReleasePool
    <3>2. CASE r \notin stale
      BY Zenon, <1>2, <2>4, <3>2, EndRefines
    <3> QED BY Zenon, <3>1, <3>2
  <2>5. ASSUME NEW u \in Bindings, PinWorkers(r, u) PROVE Refined
    <3>1. CASE r \in stale
      BY Zenon, <1>3, <2>5, <3>1 DEF PinWorkers
    <3>2. CASE r \notin stale
      <4>1. /\ pool' = [my[r].p EXCEPT !.workers = Workers(r)] /\ alloc' = my[r].a
            /\ pc[r] = "loop"
        BY Zenon, <2>5, <3>2 DEF PinWorkers, savePool, NeedsSnapshot, Admitting, Looping
      <4>2. my[r].p = pool /\ my[r].a = alloc
        BY Zenon, <3>2, <4>1, PassKnows DEF Mirrors
      <4>3. /\ pool'.st = pool.st /\ pool'.fin = pool.fin /\ pool'.shards = pool.shards
            /\ pool'.pending = pool.pending
        BY Zenon, <1>0, <4>1, <4>2 DEF Pools
      <4> QED BY Zenon, <4>1, <4>2, <4>3, Stutters
    <3> QED BY Zenon, <3>1, <3>2
  <2>6. ASSUME NEW u \in Bindings, AllocateLease(r, u) PROVE Refined
    <3>1. CASE r \in stale
      BY Zenon, <1>3, <2>6, <3>1 DEF AllocateLease
    <3>2. CASE r \notin stale
      BY Zenon, <1>2, <2>6, <3>2, LeaseRefines
    <3> QED BY Zenon, <3>1, <3>2
  <2>7. ASSUME NEW u \in Bindings, RetireLease(r, u) PROVE Refined
    <3>1. CASE r \in stale
      BY Zenon, <1>3, <2>7, <3>1 DEF RetireLease
    <3>2. CASE r \notin stale
      BY Zenon, <1>2, <2>7, <3>2, TombRefines
    <3> QED BY Zenon, <3>1, <3>2
  <2>8. ASSUME NEW u \in Bindings, QuarantineOrphan(r, u) PROVE Refined
    <3>1. pc[r] = "loop" /\ u \in Orphans(r)
      BY Zenon, <2>8 DEF QuarantineOrphan, Sweeping
    <3> QED BY Zenon, <3>1, NoOrphans DEF Looped
  <2>9. CASE \/ StartPass(r) \/ Provision(r) \/ ListBindings(r)
             \/ SnapshotNodes(r) \/ FinishPass(r)
    BY Zenon, <1>1, <2>9 DEF StartPass, Provision, ListBindings, SnapshotNodes,
       FinishPass, poolVars
  <2>10. ASSUME NEW v \in Bindings,
               \/ ReleaseBinding(r, v) \/ SkipBinding(r, v)
               \/ AddBindingFinalizer(r, v) \/ SnapshotEndpoints(r, v)
               \/ FailSnapshot(r, v) \/ ReturnUnread(r, v) \/ RejectBinding(r, v)
               \/ RejectUnread(r, v) \/ ProvisionShard(r, v) \/ HoldBackend(r, v)
               \/ MutateNLB(r, v) \/ ReportConverged(r, v) \/ RefuseForeign(r, v)
               \/ SweepGet(r, v) \/ SweepRemove(r, v)
         PROVE  Refined
    BY Zenon, <1>1, <2>10 DEF ReleaseBinding, SkipBinding, AddBindingFinalizer,
       SnapshotEndpoints, FailSnapshot, ReturnUnread, RejectBinding, RejectUnread,
       ProvisionShard, HoldBackend, MutateNLB, ReportConverged, RefuseForeign,
       SweepGet, SweepRemove, poolVars
  <2> QED BY Zenon, <1>5, <2>1, <2>2, <2>3, <2>4, <2>5, <2>6, <2>7, <2>8, <2>9, <2>10
             DEF Reconcile
<1>6. ASSUME NEW k \in Shards, WorkSucceeds(k) \/ WorkFails(k) PROVE Refined
  BY Zenon, <1>4, <1>6 DEF WorkSucceeds, WorkFails
<1>7. CASE DeletePool
  <2>1. UNCHANGED <<alloc, bind>>
    BY Zenon, <1>7 DEF DeletePool
  <2> QED BY Zenon, <1>2, <1>7, <2>1, EarlyRefines
<1>8. ASSUME \/ \E k \in Shards : ForeignSet(k)
             \/ \E r \in Replicas : Abort(r) \/ ChangeLeader(r)
             \/ \E u \in Bindings : \/ CreateBinding(u) \/ DeleteBinding(u) \/ LetGo(u)
                                    \/ EditBinding(u) \/ StripFinalizer(u)
                                    \/ Resurrect(u)
             \/ \E s \in Services : ServiceEvent(s)
             \/ \E h \in Hosts : NodeEvent(h)
             \/ UNCHANGED vars
      PROVE  Refined
  BY Zenon, <1>1, <1>8 DEF ForeignSet, Abort, ChangeLeader, CreateBinding,
     DeleteBinding, LetGo, EditBinding, StripFinalizer, Resurrect, ServiceEvent,
     NodeEvent, vars, poolVars
<1> QED BY Zenon, <1>5, <1>6, <1>7, <1>8 DEF Next, Environment

(* The beginning.                                                          *)
LEMMA InitRefines ==
    ASSUME Explicit, Init
    PROVE  Contract!Init
<1>1. 0 \in Shards
  BY Zenon, OneShard
<1>2. ContractPool = SeenPool("live", FALSE, FALSE, "none")
  <2>1. /\ pool.st = "live" /\ pool.fin = FALSE /\ pool.pending = NoWork
        /\ pool.shards[0] = "none"
    BY Zenon, <1>1 DEF Init, NewPool
  <2>2. (pool.pending # NoWork) = FALSE
    BY Zenon, <2>1
  <2> QED BY Zenon, <2>1, <2>2, PoolSeen
<1>3. [Contract!NoPool EXCEPT !.st = "live", !.fin = FALSE]
         = SeenPool("live", FALSE, FALSE, "none")
  <2>1. PICK e : e = FALSE
    BY Zenon
  <2>2. PICK c : c = PutState(SeenPool("none", e, e, "none"), "live")
    BY Zenon
  <2>3. c = SeenPool("live", e, e, "none")
    BY <2>2, StatePut
  <2>4. PutFin(c, e) = SeenPool("live", e, e, "none")
    BY <2>3, FinPut
  <2>5. Contract!NoPool = SeenPool("none", e, e, "none")
    BY Zenon, <2>1 DEF Contract!NoPool, SeenPool
  <2>6. [Contract!NoPool EXCEPT !.st = "live", !.fin = FALSE]
          = [PutState(Contract!NoPool, "live") EXCEPT !.fin = FALSE]
    BY Zenon DEF PutState
  <2> QED BY Zenon, <2>1, <2>2, <2>4, <2>5, <2>6 DEF PutFin
<1>4. ContractPool \in {[Contract!NoPool EXCEPT !.st = "live", !.fin = h] : h \in BOOLEAN}
  BY Zenon, <1>2, <1>3
<1>5. ContractLedger = Contract!NoLeases
  BY Zenon DEF Init, NoLeases, ContractLedger, Contract!NoLeases
<1>6. ASSUME NEW u \in Bindings
      PROVE  Contracted(u, bind[u]) = Contract!Unborn(Target(u))
  <2>1. bind[u] = [st |-> "unborn", fin |-> FALSE, gen |-> 0, cond |-> "none", og |-> 0]
    BY Zenon DEF Init, Unborn
  <2>2. /\ bind[u].st = "unborn" /\ bind[u].fin = FALSE /\ bind[u].gen = 0
        /\ bind[u].cond = "none" /\ bind[u].og = 0
    BY <2>1
  <2> QED BY Zenon, <2>2 DEF Contracted, Contract!Unborn
<1>7. ContractBindings \in [Bindings -> {Contract!Unborn(s) : s \in {Target(u) : u \in Bindings}}]
  BY Zenon, <1>6 DEF ContractBindings
<1> QED BY Zenon, <1>4, <1>5, <1>7 DEF Contract!Init

(* An explicit-port pool, while the finalizers are left alone and the      *)
(* leader is not replaced, behaves as the Gateway adapter expects: every   *)
(* save, patch and finalizer of a pass of reconcile, whatever it read and  *)
(* wherever it was cut short, is one of the writes of EngineContract under *)
(* that write's own condition, or nothing.                                 *)
THEOREM EngineImplementsContract ==
    ASSUME Explicit, \A p \in Plans : p.kinds \cap {"leader", "strip"} = {}
    PROVE  Spec => ImplementsContract
<1>1. Init => RefInv
  BY Zenon, RefInvInit
<1>2. RefInv /\ [Next]_vars => RefInv'
  BY Zenon, RefInvStep
<1>3. Init => Contract!Init
  BY Zenon, InitRefines
<1>4. RefInv /\ [Next]_vars => [Contract!Next]_(Contract!vars)
  <2> SUFFICES ASSUME RefInv, [Next]_vars PROVE [Contract!Next]_(Contract!vars)
    BY Zenon
  <2>1. CASE bind' # bind
    BY Zenon, <2>1, BindRefines
  <2>2. CASE bind' = bind
    BY Zenon, <2>2, PoolRefines DEF Refined, Contract!vars
  <2> QED BY Zenon, <2>1, <2>2
<1> QED BY <1>1, <1>2, <1>3, <1>4, PTL DEF Spec, ImplementsContract, Contract!ContractSpec
=============================================================================
