---------------------- MODULE GatewayPoolLedgerProofs -----------------------
(***************************************************************************)
(* The leases of GatewayPool: unique, exclusive and permanent, for any     *)
(* number of pools, routes, replicas and disturbances.  Only save and      *)
(* ReleasePool write a ledger, and both write a copy; the argument is that *)
(* a copy that will be accepted is one legal step from the ledger.  And a  *)
(* lease is in the saved ledger before a Gateway listens for it or a route *)
(* points at it, even when the pass that acts is that of a deposed leader  *)
(* with an old copy: an old copy is a part of the ledger.                  *)
(***************************************************************************)
EXTENDS GatewayPool, TLAPS

IsLease(l) == l \in [svc : {l.svc}, shard : Shards, port : Nat,
                     tomb : BOOLEAN, attached : BOOLEAN]
IsLedger(A) == DOMAIN A \subseteq Routes /\ \A u \in DOMAIN A : IsLease(A[u])

IsCopy(m) == m \in [p : Pools \cup {0}, obj : {m.obj}, a : {m.a}, rts : {m.rts},
                    others : {m.others}, todo : {m.todo}, rej : {m.rej}]

(* What one pass may do to a ledger.                                       *)
Slot(l) == <<l.shard, l.port>>
Grants(A, B, u) == /\ u \in Routes \ DOMAIN A
                   /\ B[u] = NewLease(B[u].svc, Slot(B[u]))
                   /\ Slot(B[u]) \in Slots \ Occupied(A)
                   /\ ~ServicePortTaken(A, B[u].svc)
                   /\ B = WithLease(A, u, B[u])
Retires(A, B, u) == /\ u \in DOMAIN A /\ ~A[u].tomb
                    /\ B = [A EXCEPT ![u].tomb = TRUE]
Attaches(A, B, u) == u \in DOMAIN A /\ B = [A EXCEPT ![u].attached = TRUE]
LedgerStep(A, B) == \/ B = A
                    \/ \E u \in Routes : Grants(A, B, u)
                    \/ \E u \in DOMAIN A : Retires(A, B, u) \/ Attaches(A, B, u)

(* The inductive invariant: a copy that is not stale is the ledger, or, on *)
(* its way to a save, one LedgerStep ahead of it.                          *)
Fresh(r) ==
    pc[r] # "idle" =>
       /\ my[r].p \in Pools
       /\ r \notin stale => IF pc[r] = "save" THEN LedgerStep(led[my[r].p], my[r].a)
                            ELSE my[r].a = led[my[r].p]
Ctl == /\ DOMAIN led = Pools /\ DOMAIN my = Replicas /\ DOMAIN pc = Replicas
       /\ \A r \in Replicas : IsCopy(my[r])
       /\ \A r \in Replicas : pc[r] # "idle" => my[r].p \in Pools
LedgerInv == /\ Ctl /\ \A r \in Replicas : Fresh(r)
             /\ \A p \in Pools : IsLedger(led[p])

(* What a step does to the copy of replica q, and to the ledgers.          *)
Works(q) ==
    /\ my'[q].p = my[q].p /\ pc[q] # "idle"
    /\ q \in stale => q \in stale'
    /\ IF pc[q] = "save" THEN my'[q].a = my[q].a /\ pc'[q] = "save"
       ELSE IF pc'[q] = "save" THEN LedgerStep(my[q].a, my'[q].a)
       ELSE my'[q].a = my[q].a
Reads(q) == /\ my'[q].p \in Pools /\ my'[q].a = led[my'[q].p]
            /\ led' = led /\ pc'[q] # "save"
CopyShape(q) == /\ IsCopy(my'[q]) /\ my'[q].rts \in {my[q].rts, route, Unborn}
                /\ pc'[q] = "idle" \/ Reads(q) \/ Works(q)
WriteShape(p) == /\ DOMAIN led' = Pools /\ LedgerStep(led[p], led'[p])
                 /\ \A o \in Pools \ {p} : led'[o] = led[o]
                 /\ \A q \in Replicas : my[q].p = p => q \in stale'
Shape == /\ DOMAIN my' = Replicas /\ DOMAIN pc' = Replicas
         /\ led' = led \/ \E p \in Pools : WriteShape(p)
         /\ \A q \in Replicas : CopyShape(q)

(* The shape is all the invariant needs.                                   *)
LEMMA FreshStep ==
    ASSUME LedgerInv, Shape
    PROVE  Ctl' /\ \A q \in Replicas : Fresh(q)'
<1> SUFFICES ASSUME NEW q \in Replicas
             PROVE  Fresh(q)' /\ (pc'[q] # "idle" => my'[q].p \in Pools)
  BY DEF LedgerInv, Ctl, Shape, CopyShape, WriteShape
<1>1. Fresh(q) /\ CopyShape(q)
  BY DEF LedgerInv, Shape
<1>2. CASE Reads(q)
  BY Zenon, <1>2 DEF Reads, Fresh
<1>3. CASE Works(q)
  <2>1. my'[q].p = my[q].p /\ my[q].p \in Pools
    BY <1>1, <1>3 DEF Works, Fresh
  <2>2. q \notin stale' => led'[my[q].p] = led[my[q].p]
    BY <2>1 DEF Shape, WriteShape
  <2>3. CASE q \in stale'
    BY Zenon, <2>1, <2>3 DEF Fresh
  <2>4. CASE q \notin stale'
    BY Zenon, <1>1, <1>3, <2>1, <2>2, <2>4 DEF Works, Fresh
  <2> QED BY <2>3, <2>4
<1>4. CASE pc'[q] = "idle"
  BY <1>4 DEF Fresh
<1> QED BY <1>1, <1>2, <1>3, <1>4 DEF CopyShape

-----------------------------------------------------------------------------
(* Every action has the shape.                                             *)

(* A replica that does not move.                                           *)
LEMMA OtherCopy ==
    ASSUME Ctl, NEW q \in Replicas, my'[q] = my[q], pc'[q] = pc[q],
           stale \subseteq stale'
    PROVE  CopyShape(q)
BY DEF Ctl, CopyShape, Works, LedgerStep

(* A step of one pass that leaves the pools alone.                         *)
LEMMA PassStep ==
    ASSUME Ctl, NEW r \in Replicas, UNCHANGED poolVars,
           NEW m, NEW l, IsCopy(m),
           my' = [my EXCEPT ![r] = m], pc' = [pc EXCEPT ![r] = l],
           pc[r] \notin {"idle", "save"},
           m.p = my[r].p, m.rts \in {my[r].rts, route},
           m.a = my[r].a \/ (l = "save" /\ LedgerStep(my[r].a, m.a))
    PROVE  Shape
<1>1. DOMAIN my' = Replicas /\ DOMAIN pc' = Replicas /\ led' = led /\ stale' = stale
  BY DEF Ctl, poolVars
<1>2. my'[r] = m /\ pc'[r] = l
  BY DEF Ctl
<1>3. CopyShape(r)
  BY <1>1, <1>2 DEF CopyShape, Works, LedgerStep
<1>4. ASSUME NEW q \in Replicas \ {r} PROVE CopyShape(q)
  BY <1>1, OtherCopy DEF Ctl
<1> QED BY <1>1, <1>3, <1>4 DEF Shape

(* The end of a pass.                                                      *)
LEMMA PassEnd ==
    ASSUME Ctl, NEW r \in Replicas, EndPass(r), UNCHANGED poolVars
    PROVE  Shape
<1>1. /\ DOMAIN my' = Replicas /\ DOMAIN pc' = Replicas /\ led' = led /\ stale' = stale
      /\ my'[r] = Blank /\ pc'[r] = "idle"
  BY DEF Ctl, poolVars, EndPass, Goto
<1>2. CopyShape(r)
  BY <1>1 DEF CopyShape, IsCopy, Blank
<1>3. ASSUME NEW q \in Replicas \ {r} PROVE CopyShape(q)
  BY <1>1, OtherCopy DEF Ctl, EndPass, Goto
<1> QED BY <1>1, <1>2, <1>3 DEF Shape

(* A step that moves no replica and writes no pool.                        *)
LEMMA Elsewhere ==
    ASSUME Ctl, UNCHANGED ctlVars, UNCHANGED poolVars
    PROVE  Shape
BY OtherCopy DEF Shape, Ctl, ctlVars, poolVars

(* A write to a pool that keeps its ledger.                                *)
LEMMA PoolWritten ==
    ASSUME Ctl, NEW p \in Pools, NEW obj, WritePool(p, obj, led[p]), UNCHANGED ctlVars
    PROVE  Shape
<1>1. WriteShape(p)
  BY DEF Ctl, WritePool, WriteShape, LedgerStep
<1>2. ASSUME NEW q \in Replicas PROVE CopyShape(q)
  BY OtherCopy DEF ctlVars, WritePool
<1> QED BY <1>1, <1>2 DEF Shape, Ctl, ctlVars

(* A copy that is written, by save or by ReleasePool, ends its pass.       *)
LEMMA CopyWritten ==
    ASSUME Ctl, NEW r \in Replicas, EndPass(r), my[r].p \in Pools, NEW obj,
           WritePool(my[r].p, obj, my[r].a), LedgerStep(led[my[r].p], my[r].a)
    PROVE  Shape
<1>1. /\ DOMAIN my' = Replicas /\ DOMAIN pc' = Replicas /\ stale \subseteq stale'
      /\ my'[r] = Blank /\ pc'[r] = "idle"
  BY DEF Ctl, WritePool, EndPass, Goto
<1>2. CopyShape(r)
  BY <1>1 DEF CopyShape, IsCopy, Blank
<1>3. ASSUME NEW q \in Replicas \ {r} PROVE CopyShape(q)
  BY <1>1, OtherCopy DEF Ctl, EndPass, Goto
<1>4. WriteShape(my[r].p)
  BY DEF Ctl, WritePool, WriteShape
<1> QED BY <1>1, <1>2, <1>3, <1>4 DEF Shape

(* The writes of a ledger.                                                 *)
LEMMA saveShape ==
    ASSUME LedgerInv, NEW r \in Replicas, save(r) \/ ReleasePool(r)
    PROVE  Shape
<1>1. Ctl /\ Fresh(r)
  BY DEF LedgerInv
<1>2. my[r].p \in Pools /\ EndPass(r)
  BY <1>1 DEF save, ReleasePool, Fresh
<1>3. CASE r \in stale
  BY <1>1, <1>2, <1>3, PassEnd DEF save, ReleasePool
<1>4. CASE r \notin stale
  <2>1. LedgerStep(led[my[r].p], my[r].a)
    BY <1>1, <1>4 DEF save, ReleasePool, Fresh, LedgerStep
  <2>2. \E obj : WritePool(my[r].p, obj, my[r].a)
    BY Zenon, <1>4 DEF save, ReleasePool
  <2> QED BY <1>1, <1>2, <2>1, <2>2, CopyWritten
<1> QED BY <1>3, <1>4

(* Get of a pool.                                                          *)
LEMMA StartPassShape ==
    ASSUME LedgerInv, NEW r \in Replicas, NEW p \in Pools, StartPass(r, p)
    PROVE  Shape
<1>1. /\ DOMAIN my' = Replicas /\ DOMAIN pc' = Replicas /\ led' = led
      /\ pc'[r] # "save" /\ IsCopy(my[r])
  BY DEF LedgerInv, Ctl, StartPass, Goto
<1>2. /\ IsCopy(my'[r]) /\ my'[r].p = p /\ my'[r].a = led[p]
      /\ my'[r].rts = my[r].rts
  BY Zenon, <1>1 DEF LedgerInv, Ctl, StartPass, IsCopy
<1>3. CopyShape(r)
  BY <1>1, <1>2 DEF CopyShape, Reads
<1>4. ASSUME NEW q \in Replicas \ {r} PROVE CopyShape(q)
  <2>1. my'[q] = my[q] /\ pc'[q] = pc[q] /\ (q \in stale => q \in stale')
    BY DEF LedgerInv, Ctl, StartPass, Goto
  <2> QED BY <2>1 DEF LedgerInv, Ctl, CopyShape, Works, LedgerStep
<1> QED BY <1>1, <1>3, <1>4 DEF Shape

(* The pass reads, scans or moves on: same ledger.                         *)
LEMMA ListRoutesShape ==
    ASSUME Ctl, NEW r \in Replicas, ListRoutes(r)
    PROVE  Shape
<1>1. IsCopy([my[r] EXCEPT !.rts = route])
  BY DEF Ctl, IsCopy
<1>2. [my[r] EXCEPT !.rts = route].p = my[r].p
      /\ [my[r] EXCEPT !.rts = route].a = my[r].a
      /\ [my[r] EXCEPT !.rts = route].rts = route
  BY DEF Ctl, IsCopy
<1> QED BY Zenon, <1>1, <1>2, PassStep DEF ListRoutes, Goto

(* The ledgers of the other pools go into the copy.                        *)
LEMMA ListPoolsShape ==
    ASSUME Ctl, NEW r \in Replicas, ListPools(r)
    PROVE  Shape
<1> DEFINE m == [my[r] EXCEPT !.others = UNION {DOMAIN led[q] :
                     q \in {p \in Pools : Exists(pool[p])} \ {my[r].p}}]
           mine == {u \in Routes : Relevant(m, u)}
           n == [m EXCEPT !.todo = {u \in mine : Problem(m, u) = ""},
                          !.rej = {<<u, Problem(m, u)>> :
                                      u \in {v \in mine : Problem(m, v) # ""}}]
<1>1. \/ my' = [my EXCEPT ![r] = m] /\ pc' = [pc EXCEPT ![r] = "retire"]
      \/ my' = [my EXCEPT ![r] = n] /\ pc' = [pc EXCEPT ![r] = "scan"]
  BY Zenon DEF ListPools, Goto
<1>2. pc[r] = "pools" /\ UNCHANGED poolVars
  BY DEF ListPools
<1>3. IsCopy(m) /\ m.p = my[r].p /\ m.a = my[r].a /\ m.rts = my[r].rts
  BY DEF Ctl, IsCopy
<1> HIDE DEF m, mine
<1>4. IsCopy(n) /\ n.p = my[r].p /\ n.a = my[r].a /\ n.rts = my[r].rts
  BY Zenon, <1>3 DEF IsCopy
<1> HIDE DEF n
<1> QED BY <1>1, <1>2, <1>3, <1>4, PassStep

(* A route is passed over, with or without a rejection.                    *)
LEMMA NextRouteShape ==
    ASSUME Ctl, NEW r \in Replicas, NEW u, NEW why, NextRoute(r, u, why),
           pc[r] = "scan", UNCHANGED <<poolVars, pc>>
    PROVE  Shape
<1> DEFINE T == my[r].todo \ {u}
           J == IF why = "" THEN my[r].rej ELSE my[r].rej \cup {<<u, why>>}
           m == [my[r] EXCEPT !.todo = T, !.rej = J]
<1>1. my' = [my EXCEPT ![r] = m]
  BY Zenon DEF NextRoute, Ctl, IsCopy
<1> HIDE DEF T, J
<1>2. IsCopy(m) /\ m.p = my[r].p /\ m.a = my[r].a /\ m.rts = my[r].rts
  BY Zenon DEF Ctl, IsCopy
<1>3. pc' = [pc EXCEPT ![r] = "scan"] \/ UNCHANGED pc
  OBVIOUS
<1> HIDE DEF m
<1>4. /\ DOMAIN my' = Replicas /\ DOMAIN pc' = Replicas /\ led' = led /\ stale' = stale
      /\ my'[r] = m /\ pc'[r] = "scan"
  BY <1>1 DEF Ctl, poolVars
<1>5. CopyShape(r)
  BY <1>2, <1>4 DEF CopyShape, Works
<1>6. ASSUME NEW q \in Replicas \ {r} PROVE CopyShape(q)
  BY <1>1, <1>4, OtherCopy DEF Ctl
<1> QED BY <1>4, <1>5, <1>6 DEF Shape

(* The todo set of a pass changes.                                         *)
LEMMA TodoShape ==
    ASSUME Ctl, NEW r \in Replicas, NEW T, my' = [my EXCEPT ![r].todo = T],
           NEW l, Goto(r, l), pc[r] \notin {"idle", "save"}, UNCHANGED poolVars
    PROVE  Shape
<1> DEFINE m == [my[r] EXCEPT !.todo = T]
<1>1. IsCopy(m) /\ m.p = my[r].p /\ m.a = my[r].a /\ m.rts = my[r].rts
  BY DEF Ctl, IsCopy
<1>2. my' = [my EXCEPT ![r] = m]
  OBVIOUS
<1> HIDE DEF m
<1> QED BY Zenon, <1>1, <1>2, PassStep DEF Goto

(* The same, at the same place in the pass.                                *)
LEMMA TodoShapeHere ==
    ASSUME Ctl, NEW r \in Replicas, NEW T, my' = [my EXCEPT ![r].todo = T],
           UNCHANGED pc, pc[r] \notin {"idle", "save"}, UNCHANGED poolVars
    PROVE  Shape
<1>1. /\ DOMAIN my' = Replicas /\ DOMAIN pc' = Replicas /\ led' = led /\ stale' = stale
      /\ pc'[r] = pc[r]
  BY DEF Ctl, poolVars
<1>2. /\ IsCopy(my'[r]) /\ my'[r].p = my[r].p /\ my'[r].a = my[r].a
      /\ my'[r].rts = my[r].rts
  BY DEF Ctl, IsCopy
<1>3. CopyShape(r)
  BY <1>1, <1>2 DEF CopyShape, Works
<1>4. ASSUME NEW q \in Replicas \ {r} PROVE CopyShape(q)
  BY <1>1, OtherCopy DEF Ctl
<1> QED BY <1>1, <1>3, <1>4 DEF Shape

(* A save with ledger A is on its way.                                     *)
LEMMA ToSaveShape ==
    ASSUME Ctl, NEW r \in Replicas, NEW A, NEW R, ToSave(r, A, R),
           LedgerStep(my[r].a, A), pc[r] \notin {"idle", "save"}, UNCHANGED poolVars
    PROVE  Shape
<1> DEFINE m == [my[r] EXCEPT !.a = A, !.rej = R]
<1>1. IsCopy(m) /\ m.p = my[r].p /\ m.a = A /\ m.rts = my[r].rts
  BY Zenon DEF Ctl, IsCopy
<1>2. my' = [my EXCEPT ![r] = m]
  BY Zenon DEF ToSave, Ctl, IsCopy
<1> HIDE DEF m
<1> QED BY Zenon, <1>1, <1>2, PassStep DEF ToSave, Goto

(* The three saves that change a ledger change it by one LedgerStep.       *)
LEMMA RetireLeaseShape ==
    ASSUME Ctl, NEW r \in Replicas, RetireLease(r)
    PROVE  Shape
<1>1. PICK u \in Vanished(my[r]) :
          ToSave(r, [my[r].a EXCEPT ![u].tomb = TRUE], my[r].obj.rejected)
  BY Zenon DEF RetireLease
<1>2. LedgerStep(my[r].a, [my[r].a EXCEPT ![u].tomb = TRUE])
  BY Zenon DEF Vanished, LedgerStep, Retires
<1> QED BY <1>1, <1>2, ToSaveShape DEF RetireLease

(* The route points at its listener.                                       *)
LEMMA RecordAttachedShape ==
    ASSUME Ctl, NEW r \in Replicas, NEW u, RecordAttached(r, u)
    PROVE  Shape
<1>1. LedgerStep(my[r].a, [my[r].a EXCEPT ![u].attached = TRUE])
  BY Zenon DEF RecordAttached, LedgerStep, Attaches
<1>2. /\ ToSave(r, [my[r].a EXCEPT ![u].attached = TRUE], SoFar(r, u))
      /\ pc[r] = "scan" /\ UNCHANGED poolVars
  BY DEF RecordAttached, Turn
<1> QED BY <1>1, <1>2, ToSaveShape

(* The first free slot, for a Service port nobody has.                     *)
LEMMA ReserveShape ==
    ASSUME Ctl, NEW r \in Replicas, NEW u \in Routes, Reserve(r, u)
    PROVE  Shape
<1>1. PICK slot \in Slots :
          /\ reserve(my[r].a, Target(r, u), slot)
          /\ ToSave(r, WithLease(my[r].a, u, NewLease(Target(r, u), slot)), SoFar(r, u))
  BY Zenon DEF Reserve
<1>2. pc[r] = "scan" /\ UNCHANGED poolVars /\ u \notin DOMAIN my[r].a
  BY DEF Reserve, Turn
<1> DEFINE s == Target(r, u)
           A == my[r].a
           l == NewLease(s, slot)
           B == WithLease(A, u, l)
<1>3. slot \in Slots \ Occupied(A) /\ ~ServicePortTaken(A, s)
  BY <1>1 DEF reserve
<1> HIDE DEF s, A
<1>4. l.svc = s /\ Slot(l) = slot
  BY <1>1 DEF NewLease, Slot, Slots
<1>5. B[u] = l
  BY DEF WithLease
<1> HIDE DEF l, B
<1>6. Grants(A, B, u)
  BY <1>2, <1>3, <1>4, <1>5 DEF Grants, A, B, l
<1>7. LedgerStep(A, B)
  BY <1>6 DEF LedgerStep
<1> QED BY <1>1, <1>2, <1>7, ToSaveShape DEF A, B, l, s

(* A Gateway is put on record: the save carries the ledger unchanged.      *)
LEMMA RecordGatewayShape ==
    ASSUME Ctl, NEW r \in Replicas, NEW k, RecordGateway(r, k)
    PROVE  Shape
<1> DEFINE O == [my[r].obj EXCEPT !.gws[k] = Gateway(r, k).uid]
           m == [my[r] EXCEPT !.obj = O]
<1>1. my' = [my EXCEPT ![r] = m] /\ pc' = [pc EXCEPT ![r] = "save"]
  BY Zenon DEF RecordGateway, Goto
<1>2. pc[r] = "gateways" /\ UNCHANGED poolVars
  BY DEF RecordGateway, AtGateway
<1> HIDE DEF O
<1>3. IsCopy(m) /\ m.p = my[r].p /\ m.a = my[r].a /\ m.rts = my[r].rts
  BY DEF Ctl, IsCopy
<1> HIDE DEF m
<1> QED BY Zenon, <1>1, <1>2, <1>3, PassStep

(* A pass with new rejections ends with a save of the ledger it has read.  *)
LEMMA FinishPassShape ==
    ASSUME Ctl, NEW r \in Replicas, FinishPass(r)
    PROVE  Shape
<1>1. CASE EndPass(r)
  BY <1>1, PassEnd DEF FinishPass
<1>2. CASE Goto(r, "save") /\ UNCHANGED my
  <2>1. /\ DOMAIN my' = Replicas /\ DOMAIN pc' = Replicas
        /\ led' = led /\ stale' = stale
        /\ pc[r] = "gateways" /\ pc'[r] = "save" /\ my' = my
    BY Zenon, <1>2 DEF Ctl, FinishPass, poolVars, Goto, AtAttach
  <2>2. CopyShape(r)
    BY <2>1 DEF Ctl, CopyShape, Works, LedgerStep
  <2>3. ASSUME NEW q \in Replicas \ {r} PROVE CopyShape(q)
    BY <1>2, <2>1, OtherCopy DEF Ctl, Goto
  <2> QED BY <2>1, <2>2, <2>3 DEF Shape
<1> QED BY Zenon, <1>1, <1>2 DEF FinishPass

(* The steps over routes, Gateways and archives that write no pool.        *)
LEMMA ScanShape ==
    ASSUME Ctl, NEW r \in Replicas, NEW u,
           KeepRoute(r, u) \/ ReserveRefused(r, u) \/ AttachRoute(r, u) \/ EndScan(r)
    PROVE  Shape
<1>1. CASE KeepRoute(r, u)
  <2>1. \E why : NextRoute(r, u, why)
    BY Zenon, <1>1 DEF KeepRoute
  <2> QED BY Zenon, <1>1, <2>1, NextRouteShape DEF KeepRoute, Turn
<1>2. CASE ReserveRefused(r, u)
  BY <1>2, NextRouteShape DEF ReserveRefused, Turn
<1>3. CASE AttachRoute(r, u)
  BY <1>3, PassEnd DEF AttachRoute
<1>4. CASE EndScan(r)
  BY <1>4, TodoShape DEF EndScan
<1> QED BY <1>1, <1>2, <1>3, <1>4

(* The Gateways, created, updated, refused, accepted or deleted.           *)
LEMMA GatewayShape ==
    ASSUME Ctl, NEW r \in Replicas, NEW k,
           \/ CreateGateway(r, k) \/ GatewayRefused(r, k) \/ UpdateGateway(r, k)
           \/ NextGateway(r, k) \/ DeleteGateway(r, k)
    PROVE  Shape
<1>1. CASE CreateGateway(r, k) \/ GatewayRefused(r, k) \/ UpdateGateway(r, k)
  BY Zenon, <1>1, PassEnd DEF CreateGateway, GatewayRefused, UpdateGateway
<1>2. CASE NextGateway(r, k)
  BY Zenon, <1>2, TodoShapeHere DEF NextGateway, AtGateway
<1>3. CASE DeleteGateway(r, k)
  <2>1. pc[r] = "delete" /\ UNCHANGED poolVars
    BY <1>3 DEF DeleteGateway
  <2>2. \/ EndPass(r)
        \/ UNCHANGED pc /\ my' = [my EXCEPT ![r].todo = my[r].todo \ {k}]
    BY Zenon, <1>3 DEF DeleteGateway
  <2> QED BY <2>1, <2>2, PassEnd, TodoShapeHere
<1> QED BY <1>1, <1>2, <1>3

(* The archive, created or compared.                                       *)
LEMMA ArchiveShape ==
    ASSUME Ctl, NEW r \in Replicas, CreateArchive(r) \/ CompareArchive(r)
    PROVE  Shape
<1>1. CASE CreateArchive(r)
  BY <1>1, PassEnd DEF CreateArchive
<1>2. CASE CompareArchive(r)
  <2>1. pc[r] = "archive" /\ UNCHANGED poolVars
    BY <1>2 DEF CompareArchive
  <2>2. EndPass(r) \/ (Goto(r, "delete") /\ \E T : my' = [my EXCEPT ![r].todo = T])
    BY Zenon, <1>2 DEF CompareArchive
  <2> QED BY <2>1, <2>2, PassEnd, TodoShape
<1> QED BY <1>1, <1>2

(* Every step of a pass.                                                   *)
LEMMA ContinueShape ==
    ASSUME LedgerInv, NEW r \in Replicas, Continue(r)
    PROVE  Shape
<1>1. Ctl
  BY DEF LedgerInv
<1>2. CASE save(r) \/ ReleasePool(r)
  BY <1>2, saveShape
<1>3. CASE ListRoutes(r) \/ ListPools(r) \/ RetireLease(r) \/ FinishPass(r)
  BY <1>1, <1>3, ListRoutesShape, ListPoolsShape, RetireLeaseShape, FinishPassShape
<1>4. CASE \E u \in Routes : RecordAttached(r, u) \/ Reserve(r, u)
  BY <1>1, <1>4, RecordAttachedShape, ReserveShape
<1>5. CASE \E u \in Routes : KeepRoute(r, u) \/ ReserveRefused(r, u) \/ AttachRoute(r, u)
  BY <1>1, <1>5, ScanShape
<1>6. CASE EndScan(r)
  BY <1>1, <1>6, ScanShape
<1>7. CASE \E k \in Shards : RecordGateway(r, k)
  BY <1>1, <1>7, RecordGatewayShape
<1>8. CASE \E k \in Shards :
              \/ CreateGateway(r, k) \/ GatewayRefused(r, k) \/ UpdateGateway(r, k)
              \/ NextGateway(r, k) \/ DeleteGateway(r, k)
  BY <1>1, <1>8, GatewayShape
<1>9. CASE CreateArchive(r) \/ CompareArchive(r)
  BY <1>1, <1>9, ArchiveShape
<1> QED BY Zenon, <1>2, <1>3, <1>4, <1>5, <1>6, <1>7, <1>8, <1>9 DEF Continue

(* Writes to the pool object that carry its ledger along.                  *)
LEMMA PoolObjectShape ==
    ASSUME Ctl, NEW p \in Pools,
           \/ \E r \in Replicas : AddPoolFinalizer(r, p) \/ FreezeSpec(r, p)
           \/ CreatePool(p) \/ DeletePool(p) \/ EditSpec(p)
    PROVE  Shape
<1>1. UNCHANGED ctlVars
  BY DEF AddPoolFinalizer, FreezeSpec, CreatePool, DeletePool, EditSpec
<1>2. \E obj : WritePool(p, obj, led[p])
  BY Zenon DEF AddPoolFinalizer, FreezeSpec, CreatePool, DeletePool, EditSpec
<1> QED BY <1>1, <1>2, PoolWritten

(* The environment of the allocator.                                       *)
LEMMA WorldShape ==
    ASSUME Ctl,
           \/ \E r \in Replicas : ChangeLeader(r)
           \/ \E p \in Pools, k \in Shards :
                 \/ GatewayEvent(p, k) \/ RestoreGateway(p, k)
                 \/ CollectGateway(p, k) \/ FinishGateway(p, k)
           \/ \E u \in Routes : \/ CreateRoute(u) \/ DeleteRoute(u) \/ Reannotate(u)
                                \/ Retarget(u) \/ EditParent(u) \/ AdapterHold(u)
                                \/ ReleaseRoute(u)
           \/ \E s \in Services : ServiceEvent(s)
    PROVE  Shape
<1>1. UNCHANGED ctlVars /\ UNCHANGED poolVars
  BY Zenon DEF ChangeLeader, GatewayEvent, RestoreGateway, CollectGateway, FinishGateway,
         CreateRoute, DeleteRoute, Reannotate, Retarget, EditParent, AdapterHold,
         ReleaseRoute, ServiceEvent
<1> QED BY <1>1, Elsewhere

(* Every step of the system.                                               *)
LEMMA StepShape ==
    ASSUME LedgerInv, [Next]_vars
    PROVE  Shape
<1>1. Ctl
  BY DEF LedgerInv
<1>2. CASE UNCHANGED vars
  BY <1>1, <1>2, Elsewhere DEF vars
<1>3. CASE \E r \in Replicas, p \in Pools : Begin(r, p)
  BY Zenon, <1>1, <1>3, PoolObjectShape, StartPassShape DEF Begin
<1>4. CASE \E r \in Replicas : Continue(r)
  BY <1>4, ContinueShape
<1>5. CASE \E r \in Replicas : Abort(r)
  BY <1>1, <1>5, PassEnd DEF Abort
<1>6. CASE \E p \in Pools : CreatePool(p) \/ DeletePool(p) \/ EditSpec(p)
  BY <1>1, <1>6, PoolObjectShape
<1>7. CASE \/ \E r \in Replicas : ChangeLeader(r)
           \/ \E p \in Pools, k \in Shards :
                 \/ GatewayEvent(p, k) \/ RestoreGateway(p, k)
                 \/ CollectGateway(p, k) \/ FinishGateway(p, k)
           \/ \E u \in Routes : \/ CreateRoute(u) \/ DeleteRoute(u) \/ Reannotate(u)
                                \/ Retarget(u) \/ EditParent(u) \/ AdapterHold(u)
                                \/ ReleaseRoute(u)
           \/ \E s \in Services : ServiceEvent(s)
  BY <1>1, <1>7, WorldShape
<1> QED BY Zenon, <1>2, <1>3, <1>4, <1>5, <1>6, <1>7 DEF Next

-----------------------------------------------------------------------------
(* What a LedgerStep keeps.                                                *)

(* A switch of one flag leaves the leases as they were.                    *)
LEMMA FlagKeeps ==
    ASSUME NEW A, IsLedger(A), NEW B, NEW u, Retires(A, B, u) \/ Attaches(A, B, u)
    PROVE  /\ DOMAIN B = DOMAIN A
           /\ \A v \in DOMAIN A :
                 /\ B[v].svc = A[v].svc /\ Slot(B[v]) = Slot(A[v])
                 /\ IsLease(B[v]) /\ (A[v].tomb => B[v].tomb)
                 /\ B[v].shard = A[v].shard /\ B[v].port = A[v].port
<1>1. u \in DOMAIN A /\ \A v \in DOMAIN A : IsLease(A[v])
  BY DEF IsLedger, Retires, Attaches
<1>2. CASE Retires(A, B, u)
  BY Zenon, <1>1, <1>2 DEF Retires, IsLease, Slot
<1>3. CASE Attaches(A, B, u)
  BY Zenon, <1>1, <1>3 DEF Attaches, IsLease, Slot
<1> QED BY Zenon, <1>2, <1>3

(* A grant adds one lease on a slot and a Service port nobody has.         *)
LEMMA GrantAdds ==
    ASSUME NEW A, NEW B, NEW u, Grants(A, B, u)
    PROVE  /\ DOMAIN B = DOMAIN A \cup {u} /\ u \in Routes /\ u \notin DOMAIN A
           /\ \A v \in DOMAIN A : B[v] = A[v]
           /\ \A v \in DOMAIN A : Slot(A[v]) # Slot(B[u])
           /\ \A v \in DOMAIN A : ~A[v].tomb => A[v].svc # B[u].svc
           /\ Slot(B[u]) \in Slots /\ ~B[u].tomb
<1>1. /\ u \in Routes \ DOMAIN A /\ B = WithLease(A, u, B[u])
      /\ Slot(B[u]) \in Slots \ Occupied(A)
      /\ ~ServicePortTaken(A, B[u].svc)
  BY Zenon DEF Grants
<1>2. DOMAIN B = DOMAIN A \cup {u} /\ \A v \in DOMAIN A : B[v] = A[v]
  BY <1>1 DEF WithLease
<1>3. \A v \in DOMAIN A : Slot(A[v]) # Slot(B[u])
  BY <1>1 DEF Occupied, Slot
<1>4. \A v \in DOMAIN A : ~A[v].tomb => A[v].svc # B[u].svc
  BY <1>1 DEF ServicePortTaken
<1>5. ~B[u].tomb
  BY DEF Grants, NewLease
<1> QED BY <1>1, <1>2, <1>3, <1>4, <1>5

(* A record with these fields is a lease.                                  *)
LEMMA RecordIsLease ==
    ASSUME NEW s, NEW k \in Shards, NEW n \in Nat, NEW l,
           l = [svc |-> s, shard |-> k, port |-> n, tomb |-> FALSE, attached |-> FALSE]
    PROVE  IsLease(l)
BY DEF IsLease

(* What is granted is a lease.                                             *)
LEMMA GrantIsLease ==
    ASSUME NEW A, NEW B, NEW u, Grants(A, B, u)
    PROVE  IsLease(B[u])
<1>1. B[u] = NewLease(B[u].svc, Slot(B[u])) /\ Slot(B[u]) \in Slots
  BY Zenon DEF Grants
<1>2. B[u].shard \in Shards /\ B[u].port \in Nat
  BY <1>1, GatewayPoolValid DEF Slot, Slots
<1>3. B[u] = [svc |-> B[u].svc, shard |-> B[u].shard, port |-> B[u].port,
              tomb |-> FALSE, attached |-> FALSE]
  <2>1. Slot(B[u])[1] = B[u].shard /\ Slot(B[u])[2] = B[u].port
    BY DEF Slot
  <2> QED BY Zenon, <1>1, <2>1 DEF NewLease
<1> QED BY Zenon, <1>2, <1>3, RecordIsLease

(* A ledger stays a ledger.                                                *)
LEMMA StepIsLedger ==
    ASSUME NEW A, IsLedger(A), NEW B, LedgerStep(A, B)
    PROVE  IsLedger(B)
<1>1. CASE B = A
  BY <1>1
<1>2. CASE \E u \in Routes : Grants(A, B, u)
  <2>1. PICK u \in Routes : Grants(A, B, u)
    BY <1>2
  <2>2. DOMAIN B = DOMAIN A \cup {u} /\ \A v \in DOMAIN A : B[v] = A[v]
    BY Zenon, <2>1, GrantAdds
  <2>3. IsLease(B[u])
    BY <2>1, GrantIsLease
  <2> QED BY <2>2, <2>3 DEF IsLedger
<1>3. CASE \E u \in DOMAIN A : Retires(A, B, u) \/ Attaches(A, B, u)
  BY <1>3, FlagKeeps DEF IsLedger
<1> QED BY <1>1, <1>2, <1>3 DEF LedgerStep

(* The invariant is inductive.                                             *)
LEMMA LedgerInvInit == Init => LedgerInv
<1> SUFFICES ASSUME Init PROVE LedgerInv
  OBVIOUS
<1>1. /\ DOMAIN led = Pools /\ DOMAIN my = Replicas /\ DOMAIN pc = Replicas
      /\ \A r \in Replicas : my[r] = Blank /\ pc[r] = "idle"
      /\ \A p \in Pools : led[p] = NoLeases
  BY DEF Init
<1>2. IsCopy(Blank)
  BY Zenon DEF IsCopy, Blank
<1>3. IsLedger(NoLeases)
  BY DEF IsLedger, NoLeases
<1> QED BY Zenon, <1>1, <1>2, <1>3 DEF LedgerInv, Ctl, Fresh

(* Every ledger takes at most one LedgerStep.                              *)
LEMMA EveryLedgerSteps ==
    ASSUME Shape, NEW p \in Pools
    PROVE  LedgerStep(led[p], led'[p])
BY Zenon DEF Shape, WriteShape, LedgerStep

(* The ledger invariant is inductive, and every step has a shape.          *)
LEMMA LedgerInvStep == LedgerInv /\ [Next]_vars => LedgerInv' /\ Shape
<1> SUFFICES ASSUME LedgerInv, [Next]_vars PROVE LedgerInv' /\ Shape
  OBVIOUS
<1>1. Shape
  BY StepShape
<1>2. Ctl' /\ \A q \in Replicas : Fresh(q)'
  BY <1>1, FreshStep
<1>3. \A p \in Pools : IsLedger(led'[p])
  BY Zenon, <1>1, EveryLedgerSteps, StepIsLedger DEF LedgerInv
<1> QED BY <1>1, <1>2, <1>3 DEF LedgerInv

(* No slot and no Service port is given out twice.                         *)
Unique(A) == \A u, v \in DOMAIN A : u # v => Slot(A[u]) # Slot(A[v])
Exclusive(A) == \A u, v \in DOMAIN A :
    u # v /\ ~A[u].tomb /\ ~A[v].tomb => A[u].svc # A[v].svc
(* A grant, a retirement and a mark keep ports and Service ports           *)
(* exclusive.                                                              *)
LEMMA UniqueStep ==
    ASSUME NEW A, IsLedger(A), NEW B, LedgerStep(A, B), Unique(A), Exclusive(A)
    PROVE  Unique(B) /\ Exclusive(B)
<1>1. CASE B = A
  BY <1>1
<1>2. CASE \E u \in Routes : Grants(A, B, u)
  <2>1. PICK u \in Routes : Grants(A, B, u)
    BY <1>2
  <2>2. /\ DOMAIN B = DOMAIN A \cup {u} /\ \A v \in DOMAIN A : B[v] = A[v]
        /\ \A v \in DOMAIN A : Slot(A[v]) # Slot(B[u])
        /\ \A v \in DOMAIN A : ~A[v].tomb => A[v].svc # B[u].svc
    BY Zenon, <2>1, GrantAdds
  <2> QED BY <2>2 DEF Unique, Exclusive
<1>3. CASE \E u \in DOMAIN A : Retires(A, B, u) \/ Attaches(A, B, u)
  <2>1. /\ DOMAIN B = DOMAIN A
        /\ \A v \in DOMAIN A : /\ B[v].svc = A[v].svc /\ Slot(B[v]) = Slot(A[v])
                               /\ A[v].tomb => B[v].tomb
    BY ZenonT(30), <1>3, FlagKeeps
  <2> QED BY <2>1 DEF Unique, Exclusive
<1> QED BY <1>1, <1>2, <1>3 DEF LedgerStep

(* No two routes of a pool ever share a listener, and no two active ones a *)
(* Service port, whatever replicas overlap and whatever fails (reserve).   *)
THEOREM PoolLedgerSafe == Spec => [](LeaseUnique /\ ServicePortExclusive)
<1> DEFINE Safe == \A p \in Pools : Unique(led[p]) /\ Exclusive(led[p])
<1>1. Init => LedgerInv /\ Safe
  <2>1. Init => Safe
    BY DEF Init, NoLeases, Unique, Exclusive
  <2> QED BY <2>1, LedgerInvInit
<1>2. LedgerInv /\ Safe /\ [Next]_vars => LedgerInv' /\ Safe'
  <2> SUFFICES ASSUME LedgerInv, Safe, [Next]_vars PROVE LedgerInv' /\ Safe'
    OBVIOUS
  <2>1. LedgerInv' /\ Shape
    BY LedgerInvStep
  <2>2. \A p \in Pools : IsLedger(led[p]) /\ LedgerStep(led[p], led'[p])
    BY <2>1, EveryLedgerSteps DEF LedgerInv
  <2> QED BY Zenon, <2>1, <2>2, UniqueStep
<1>3. Safe => LeaseUnique /\ ServicePortExclusive
  BY DEF LeaseUnique, ServicePortExclusive, Unique, Exclusive, Slot
<1> QED BY <1>1, <1>2, <1>3, PTL DEF Spec

(* What LeasePermanent says of one ledger.                                 *)
Plain(l) == [l EXCEPT !.tomb = FALSE, !.attached = FALSE]
(* They keep every lease, and every tombstone.                             *)
LEMMA LedgerStepKeeps ==
    ASSUME NEW A, IsLedger(A), NEW B, LedgerStep(A, B), NEW u \in DOMAIN A
    PROVE  /\ u \in DOMAIN B /\ Plain(B[u]) = Plain(A[u])
           /\ A[u].tomb => B[u].tomb
<1>1. CASE B = A
  BY <1>1
<1>2. CASE \E v \in Routes : Grants(A, B, v)
  <2>1. PICK v \in Routes : Grants(A, B, v)
    BY <1>2
  <2>2. DOMAIN B = DOMAIN A \cup {v} /\ \A w \in DOMAIN A : B[w] = A[w]
    BY Zenon, <2>1, GrantAdds
  <2> QED BY <2>2
<1>3. CASE \E v \in DOMAIN A : Retires(A, B, v) \/ Attaches(A, B, v)
  <2>1. /\ u \in DOMAIN B /\ B[u].svc = A[u].svc /\ B[u].shard = A[u].shard
        /\ B[u].port = A[u].port /\ (A[u].tomb => B[u].tomb)
        /\ IsLease(B[u]) /\ IsLease(A[u])
    BY ZenonT(30), <1>3, FlagKeeps DEF IsLedger
  <2> QED BY Zenon, <2>1 DEF IsLease, Plain
<1> QED BY <1>1, <1>2, <1>3 DEF LedgerStep

(* A lease keeps its Service, Gateway and port for good, and a tombstone   *)
(* stays, whatever replicas overlap (save's conflict check).               *)
THEOREM PoolLeasesArePermanent == Spec => LeasePermanent
<1> DEFINE Same == \A p \in Pools : \A u \in DOMAIN led[p] :
              /\ u \in DOMAIN led'[p]
              /\ [led'[p][u] EXCEPT !.tomb = FALSE, !.attached = FALSE]
                    = [led[p][u] EXCEPT !.tomb = FALSE, !.attached = FALSE]
              /\ led[p][u].tomb => led'[p][u].tomb
<1>1. LedgerInv /\ [Next]_vars => Same
  <2> SUFFICES ASSUME LedgerInv, [Next]_vars, NEW p \in Pools, NEW u \in DOMAIN led[p]
               PROVE  /\ u \in DOMAIN led'[p]
                      /\ Plain(led'[p][u]) = Plain(led[p][u])
                      /\ led[p][u].tomb => led'[p][u].tomb
    BY Zenon DEF Plain
  <2>1. IsLedger(led[p]) /\ LedgerStep(led[p], led'[p])
    BY LedgerInvStep, EveryLedgerSteps DEF LedgerInv
  <2> QED BY <2>1, LedgerStepKeeps
<1>2. LedgerInv /\ [Next]_vars => [Same]_vars
  BY Zenon, <1>1
<1> QED BY <1>2, LedgerInvInit, LedgerInvStep, PTL DEF Spec, LeasePermanent


-----------------------------------------------------------------------------
(* The ledgers of all GatewayPools together implement LeaseLedger: an owner*)
(* is a pool and a route, a slot is a pool, a shard and a port.            *)

(* A Grant is a step of LeaseLedger.                                       *)
LEMMA GrantNext ==
    ASSUME NEW o \in Owners, NEW s \in PoolSlots, LL!Grant(o, s)
    PROVE  LL!LedgerNext
BY DEF LL!LedgerNext

(* A lease that a pass saves is a Grant.                                   *)
LEMMA PoolGrantRefines ==
    ASSUME NEW p \in Pools, WriteShape(p), NEW u \in Routes,
           Grants(led[p], led'[p], u)
    PROVE  LL!LedgerNext
<1>1. PICK A, B : A = led[p] /\ B = led'[p]
  OBVIOUS
<1> DEFINE o == <<p, u>>
           s == <<p, Slot(B[u])>>
           L == [x \in Granted |-> <<x[1], <<led[x[1]][x[2]].shard,
                                             led[x[1]][x[2]].port>>>>]
           R == {x \in Granted : led[x[1]][x[2]].tomb}
<1>2. Grants(A, B, u)
  BY <1>1
<1>3. /\ DOMAIN B = DOMAIN A \cup {u} /\ u \notin DOMAIN A
      /\ \A v \in DOMAIN A : B[v] = A[v]
      /\ \A v \in DOMAIN A : Slot(A[v]) # Slot(B[u])
      /\ Slot(B[u]) \in Slots /\ ~B[u].tomb
  BY Zenon, <1>2, GrantAdds
<1>4. /\ DOMAIN led'[p] = DOMAIN led[p] \cup {u} /\ u \notin DOMAIN led[p]
      /\ \A v \in DOMAIN led[p] : led'[p][v] = led[p][v]
      /\ \A v \in DOMAIN led[p] : Slot(led[p][v]) # Slot(B[u])
      /\ Slot(B[u]) \in Slots /\ ~led'[p][u].tomb /\ led'[p][u] = B[u]
  BY Zenon, <1>1, <1>3
<1>5. \A q \in Pools \ {p} : led'[q] = led[q]
  BY Zenon DEF WriteShape
<1>6. o \in Owners /\ s \in PoolSlots
  BY Zenon, <1>4 DEF Owners, PoolSlots
<1>7. \A x \in Owners : x = <<x[1], x[2]>> /\ x[1] \in Pools /\ x[2] \in Routes
  BY DEF Owners
<1>8. \A x \in Granted : x \in Owners /\ x[2] \in DOMAIN led[x[1]]
  BY DEF Granted
<1>9. Granted' = Granted \cup {o}
  BY <1>4, <1>5, <1>6, <1>7 DEF Granted
<1>10. o \notin Granted
  BY Zenon, <1>4 DEF Granted
<1>11. \A x \in Granted : led'[x[1]][x[2]] = led[x[1]][x[2]]
  BY <1>4, <1>5, <1>7, <1>8
<1>12. \A x \in DOMAIN L : L[x] # s
  BY Zenon, <1>4, <1>7, <1>8 DEF Slot
<1>13. L' = [x \in DOMAIN L \cup {o} |-> IF x = o THEN s ELSE L[x]]
  BY <1>4, <1>9, <1>10, <1>11 DEF Slot
<1>14. R' = R
  BY <1>4, <1>9, <1>10, <1>11
<1>15. LL!Grant(o, s)
  BY Zenon, <1>10, <1>12, <1>13, <1>14 DEF LL!Grant
<1> QED BY Zenon, <1>6, <1>15, GrantNext

(* A switched flag is a Retire or a stutter.                               *)
LEMMA PoolFlagRefines ==
    ASSUME LedgerInv, NEW p \in Pools, WriteShape(p), NEW u \in DOMAIN led[p],
           Retires(led[p], led'[p], u) \/ Attaches(led[p], led'[p], u)
    PROVE  [LL!LedgerNext]_(LL!ledgerVars)
<1> DEFINE o == <<p, u>>
           L == [x \in Granted |-> <<x[1], <<led[x[1]][x[2]].shard,
                                             led[x[1]][x[2]].port>>>>]
           R == {x \in Granted : led[x[1]][x[2]].tomb}
<1>1. /\ DOMAIN led'[p] = DOMAIN led[p]
      /\ \A v \in DOMAIN led[p] : /\ led'[p][v].shard = led[p][v].shard
                                  /\ led'[p][v].port = led[p][v].port
  BY ZenonT(30), FlagKeeps DEF LedgerInv
<1>2. \A q \in Pools \ {p} : led'[q] = led[q]
  BY DEF WriteShape
<1>3. \A x \in Granted : x = <<x[1], x[2]>> /\ x[1] \in Pools /\ x[2] \in DOMAIN led[x[1]]
  BY DEF Granted, Owners
<1>4. Granted' = Granted
  BY <1>1, <1>2 DEF Granted, Owners
<1>5. L' = L
  BY <1>1, <1>2, <1>3, <1>4
<1>6. IsLedger(led[p]) /\ u \in Routes
  BY Zenon DEF LedgerInv, IsLedger
<1>7. CASE Retires(led[p], led'[p], u)
  <2>1. /\ ~led[p][u].tomb /\ led'[p][u].tomb
        /\ \A v \in DOMAIN led[p] \ {u} : led'[p][v] = led[p][v]
    BY <1>6, <1>7 DEF Retires, IsLedger, IsLease
  <2>2. o \in Granted
    BY <1>6 DEF Granted, Owners
  <2>3. \A x \in Granted \ {o} : led'[x[1]][x[2]] = led[x[1]][x[2]]
    BY <1>2, <1>3, <2>1
  <2>4. R' = R \cup {o} /\ o \notin R
    BY <1>4, <2>1, <2>2, <2>3
  <2>5. LL!Retire(o)
    BY Zenon, <1>5, <2>2, <2>4 DEF LL!Retire
  <2>6. o \in Owners
    BY Zenon, <2>2 DEF Granted
  <2> QED BY Zenon, <2>5, <2>6 DEF LL!LedgerNext
<1>8. CASE Attaches(led[p], led'[p], u)
  <2>1. \A v \in DOMAIN led[p] : led'[p][v].tomb = led[p][v].tomb
    BY <1>6, <1>8 DEF Attaches, IsLedger, IsLease
  <2>2. R' = R
    BY <1>2, <1>3, <1>4, <2>1
  <2> QED BY Zenon, <1>5, <2>2 DEF LL!ledgerVars
<1> QED BY <1>7, <1>8

(* The ledgers of the allocator keep the promise of LeaseLedger for every  *)
(* pool, route and replica: reserve grants, the loop over vanished routes  *)
(* retires, and nothing else happens to a saved lease.                     *)
THEOREM PoolRefinement == Spec => ImplementsLedger
<1>1. Init => LL!LedgerInit
  <2>1. Init => Granted = {}
    BY DEF Init, NoLeases, Granted, Owners
  <2> QED BY Zenon, <2>1 DEF LL!LedgerInit
<1>2. LedgerInv /\ [Next]_vars => [LL!LedgerNext]_(LL!ledgerVars)
  <2> SUFFICES ASSUME LedgerInv, [Next]_vars
               PROVE  [LL!LedgerNext]_(LL!ledgerVars)
    OBVIOUS
  <2>1. Shape
    BY LedgerInvStep
  <2>2. CASE led' = led
    BY Zenon, <2>2 DEF LL!ledgerVars, Granted
  <2>3. ASSUME NEW p \in Pools, WriteShape(p) PROVE [LL!LedgerNext]_(LL!ledgerVars)
    <3>1. CASE led'[p] = led[p]
      <4>1. \A q \in Pools : led'[q] = led[q]
        BY <2>3, <3>1 DEF WriteShape
      <4>2. Granted' = Granted /\ \A x \in Granted : led'[x[1]] = led[x[1]]
        BY <4>1 DEF Granted, Owners
      <4> QED BY Zenon, <4>2 DEF LL!ledgerVars
    <3>2. CASE \E u \in Routes : Grants(led[p], led'[p], u)
      BY <2>3, <3>2, PoolGrantRefines
    <3>3. CASE \E u \in DOMAIN led[p] : Retires(led[p], led'[p], u)
                                           \/ Attaches(led[p], led'[p], u)
      BY Zenon, <2>3, <3>3, PoolFlagRefines
    <3> QED BY Zenon, <2>3, <3>1, <3>2, <3>3 DEF WriteShape, LedgerStep
  <2> QED BY <2>1, <2>2, <2>3 DEF Shape
<1> QED BY <1>1, <1>2, LedgerInvInit, LedgerInvStep, PTL
        DEF Spec, ImplementsLedger, LL!LedgerSpec

-----------------------------------------------------------------------------
(* Every lease of A is in B, on the same listener.                         *)
Older(A, B) == \A u \in DOMAIN A :
    u \in DOMAIN B /\ B[u].shard = A[u].shard /\ B[u].port = A[u].port

IsGate(g) == g \in [st : {g.st}, uid : {g.uid}, lst : {g.lst}]
IsRoute(t) == t \in [st : {t.st}, fin : {t.fin}, ann : {t.ann},
                     parent : {t.parent}, svc : {t.svc}]

CopyOlder(r) == /\ pc[r] \notin {"idle", "save"} => Older(my[r].a, led[my[r].p])
                /\ \A u \in Routes : IsRoute(my[r].rts[u])
GateDurable(p, k) ==
    /\ IsGate(gate[p][k])
    /\ \A l \in gate[p][k].lst : l[1] # Foreign =>
          /\ l[1] \in DOMAIN led[p]
          /\ led[p][l[1]].shard = k /\ led[p][l[1]].port = l[2]
RouteDurable(u) ==
    /\ IsRoute(route[u])
    /\ \A p \in Pools, k \in Shards :
          route[u].parent = <<p, k>> => u \in DOMAIN led[p] /\ led[p][u].shard = k
DurableInv ==
    /\ DOMAIN gate = Pools /\ \A p \in Pools : DOMAIN gate[p] = Shards
    /\ DOMAIN route = Routes
    /\ \A r \in Replicas : CopyOlder(r)
    /\ \A p \in Pools, k \in Shards : GateDurable(p, k)
    /\ \A u \in Routes : RouteDurable(u)

(* A ledger only grows.                                                    *)
LEMMA LedgerGrows ==
    ASSUME LedgerInv, Shape, NEW p \in Pools
    PROVE  Older(led[p], led'[p])
<1>1. PICK A, B : A = led[p] /\ B = led'[p]
  OBVIOUS
<1>2. IsLedger(A) /\ LedgerStep(A, B)
  BY <1>1, EveryLedgerSteps DEF LedgerInv
<1>3. Older(A, B)
  <2>1. CASE B = A
    BY <2>1 DEF Older
  <2>2. ASSUME NEW u \in Routes, Grants(A, B, u) PROVE Older(A, B)
    <3>1. DOMAIN B = DOMAIN A \cup {u} /\ \A v \in DOMAIN A : B[v] = A[v]
      BY Zenon, <2>2, GrantAdds
    <3> QED BY <3>1 DEF Older
  <2>3. CASE \E u \in DOMAIN A : Retires(A, B, u) \/ Attaches(A, B, u)
    BY ZenonT(30), <1>2, <2>3, FlagKeeps DEF Older
  <2> QED BY <1>2, <2>1, <2>2, <2>3 DEF LedgerStep
<1> QED BY <1>1, <1>3

(* So a copy stays a part of it.                                           *)
LEMMA CopyOlderStep ==
    ASSUME LedgerInv, Shape, DurableInv, NEW q \in Replicas
    PROVE  CopyOlder(q)'
<1>1. CopyShape(q) /\ CopyOlder(q)
  BY DEF Shape, DurableInv
<1>2. \A u \in Routes : IsRoute(my'[q].rts[u])
  <2>1. \A u \in Routes : IsRoute(my[q].rts[u]) /\ IsRoute(route[u])
    BY Zenon, <1>1 DEF DurableInv, RouteDurable, CopyOlder
  <2>2. \A u \in Routes : IsRoute(Unborn[u])
    BY Zenon DEF IsRoute, Unborn
  <2> QED BY <1>1, <2>1, <2>2 DEF CopyShape
<1>3. ASSUME pc'[q] \notin {"idle", "save"}
      PROVE  Older(my'[q].a, led'[my'[q].p])
  <2>1. CASE Reads(q)
    BY Zenon, <2>1 DEF Reads, Older
  <2>2. CASE Works(q)
    <3>1. /\ my'[q].p = my[q].p /\ my'[q].a = my[q].a
          /\ pc[q] \notin {"idle", "save"} /\ my[q].p \in Pools
      BY Zenon, <1>3, <2>2 DEF Works, LedgerInv, Ctl
    <3>2. Older(my[q].a, led[my[q].p]) /\ Older(led[my[q].p], led'[my[q].p])
      BY Zenon, <1>1, <3>1, LedgerGrows DEF CopyOlder
    <3> QED BY ZenonT(30), <3>1, <3>2 DEF Older
  <2> QED BY Zenon, <1>1, <1>3, <2>1, <2>2 DEF CopyShape
<1> QED BY Zenon, <1>2, <1>3 DEF CopyOlder

-----------------------------------------------------------------------------
(* What a step may do to a Gateway and to a route.                         *)

GateShape(p, k) ==
    /\ IsGate(gate'[p][k])
    /\ gate'[p][k].lst \subseteq gate[p][k].lst \cup {<<Foreign, PortStart>>}
                                   \cup Listeners(led[p], LeasesOn(led[p], k))
RouteShape(u) ==
    /\ IsRoute(route'[u])
    /\ \/ route'[u].parent \in {route[u].parent, NoParent, OtherParent}
       \/ \E p \in Pools : u \in DOMAIN led[p]
                              /\ route'[u].parent = <<p, led[p][u].shard>>
GateShapes == /\ DOMAIN gate' = Pools
              /\ \A p \in Pools : DOMAIN gate'[p] = Shards
              /\ \A p \in Pools, k \in Shards : GateShape(p, k)
RouteShapes == DOMAIN route' = Routes /\ \A u \in Routes : RouteShape(u)

(* A listener that satisfies GateShape is durable.                         *)
LEMMA GateDurableStep ==
    ASSUME LedgerInv, Shape, DurableInv, NEW p \in Pools, NEW k \in Shards,
           GateShape(p, k)
    PROVE  GateDurable(p, k)'
<1>1. Older(led[p], led'[p]) /\ GateDurable(p, k)
  BY Zenon, LedgerGrows DEF DurableInv
<1>2. ASSUME NEW l \in gate'[p][k].lst, l[1] # Foreign
      PROVE  /\ l[1] \in DOMAIN led[p]
             /\ led[p][l[1]].shard = k /\ led[p][l[1]].port = l[2]
  <2>1. CASE l \in gate[p][k].lst
    BY Zenon, <1>1, <1>2, <2>1 DEF GateDurable
  <2>2. CASE l \in Listeners(led[p], LeasesOn(led[p], k))
    BY <2>2 DEF Listeners, LeasesOn
  <2>3. CASE l = <<Foreign, PortStart>>
    BY <1>2, <2>3
  <2> QED BY Zenon, <1>2, <2>1, <2>2, <2>3 DEF GateShape
<1> QED BY Zenon, <1>1, <1>2 DEF GateDurable, GateShape, Older

(* A parent that satisfies RouteShape is durable.                          *)
LEMMA RouteDurableStep ==
    ASSUME LedgerInv, Shape, DurableInv, NEW u \in Routes, RouteShape(u)
    PROVE  RouteDurable(u)'
<1> SUFFICES ASSUME NEW p \in Pools, NEW k \in Shards, route'[u].parent = <<p, k>>
             PROVE  u \in DOMAIN led'[p] /\ led'[p][u].shard = k
  BY Zenon DEF RouteDurable, RouteShape
<1>1. Older(led[p], led'[p]) /\ RouteDurable(u)
  BY Zenon, LedgerGrows DEF DurableInv
<1>2. p # 0
  BY GatewayPoolValid
<1>3. <<p, k>> # NoParent /\ <<p, k>> # OtherParent
  BY <1>2 DEF NoParent, OtherParent
<1>4. u \in DOMAIN led[p] /\ led[p][u].shard = k
  <2>1. CASE route[u].parent = <<p, k>>
    BY Zenon, <1>1, <2>1 DEF RouteDurable
  <2>2. CASE \E q \in Pools : u \in DOMAIN led[q] /\ <<p, k>> = <<q, led[q][u].shard>>
    BY Zenon, <2>2
  <2> QED BY Zenon, <1>3, <2>1, <2>2 DEF RouteShape
<1> QED BY Zenon, <1>1, <1>4 DEF Older

-----------------------------------------------------------------------------
(* Every action has these shapes.                                          *)

(* Steps that leave the Gateways, or the routes, alone.                    *)
LEMMA SameGates ==
    ASSUME DurableInv, UNCHANGED gate PROVE GateShapes
BY Zenon DEF DurableInv, GateDurable, GateShapes, GateShape

(* A step that leaves the routes alone keeps their shape.                  *)
LEMMA SameRoutes ==
    ASSUME DurableInv, UNCHANGED route PROVE RouteShapes
BY Zenon DEF DurableInv, RouteDurable, RouteShapes, RouteShape

(* One Gateway is written.                                                 *)
LEMMA GateWritten ==
    ASSUME DurableInv, NEW p \in Pools, NEW k \in Shards, NEW g, IsGate(g),
           gate' = [gate EXCEPT ![p][k] = g],
           g.lst \subseteq gate[p][k].lst \cup {<<Foreign, PortStart>>}
                                 \cup Listeners(led[p], LeasesOn(led[p], k))
    PROVE  GateShapes
<1>1. /\ DOMAIN gate' = Pools /\ \A q \in Pools : DOMAIN gate'[q] = Shards
      /\ gate'[p][k] = g
      /\ \A q \in Pools, j \in Shards : <<q, j>> # <<p, k>> => gate'[q][j] = gate[q][j]
  BY DEF DurableInv
<1>2. ASSUME NEW q \in Pools, NEW j \in Shards PROVE GateShape(q, j)
  <2>1. CASE <<q, j>> = <<p, k>>
    BY <1>1, <2>1 DEF GateShape
  <2>2. CASE <<q, j>> # <<p, k>>
    <3>1. gate'[q][j] = gate[q][j] /\ IsGate(gate[q][j])
      BY Zenon, <1>1, <2>2 DEF DurableInv, GateDurable
    <3> QED BY <3>1 DEF GateShape
  <2> QED BY <2>1, <2>2
<1> QED BY <1>1, <1>2 DEF GateShapes

(* One route is written.                                                   *)
LEMMA RouteWritten ==
    ASSUME DurableInv, NEW u \in Routes, NEW t, IsRoute(t),
           route' = [route EXCEPT ![u] = t],
           \/ t.parent \in {route[u].parent, NoParent, OtherParent}
           \/ \E p \in Pools : u \in DOMAIN led[p] /\ t.parent = <<p, led[p][u].shard>>
    PROVE  RouteShapes
<1>1. /\ DOMAIN route' = Routes /\ route'[u] = t
      /\ \A v \in Routes \ {u} : route'[v] = route[v]
  BY Zenon DEF DurableInv
<1>2. RouteShape(u)
  BY <1>1 DEF RouteShape
<1>3. ASSUME NEW v \in Routes \ {u} PROVE RouteShape(v)
  BY <1>1 DEF RouteShape, DurableInv, RouteDurable
<1> QED BY Zenon, <1>1, <1>2, <1>3 DEF RouteShapes

(* What a copy asks of a Gateway is in the ledger.                         *)
LEMMA DesiredIsDurable ==
    ASSUME NEW A, NEW B, Older(A, B), NEW k
    PROVE  desiredGateway(A, k) \subseteq Listeners(B, LeasesOn(B, k))
<1>1. desiredGateway(A, k) \subseteq Listeners(A, LeasesOn(A, k))
  BY Zenon DEF desiredGateway, Listeners
<1>2. Listeners(A, LeasesOn(A, k)) \subseteq Listeners(B, LeasesOn(B, k))
  BY DEF Older, Listeners, LeasesOn
<1> QED BY <1>1, <1>2

(* A pass creates or updates a Gateway from its copy.                      *)
LEMMA PassGate ==
    ASSUME LedgerInv, DurableInv, NEW r \in Replicas, NEW k \in Shards,
           CreateGateway(r, k) \/ UpdateGateway(r, k)
    PROVE  GateShapes
<1> DEFINE p == my[r].p
           d == desiredGateway(my[r].a, k)
<1>1. pc[r] = "gateways" /\ p \in Pools
  BY DEF CreateGateway, UpdateGateway, AtGateway, LedgerInv, Ctl
<1>2. d \subseteq Listeners(led[p], LeasesOn(led[p], k))
  BY Zenon, <1>1, DesiredIsDurable DEF DurableInv, CopyOlder
<1>3. IsGate(gate[p][k])
  BY Zenon, <1>1 DEF DurableInv, GateDurable
<1>4. CASE CreateGateway(r, k)
  <2>1. gate' = [gate EXCEPT ![p][k] = [st |-> "live", uid |-> gate[p][k].uid + 1,
                                        lst |-> d]]
    BY Zenon, <1>4 DEF CreateGateway
  <2> HIDE DEF d, p
  <2>2. IsGate([st |-> "live", uid |-> gate[p][k].uid + 1, lst |-> d])
    BY DEF IsGate
  <2> QED BY Zenon, <1>1, <1>2, <2>1, <2>2, GateWritten
<1>5. CASE UpdateGateway(r, k)
  <2>1. gate' = [gate EXCEPT ![p][k] = [gate[p][k] EXCEPT !.lst = d]]
    BY <1>5 DEF UpdateGateway
  <2> HIDE DEF d, p
  <2>2. IsGate([gate[p][k] EXCEPT !.lst = d]) /\ [gate[p][k] EXCEPT !.lst = d].lst = d
    BY <1>3 DEF IsGate
  <2> QED BY Zenon, <1>1, <1>2, <2>1, <2>2, GateWritten
<1> QED BY <1>4, <1>5

(* A change of state leaves the listeners alone.                           *)
LEMMA GateStateWritten ==
    ASSUME DurableInv, NEW p \in Pools, NEW k \in Shards, NEW x,
           gate' = [gate EXCEPT ![p][k].st = x]
    PROVE  GateShapes
<1>1. IsGate(gate[p][k])
  BY DEF DurableInv, GateDurable
<1> DEFINE g == [gate[p][k] EXCEPT !.st = x]
<1>2. IsGate(g) /\ g.lst = gate[p][k].lst
  BY <1>1 DEF IsGate
<1>3. gate' = [gate EXCEPT ![p][k] = g]
  OBVIOUS
<1> HIDE DEF g
<1> QED BY Zenon, <1>2, <1>3, GateWritten

(* Deletions by the pass and by its environment.                           *)
LEMMA GateDeleted ==
    ASSUME LedgerInv, DurableInv, NEW k \in Shards,
           \/ \E r \in Replicas : DeleteGateway(r, k)
           \/ \E p \in Pools : CollectGateway(p, k) \/ FinishGateway(p, k)
    PROVE  GateShapes
<1>1. ASSUME NEW r \in Replicas, DeleteGateway(r, k) PROVE GateShapes
  <2>1. my[r].p \in Pools
    BY Zenon, <1>1 DEF DeleteGateway, LedgerInv, Ctl
  <2>2. gate' = gate \/ gate' = [gate EXCEPT ![my[r].p][k].st = "deleting"]
    BY Zenon, <1>1 DEF DeleteGateway
  <2> QED BY <2>1, <2>2, SameGates, GateStateWritten
<1>2. ASSUME NEW p \in Pools, CollectGateway(p, k) \/ FinishGateway(p, k)
      PROVE  GateShapes
  BY <1>2, GateStateWritten DEF CollectGateway, FinishGateway
<1> QED BY <1>1, <1>2

(* Users edit the listeners of a Gateway, or restore one from a backup.    *)
LEMMA GateEdited ==
    ASSUME DurableInv, NEW p \in Pools, NEW k \in Shards,
           GatewayEvent(p, k) \/ RestoreGateway(p, k)
    PROVE  GateShapes
<1>1. IsGate(gate[p][k])
  BY DEF DurableInv, GateDurable
<1>2. CASE gate' = [gate EXCEPT ![p][k].st = "deleting"]
  BY Zenon, <1>2, GateStateWritten
<1>3. ASSUME NEW L, gate' = [gate EXCEPT ![p][k].lst = L],
             L \subseteq gate[p][k].lst \cup {<<Foreign, PortStart>>}
      PROVE  GateShapes
  <2> DEFINE g == [gate[p][k] EXCEPT !.lst = L]
  <2>1. IsGate(g) /\ g.lst = L /\ gate' = [gate EXCEPT ![p][k] = g]
    BY <1>1, <1>3 DEF IsGate
  <2> HIDE DEF g
  <2> QED BY Zenon, <1>3, <2>1, GateWritten
<1>4. CASE RestoreGateway(p, k)
  <2> DEFINE g == [gate[p][k] EXCEPT !.st = "live", !.uid = gate[p][k].uid + 1]
  <2>1. gate' = [gate EXCEPT ![p][k] = g]
    BY Zenon, <1>1, <1>4 DEF RestoreGateway, DurableInv, IsGate
  <2>2. IsGate(g) /\ g.lst = gate[p][k].lst
    BY Zenon, <1>1 DEF IsGate
  <2> HIDE DEF g
  <2> QED BY Zenon, <2>1, <2>2, GateWritten
<1>5. CASE GatewayEvent(p, k)
  <2>1. \/ gate' = [gate EXCEPT ![p][k].st = "deleting"]
        \/ \E l : gate' = [gate EXCEPT ![p][k].lst = gate[p][k].lst \ {l}]
        \/ gate' = [gate EXCEPT ![p][k].lst =
                       gate[p][k].lst \cup {<<Foreign, PortStart>>}]
    BY Zenon, <1>5 DEF GatewayEvent
  <2> QED BY <1>2, <1>3, <2>1
<1> QED BY <1>4, <1>5

(* A pass attaches the route as it was listed to a lease of its copy.      *)
LEMMA RouteAttached ==
    ASSUME LedgerInv, DurableInv, NEW r \in Replicas, NEW u \in Routes, AttachRoute(r, u)
    PROVE  RouteShapes
<1>1. CASE UNCHANGED routeVars
  BY <1>1, SameRoutes DEF routeVars
<1>2. CASE ~UNCHANGED routeVars
  <2> DEFINE p == my[r].p
             t == [my[r].rts[u] EXCEPT !.parent = <<p, my[r].a[u].shard>>, !.fin = TRUE]
  <2>1. route' = [route EXCEPT ![u] = t]
    BY Zenon, <1>2 DEF AttachRoute, WriteRoute
  <2>2. p \in Pools /\ u \in DOMAIN my[r].a /\ pc[r] = "gateways"
    BY DEF AttachRoute, AtAttach, Unattached, LedgerInv, Ctl
  <2>3. u \in DOMAIN led[p] /\ led[p][u].shard = my[r].a[u].shard
    BY Zenon, <2>2 DEF DurableInv, CopyOlder, Older
  <2>4. IsRoute(my[r].rts[u])
    BY Zenon DEF DurableInv, CopyOlder
  <2>5. IsRoute(t) /\ t.parent = <<p, my[r].a[u].shard>>
    BY Zenon, <2>4 DEF IsRoute
  <2> HIDE DEF t, p
  <2> QED BY Zenon, <2>1, <2>2, <2>3, <2>5, RouteWritten
<1> QED BY <1>1, <1>2

(* Users and the adapter write a route; of its parent only EditParent does.*)
LEMMA RouteEdited ==
    ASSUME DurableInv, NEW u \in Routes,
           \/ CreateRoute(u) \/ DeleteRoute(u) \/ Reannotate(u) \/ Retarget(u)
           \/ AdapterHold(u) \/ ReleaseRoute(u)
    PROVE  RouteShapes
<1>1. IsRoute(route[u])
  BY Zenon DEF DurableInv, RouteDurable
<1>2. \E t : /\ route' = [route EXCEPT ![u] = t] /\ IsRoute(t)
            /\ t.parent = route[u].parent
  <2>1. CASE CreateRoute(u)
    <3>1. \E n : route' = [route EXCEPT ![u] =
                             [route[u] EXCEPT !.st = "live", !.ann = n]]
      BY Zenon, <2>1 DEF CreateRoute, WriteRoute
    <3> QED BY Zenon, <1>1, <3>1 DEF IsRoute
  <2>2. CASE DeleteRoute(u)
    <3>1. \E x : route' = [route EXCEPT ![u] = [route[u] EXCEPT !.st = x]]
      BY Zenon, <2>2 DEF DeleteRoute, WriteRoute, Deleted
    <3> QED BY Zenon, <1>1, <3>1 DEF IsRoute
  <2>3. CASE Reannotate(u)
    <3>1. \E n : route' = [route EXCEPT ![u] = [route[u] EXCEPT !.ann = n]]
      BY Zenon, <2>3 DEF Reannotate, WriteRoute
    <3> QED BY Zenon, <1>1, <3>1 DEF IsRoute
  <2>4. CASE Retarget(u)
    <3>1. \E s : route' = [route EXCEPT ![u] = [route[u] EXCEPT !.svc = s]]
      BY Zenon, <2>4 DEF Retarget, WriteRoute
    <3> QED BY Zenon, <1>1, <3>1 DEF IsRoute
  <2>5. CASE AdapterHold(u)
    <3>1. \E x : route' = [route EXCEPT ![u] = [route[u] EXCEPT !.fin = x]]
      BY Zenon, <2>5 DEF AdapterHold, WriteRoute
    <3> QED BY Zenon, <1>1, <3>1 DEF IsRoute
  <2>6. CASE ReleaseRoute(u)
    <3>1. \E x, y : route' = [route EXCEPT ![u] =
                                [route[u] EXCEPT !.st = x, !.fin = y]]
      BY Zenon, <2>6 DEF ReleaseRoute, WriteRoute
    <3> QED BY Zenon, <1>1, <3>1 DEF IsRoute
  <2> QED BY <2>1, <2>2, <2>3, <2>4, <2>5, <2>6
<1> QED BY Zenon, <1>2, RouteWritten

(* What a user may write is no listener, another one, or that of a lease.  *)
LEMMA ParentEdited ==
    ASSUME DurableInv, NEW u \in Routes, EditParent(u)
    PROVE  RouteShapes
<1>1. PICK x : /\ \/ x \in {NoParent, OtherParent}
                  \/ \E p \in Pools : u \in DOMAIN led[p] /\ x = <<p, led[p][u].shard>>
               /\ route' = [route EXCEPT ![u] = [route[u] EXCEPT !.parent = x]]
  BY Zenon DEF EditParent, WriteRoute
<1>2. IsRoute(route[u])
  BY Zenon DEF DurableInv, RouteDurable
<1> DEFINE t == [route[u] EXCEPT !.parent = x]
<1>3. IsRoute(t) /\ t.parent = x
  BY <1>2 DEF IsRoute
<1> HIDE DEF t
<1> QED BY Zenon, <1>1, <1>3, RouteWritten DEF t

(* Steps of a pass that write neither a Gateway nor a route.               *)
LEMMA PassElsewhere ==
    ASSUME NEW r \in Replicas,
           \/ save(r) \/ ListRoutes(r) \/ ListPools(r) \/ RetireLease(r)
           \/ EndScan(r) \/ FinishPass(r) \/ CreateArchive(r) \/ CompareArchive(r)
           \/ ReleasePool(r) \/ Abort(r) \/ ChangeLeader(r)
           \/ \E u \in Routes : \/ KeepRoute(r, u) \/ RecordAttached(r, u)
                                \/ Reserve(r, u) \/ ReserveRefused(r, u)
           \/ \E k \in Shards : \/ GatewayRefused(r, k) \/ RecordGateway(r, k)
                                \/ NextGateway(r, k)
           \/ \E p \in Pools : Begin(r, p)
    PROVE  UNCHANGED gate /\ UNCHANGED route
<1>1. CASE \/ save(r) \/ ListRoutes(r) \/ ListPools(r) \/ RetireLease(r)
           \/ EndScan(r) \/ FinishPass(r) \/ CreateArchive(r) \/ CompareArchive(r)
           \/ ReleasePool(r) \/ Abort(r) \/ ChangeLeader(r)
  BY Zenon, <1>1 DEF save, ListRoutes, ListPools, RetireLease, EndScan, FinishPass,
        CreateArchive, CompareArchive, ReleasePool, Abort, ChangeLeader, routeVars
<1>2. CASE \E u \in Routes : \/ KeepRoute(r, u) \/ RecordAttached(r, u)
                            \/ Reserve(r, u) \/ ReserveRefused(r, u)
  BY Zenon, <1>2 DEF KeepRoute, RecordAttached, Reserve, ReserveRefused, routeVars
<1>3. CASE \E k \in Shards : \/ GatewayRefused(r, k) \/ RecordGateway(r, k)
                            \/ NextGateway(r, k)
  BY Zenon, <1>3 DEF GatewayRefused, RecordGateway, NextGateway, routeVars
<1>4. CASE \E p \in Pools : Begin(r, p)
  BY Zenon, <1>4 DEF Begin, AddPoolFinalizer, FreezeSpec, StartPass, routeVars
<1> QED BY Zenon, <1>1, <1>2, <1>3, <1>4

(* Every step has the shapes.                                              *)
LEMMA StepShapes ==
    ASSUME LedgerInv, DurableInv, [Next]_vars
    PROVE  GateShapes /\ RouteShapes
<1>1. CASE UNCHANGED gate /\ UNCHANGED route
  BY Zenon, <1>1, SameGates, SameRoutes
<1>2. ASSUME NEW r \in Replicas, Continue(r) \/ Abort(r) \/ ChangeLeader(r)
                                   \/ \E p \in Pools : Begin(r, p)
      PROVE  GateShapes /\ RouteShapes
  <2>1. CASE \E u \in Routes : AttachRoute(r, u)
    <3>1. UNCHANGED gate
      BY Zenon, <2>1 DEF AttachRoute
    <3> QED BY Zenon, <2>1, <3>1, SameGates, RouteAttached
  <2>2. CASE \E k \in Shards : CreateGateway(r, k) \/ UpdateGateway(r, k)
    <3>1. UNCHANGED route
      BY Zenon, <2>2 DEF CreateGateway, UpdateGateway, routeVars
    <3> QED BY <2>2, <3>1, SameRoutes, PassGate
  <2>3. CASE \E k \in Shards : DeleteGateway(r, k)
    <3>1. UNCHANGED route
      BY Zenon, <2>3 DEF DeleteGateway, routeVars
    <3> QED BY <2>3, <3>1, SameRoutes, GateDeleted
  <2> QED BY Zenon, <1>1, <1>2, <2>1, <2>2, <2>3, PassElsewhere DEF Continue
<1>3. ASSUME NEW p \in Pools, NEW k \in Shards,
             \/ GatewayEvent(p, k) \/ RestoreGateway(p, k)
             \/ CollectGateway(p, k) \/ FinishGateway(p, k)
      PROVE  GateShapes /\ RouteShapes
  <2>1. UNCHANGED route
    BY Zenon, <1>3 DEF GatewayEvent, RestoreGateway, CollectGateway, FinishGateway,
                       routeVars
  <2> QED BY Zenon, <1>3, <2>1, SameRoutes, GateEdited, GateDeleted
<1>4. ASSUME NEW u \in Routes,
             \/ CreateRoute(u) \/ DeleteRoute(u) \/ Reannotate(u) \/ Retarget(u)
             \/ EditParent(u) \/ AdapterHold(u) \/ ReleaseRoute(u)
      PROVE  GateShapes /\ RouteShapes
  <2>1. UNCHANGED gate
    BY Zenon, <1>4 DEF CreateRoute, DeleteRoute, Reannotate, Retarget, EditParent,
                       AdapterHold, ReleaseRoute
  <2> QED BY Zenon, <1>4, <2>1, SameGates, RouteEdited, ParentEdited
<1>5. CASE \/ \E p \in Pools : CreatePool(p) \/ DeletePool(p) \/ EditSpec(p)
           \/ \E s \in Services : ServiceEvent(s)
  BY Zenon, <1>1, <1>5 DEF CreatePool, DeletePool, EditSpec, ServiceEvent, routeVars
<1>6. CASE UNCHANGED vars
  BY Zenon, <1>1, <1>6 DEF vars, routeVars
<1> QED BY Zenon, <1>2, <1>3, <1>4, <1>5, <1>6 DEF Next

(* DurableInv is inductive.                                                *)
LEMMA DurableInvInit == Init => DurableInv
<1> SUFFICES ASSUME Init PROVE DurableInv
  OBVIOUS
<1>1. \A u \in Routes : IsRoute(Unborn[u]) /\ Unborn[u].parent = NoParent
  BY Zenon DEF Unborn, IsRoute
<1>2. \A r \in Replicas : my[r].rts = Unborn /\ pc[r] = "idle"
  BY Zenon DEF Init, Blank
<1>3. \A r \in Replicas : CopyOlder(r)
  BY Zenon, <1>1, <1>2 DEF CopyOlder
<1>4. /\ DOMAIN gate = Pools /\ \A p \in Pools : DOMAIN gate[p] = Shards
      /\ \A p \in Pools, k \in Shards :
            gate[p][k] = [st |-> "none", uid |-> 0, lst |-> {}]
  BY Zenon DEF Init
<1>5. \A p \in Pools, k \in Shards : GateDurable(p, k)
  BY <1>4 DEF GateDurable, IsGate
<1>6. \A u \in Routes : RouteDurable(u)
  <2>1. \A p \in Pools, k \in Shards : <<p, k>> # NoParent
    BY DEF NoParent
  <2>2. route = Unborn
    BY DEF Init
  <2> QED BY Zenon, <1>1, <2>1, <2>2 DEF RouteDurable
<1>7. DOMAIN route = Routes
  BY Zenon DEF Init, Unborn
<1> QED BY Zenon, <1>3, <1>4, <1>5, <1>6, <1>7 DEF DurableInv

(* DurableInv is inductive.                                                *)
LEMMA DurableInvStep == LedgerInv /\ DurableInv /\ [Next]_vars => DurableInv'
<1> SUFFICES ASSUME LedgerInv, DurableInv, [Next]_vars PROVE DurableInv'
  OBVIOUS
<1>1. Shape /\ GateShapes /\ RouteShapes
  BY LedgerInvStep, StepShapes
<1> QED BY Zenon, <1>1, CopyOlderStep, GateDurableStep, RouteDurableStep
        DEF DurableInv, GateShapes, RouteShapes

(* A Gateway listens, and a route points at a listener, only for a lease   *)
(* that is saved: "durable BEFORE any Gateway or ParentRef mutation", for  *)
(* any number of replicas with copies of any age.                          *)
THEOREM DurableBeforeUse == Spec => []DurableFirst
<1>1. DurableInv => DurableFirst
  BY Zenon DEF DurableInv, GateDurable, RouteDurable, DurableFirst
<1> QED BY <1>1, LedgerInvInit, LedgerInvStep, DurableInvInit, DurableInvStep, PTL
        DEF Spec
=============================================================================
