------------------------ MODULE GatewayAdapterProofs ------------------------
(***************************************************************************)
(* Proofs about the Gateway adapter: the retired ledger is archived before *)
(* the pool is gone, a route outlives its binding, the Gateway outlives    *)
(* all it owns, a lost ledger is not replaced, and towards the NLBPool     *)
(* controller the adapter keeps to EngineContract.                         *)
(*                                                                         *)
(* A pass acts on what it read earlier.  The invariants say, for every     *)
(* place in a pass, how the world may have moved on since: ShapeInv what   *)
(* values there are, SealInv what is known of pool and archive while other *)
(* replicas may be at work, and LeaderInv what holds with one leader.      *)
(***************************************************************************)
EXTENDS GatewayAdapter, WellFoundedInduction, TLAPS

-----------------------------------------------------------------------------
(* The values.                                                             *)

States == {"unborn", "live", "deleting", "gone"}
IsGate(g) == g \in [st : {"live", "deleting", "gone"}, fin : BOOLEAN,
                    problem : {g.problem}, ann : BOOLEAN, cond : {g.cond}]
IsRoute(x) == x \in [st : States, fin : BOOLEAN,
                     to : Listeners \cup {Detached, Elsewhere, Unsupported},
                     svc : Services, cond : {x.cond}]
IsBinding(x) == x \in [st : States, fin : BOOLEAN, gen : Nat, cond : {x.cond},
                       og : {x.og}, spec : Specs]
IsPool(p) == p \in [st : {"none", "live", "deleting", "gone"}, fin : BOOLEAN,
                    guard : BOOLEAN, pending : BOOLEAN, shard : {"none", "id", "ip"}]
IsLedger(A) == /\ DOMAIN A \subseteq Bindings /\ A = [b \in DOMAIN A |-> A[b]]
               /\ \A b \in DOMAIN A : A[b] \in [port : {A[b].port}, tomb : BOOLEAN]
AreRoutes(R) == R = [u \in Routes |-> R[u]] /\ \A u \in Routes : IsRoute(R[u])
AreBindings(B) == B = [b \in Bindings |-> B[b]] /\ \A b \in Bindings : IsBinding(B[b])

IsCopy(m) == m \in [rts : {m.rts}, bs : {m.bs}, p : {m.p}, a : {m.a}, g : {m.g},
                    okay : {m.okay}, todo : {m.todo}, turn : {m.turn},
                    claimed : {m.claimed}, done : {m.done}, say : {m.say}]

(* What a replica holds at its place in the pass.                          *)
CopyShape(c, m) ==
    /\ IsCopy(m) /\ IsPool(m.p) /\ IsLedger(m.a) /\ IsGate(m.g)
    /\ c # "idle" => AreRoutes(m.rts)
    /\ c \notin {"idle", "bindings"} => AreBindings(m.bs)
    /\ c = "disable" => m.todo \subseteq Bindings
    /\ c = "reject" => m.todo \subseteq Routes
    /\ c \in {"loop", "status"} => m.todo \subseteq {u \in Routes : Targets(m.rts[u])}
    /\ c = "status" => m.turn \in Routes

ShapeInv ==
    /\ plan \in PlanSet
    /\ IsGate(gate) /\ AreRoutes(route)
    /\ IsPool(pool) /\ IsLedger(alloc) /\ AreBindings(bind)
    /\ leader \in Replicas
    /\ pc = [r \in Replicas |-> pc[r]] /\ my = [r \in Replicas |-> my[r]]
    /\ \A r \in Replicas : CopyShape(pc[r], my[r])

-----------------------------------------------------------------------------
(* The invariants.                                                         *)

Before == {"idle", "bindings", "pools", "cleanup", "gateway"}
Serving == {"pool", "annotate", "services", "loop", "status"}
Retiring == {"retire", "archive", "seal", "finish"}

(* A replica between its last look at the pool and its deletion: what it   *)
(* has seen is retired and guarded, and unless its copy is outdated it is  *)
(* the pool as it is.                                                      *)
SealCopy(r) ==
    pc[r] \in {"archive", "seal"} =>
        /\ Engine!Active(my[r].a) = {} /\ Exists(my[r].p)
        /\ my[r].p.st = "live" => my[r].p.guard
        /\ my[r].p.st = "deleting" => ~my[r].p.fin
        /\ r \notin stale => my[r].p = pool /\ my[r].a = alloc
        /\ pc[r] = "seal" => archive = Ledger(my[r])

(* A replica acts on a Gateway that was not deleted, or is still deleted.  *)
GateCopy(r) ==
    /\ pc[r] \in Serving => my[r].g.st = "live" /\ my[r].g.fin
    /\ pc[r] \in Retiring => my[r].g.st = "deleting"
    /\ pc[r] \notin Before => my[r].g.st \in {"live", "deleting"}
    /\ pc[r] \notin Before /\ my[r].g.st = "deleting" => gate.st # "live"
    /\ pc[r] = "pool" /\ plan.upgraded => my[r].g.ann

SealInv ==
    /\ \A r \in Replicas : SealCopy(r) /\ GateCopy(r)
    /\ Exists(pool) /\ ~plan.upgraded => pool.guard
    /\ pool.st = "none" => alloc = Engine!NoLeases
    /\ pool.st = "gone" /\ ~plan.upgraded => gate.st # "live"
    /\ plan.upgraded => gate.ann
    /\ ArchiveFaithful

(* A lease in use is that of a binding that waits for the controller.      *)
LeaseHeld == \A b \in Engine!Active(alloc) : Exists(bind[b]) /\ bind[b].fin

(* A copy of a route that is not outdated differs by the replica's own     *)
(* writes only, and a finalizer is on an object that exists.               *)
RouteInv ==
    /\ \A r \in Replicas, u \in Routes :
          pc[r] # "idle" /\ <<r, u>> \notin dirty => route[u].st = my[r].rts[u].st
    /\ \A u \in Routes : route[u].fin => Exists(route[u])
    /\ gate.st = "deleting" => gate.fin
    /\ gate.st = "gone" => ~gate.fin

Sole == "leader" \notin plan.kinds
NoBindings == \A b \in Bindings : ~Exists(bind[b])

(* With one leader: only its own pass creates objects, so that what it did *)
(* not find does not exist.                                                *)
SolePass(r) ==
    /\ r # leader => pc[r] = "idle"
    /\ pc[r] # "idle" => \A u \in Routes : my[r].rts[u].fin => route[u].fin
    /\ pc[r] \in {"pools", "cleanup", "gateway", "disable", "reject"} \cup Retiring =>
          \A b \in Bindings : Exists(bind[b]) => Exists(my[r].bs[b])
    /\ pc[r] \in Serving => gate.fin
    /\ pc[r] = "pool" /\ pool.st = "gone" => my[r].g.ann
    /\ pc[r] = "finish" => Absent(pool) /\ NoBindings

LeaderInv ==
    Sole => /\ \A r \in Replicas : SolePass(r)
            /\ \A b \in Bindings : Exists(bind[b]) => route[b[1]].fin
            /\ ~gate.fin => Absent(pool) /\ NoBindings

AdapterInv == ShapeInv /\ SealInv /\ LeaseHeld /\ RouteInv /\ LeaderInv

-----------------------------------------------------------------------------
(* The control of a pass: from the place w with the copy n to the place c  *)
(* with the copy m.                                                        *)

Same(n, m) == /\ IsCopy(m) /\ m.rts = n.rts /\ m.bs = n.bs
              /\ m.p = n.p /\ m.a = n.a /\ m.g = n.g
SameBut(n, m) == IsCopy(m) /\ m.rts = n.rts /\ m.bs = n.bs

Onward == {<<"cleanup", "gateway">>, <<"disable", "disable">>, <<"disable", "reject">>,
           <<"reject", "reject">>, <<"pool", "report">>, <<"services", "loop">>,
           <<"loop", "loop">>, <<"loop", "status">>, <<"loop", "report">>,
           <<"status", "loop">>}

Ends(c, m) == c = "idle" /\ m = Blank
Starts(w, c, m) ==
    /\ w = "idle" /\ c = "bindings" /\ m = [Blank EXCEPT !.rts = route]
    /\ UNCHANGED route
ReadsBindings(w, n, c, m) ==
    /\ w = "bindings" /\ c = "pools" /\ m = [n EXCEPT !.bs = bind]
    /\ UNCHANGED bind
ReadsPool(w, n, c, m) ==
    w = "pools" /\ c = "cleanup" /\ SameBut(n, m) /\ m.p = pool /\ m.a = alloc /\ m.g = n.g
ReadsGate(w, n, c, m) ==
    /\ w = "gateway" /\ SameBut(n, m) /\ m.p = n.p /\ m.a = n.a /\ m.g = gate
    /\ UNCHANGED gate
    /\ \/ c = "reject" /\ gate.st = "deleting"
       \/ c = "disable" /\ gate.st = "live"
       \/ c = "pool" /\ gate.st = "live" /\ gate.fin
GoesOn(w, n, c, m) == <<w, c>> \in Onward /\ Same(n, m)
Rejects(w, n, c, m) ==
    /\ w = "reject" /\ Same(n, m)
    /\ \/ c = "report" /\ n.g.st = "live"
       \/ c = "retire" /\ n.g.st # "live" /\ n.g.fin
TakesPool(w, n, c, m) ==
    /\ w = "pool" /\ c \in {"annotate", "services"}
    /\ SameBut(n, m) /\ m.p = pool' /\ m.a = alloc' /\ m.g = n.g
Annotates(w, n, c, m) ==
    /\ w = "annotate" /\ c = "services" /\ SameBut(n, m) /\ m.p = n.p /\ m.a = n.a
    /\ m.g = [n.g EXCEPT !.ann = TRUE]
Retires(w, n, c, m) ==
    /\ w = "retire" /\ SameBut(n, m) /\ m.g = n.g
    /\ \A b \in Bindings : ~Exists(n.bs[b])
    /\ UNCHANGED <<pool, alloc, bind>>
    /\ \/ c = "finish" /\ Absent(pool)
       \/ /\ c = "archive" /\ m.p = pool /\ m.a = alloc
          /\ Exists(pool) /\ Quiescent(pool, alloc) /\ (pool.st = "live" => pool.guard)
Archives(w, n, c, m) ==
    /\ w = "archive" /\ c = "seal" /\ m = n
    /\ archive' = Ledger(n) /\ UNCHANGED <<pool, alloc>>

Moves(w, n, c, m) ==
    \/ Ends(c, m) \/ Starts(w, c, m) \/ ReadsBindings(w, n, c, m)
    \/ ReadsPool(w, n, c, m) \/ ReadsGate(w, n, c, m) \/ GoesOn(w, n, c, m)
    \/ Rejects(w, n, c, m) \/ TakesPool(w, n, c, m) \/ Annotates(w, n, c, m)
    \/ Retires(w, n, c, m) \/ Archives(w, n, c, m)

(* The steps of a pass, by what they write.                                *)
ReadSteps(r) ==
    \/ ListBindings(r) \/ ListPools(r) \/ CleanupDone(r) \/ GetGateway(r)
    \/ DisabledAll(r) \/ Rejected(r) \/ NotFound(r) \/ PoolRefused(r)
    \/ ListServices(r) \/ CleanupPending(r) \/ LoopDone(r) \/ CompareArchive(r)
BindSteps(r) ==
    \/ DeleteUnattached(r) \/ DisableAll(r) \/ DisableRoute(r) \/ CreateBinding(r)
    \/ RefuseTarget(r) \/ ensureBinding(r) \/ RetireBinding(r)
RouteSteps(r) ==
    ReleaseRoute(r) \/ rejectRoutes(r) \/ AddRouteFinalizer(r) \/ RouteStatus(r)
GateSteps(r) ==
    AddGatewayFinalizer(r) \/ gatewayStatus(r) \/ Annotate(r) \/ FinishGateway(r)
PoolSteps(r) == ensurePool(r) \/ RetireRead(r) \/ GuardPool(r) \/ Seal(r)
PassStep(r) == \/ ListRoutes(r) \/ ReadSteps(r) \/ BindSteps(r) \/ RouteSteps(r)
               \/ GateSteps(r) \/ PoolSteps(r) \/ Archive(r) \/ Abort(r)

UserSteps == \E u \in Routes : CreateRoute(u) \/ DeleteRoute(u) \/ Reparent(u) \/ Rebackend(u)

(* A step is one of a pass, an election, one of the engine, of the garbage *)
(* collector, of a user, of a Service or of the Gateway.                   *)
LEMMA NextKinds ==
    ASSUME Next
    PROVE  \/ \E r \in Replicas : PassStep(r)
           \/ \E r \in Replicas : ChangeLeader(r)
           \/ Controller \/ CollectPool \/ (\E b \in Bindings : CollectBinding(b))
           \/ UserSteps \/ (\E s \in Services : ServiceEvent(s))
           \/ GatewayEvent \/ DeleteGateway
BY Zenon DEF Next, Step, Environment, PassStep, ReadSteps, BindSteps, RouteSteps,
             GateSteps, PoolSteps, UserSteps

(* The oldest route of a set that is not empty is in the set.              *)
LEMMA TurnIn ==
    ASSUME NEW m, m.todo \subseteq Routes, m.todo # {}
    PROVE  Turn(m) \in m.todo
<1> DEFINE R == {s \in Nat \X Nat : s[1] < s[2]}
<1>1. m.todo \subseteq Nat
  <2>1. Routes \subseteq Nat \ {0}
    BY AdapterConstants, Zenon
  <2> QED
    BY Zenon, <2>1
<1>2. IsWellFoundedOn(R, Nat)
  BY NatLessThanWellFounded, Zenon DEF OpToRel
<1>3. PICK x \in m.todo : \A y \in m.todo : ~(<<y, x>> \in R)
  <2> HIDE DEF R
  <2> QED
    BY <1>1, <1>2, WFMin
<1>4. ASSUME NEW y \in m.todo PROVE x <= y
  <2>1. x \in Nat /\ y \in Nat /\ ~(<<y, x>> \in R)
    BY <1>1, <1>3
  <2>2. y < x => <<y, x>> \in R
    BY <2>1
  <2> QED
    BY <2>1, <2>2
<1>5. \E z \in m.todo : \A y \in m.todo : z <= y
  BY <1>4
<1> QED
  BY <1>5 DEF Turn, Min

(* What a replica holds between two passes.                                *)
LEMMA BlankShape == CopyShape("idle", Blank)
<1>1. IsCopy(Blank) /\ Blank.p = Engine!NoPool /\ Blank.a = Engine!NoLeases
      /\ Blank.g = NewGateway
  BY Zenon DEF Blank, IsCopy
<1>2. IsPool(Engine!NoPool)
  BY DEF IsPool, Engine!NoPool
<1>3. IsLedger(Engine!NoLeases)
  BY DEF IsLedger, Engine!NoLeases
<1>4. IsGate(NewGateway)
  BY DEF IsGate, NewGateway
<1> QED
  BY <1>1, <1>2, <1>3, <1>4 DEF CopyShape

(* A field that is replaced leaves the others.                             *)
LEMMA PutGate ==
    ASSUME NEW n, IsCopy(n), NEW x
    PROVE  /\ SameBut(n, [n EXCEPT !.g = x]) /\ [n EXCEPT !.g = x].g = x
           /\ [n EXCEPT !.g = x].p = n.p /\ [n EXCEPT !.g = x].a = n.a
BY DEF IsCopy, SameBut

(* Writing the worklist of a copy changes nothing else of it.              *)
LEMMA PutTodo ==
    ASSUME NEW n, IsCopy(n), NEW x
    PROVE  Same(n, [n EXCEPT !.todo = x]) /\ [n EXCEPT !.todo = x].todo = x
BY DEF IsCopy, Same

(* Writing the condition to report changes nothing else of a copy.         *)
LEMMA PutSay ==
    ASSUME NEW n, IsCopy(n), NEW x
    PROVE  /\ Same(n, [n EXCEPT !.say = x]) /\ [n EXCEPT !.say = x].todo = n.todo
           /\ [n EXCEPT !.say = x].turn = n.turn
BY DEF IsCopy, Same

(* Writing the valid Services and the worklist changes nothing else of a   *)
(* copy.                                                                   *)
LEMMA PutWork ==
    ASSUME NEW n, IsCopy(n), NEW x, NEW y
    PROVE  /\ Same(n, [n EXCEPT !.okay = x, !.todo = y])
           /\ [n EXCEPT !.okay = x, !.todo = y].todo = y
BY Zenon DEF IsCopy, Same

(* Taking the next route off the worklist, with or without a condition to  *)
(* report, changes nothing the copy has read.                              *)
LEMMA TurnTaken ==
    ASSUME NEW n, IsCopy(n), NEW s
    PROVE  /\ Same(n, AfterTurn(n)) /\ AfterTurn(n).todo = n.todo \ {Turn(n)}
           /\ Same(n, Says(n, s)) /\ Says(n, s).todo = n.todo \ {Turn(n)}
           /\ Says(n, s).turn = Turn(n)
<1>1. /\ Same(n, AfterTurn(n)) /\ AfterTurn(n).todo = n.todo \ {Turn(n)}
      /\ AfterTurn(n).turn = Turn(n)
  BY Zenon DEF AfterTurn, IsCopy, Same
<1>2. IsCopy(AfterTurn(n))
  BY <1>1 DEF Same
<1>3. /\ Same(AfterTurn(n), Says(n, s)) /\ Says(n, s).todo = AfterTurn(n).todo
      /\ Says(n, s).turn = AfterTurn(n).turn
  BY <1>2, PutSay DEF Says
<1> QED
  BY <1>1, <1>3 DEF Same

(* The shape of a copy after its lists of routes and bindings: it is kept  *)
(* whatever is read of pool, ledger and Gateway.                           *)
LEMMA ShapeKept ==
    ASSUME NEW w, NEW n, CopyShape(w, n), w \notin {"idle", "bindings"},
           NEW c, NEW m, SameBut(n, m), IsPool(m.p), IsLedger(m.a), IsGate(m.g),
           c = "disable" => m.todo \subseteq Bindings,
           c = "reject" => m.todo \subseteq Routes,
           c \in {"loop", "status"} => m.todo \subseteq {u \in Routes : Targets(n.rts[u])},
           c = "status" => m.turn \in Routes
    PROVE  CopyShape(c, m)
BY Zenon DEF CopyShape, SameBut

(* ... and whatever is written on the copy's worklist.                     *)
LEMMA SameKept ==
    ASSUME NEW w, NEW n, CopyShape(w, n), w \notin {"idle", "bindings"},
           NEW c, NEW m, Same(n, m),
           c = "disable" => m.todo \subseteq Bindings,
           c = "reject" => m.todo \subseteq Routes,
           c \in {"loop", "status"} => m.todo \subseteq {u \in Routes : Targets(n.rts[u])},
           c = "status" => m.turn \in Routes
    PROVE  CopyShape(c, m)
<1>1. SameBut(n, m) /\ IsPool(m.p) /\ IsLedger(m.a) /\ IsGate(m.g)
  BY DEF Same, SameBut, CopyShape
<1> QED
  BY <1>1, ShapeKept, Zenon

(* The next place and copy of the replica that acts.                       *)
Control(r, c, m) ==
    /\ Goto(r, c, m) /\ CopyShape(c, m) /\ Moves(pc[r], my[r], c, m)
    /\ pc[r] = "idle" => r = leader

(* A pass that ends moves to idle with a blank copy.                       *)
LEMMA EndsPass ==
    ASSUME NEW r, EndPass(r), pc[r] # "idle"
    PROVE  \E c, m : Control(r, c, m)
BY BlankShape, Zenon DEF EndPass, Control, Moves, Ends

(* A step that only works off the worklist is a move.                      *)
LEMMA Continues ==
    ASSUME NEW r, CopyShape(pc[r], my[r]),
           NEW c, NEW m, Goto(r, c, m), Same(my[r], m), <<pc[r], c>> \in Onward,
           c = "disable" => m.todo \subseteq Bindings,
           c = "reject" => m.todo \subseteq Routes,
           c \in {"loop", "status"} => m.todo \subseteq {u \in Routes : Targets(my[r].rts[u])},
           c = "status" => m.turn \in Routes
    PROVE  Control(r, c, m)
<1>1. pc[r] \notin {"idle", "bindings"}
  BY DEF Onward
<1>2. CopyShape(c, m)
  BY <1>1, SameKept, Zenon
<1> QED
  BY <1>1, <1>2, Zenon DEF Control, Moves, GoesOn

(* The steps that only read are moves of the pass.                         *)
LEMMA ReadMoves ==
    ASSUME ShapeInv, NEW r \in Replicas, ListRoutes(r) \/ ReadSteps(r)
    PROVE  \E c, m : Control(r, c, m)
<1> DEFINE n == my[r]
           w == pc[r]
<1>0. /\ CopyShape(w, n) /\ IsCopy(n)
      /\ IsGate(gate) /\ AreRoutes(route) /\ IsPool(pool) /\ IsLedger(alloc) /\ AreBindings(bind)
  BY Zenon DEF ShapeInv, CopyShape
<1> HIDE DEF n, w
<1>1. CASE ListRoutes(r)
  <2> DEFINE m == [Blank EXCEPT !.rts = route]
  <2>1. /\ w = "idle" /\ r = leader /\ Goto(r, "bindings", m) /\ UNCHANGED route
    BY <1>1 DEF ListRoutes, objects, w
  <2>2. IsCopy(m) /\ m.rts = route /\ m.p = Blank.p /\ m.a = Blank.a /\ m.g = Blank.g
    BY Zenon DEF Blank, IsCopy
  <2>3. CopyShape("bindings", m)
    BY <1>0, <2>2, BlankShape DEF CopyShape
  <2> QED
    BY <2>1, <2>3, Zenon DEF Control, Moves, Starts, w
<1>2. CASE ListBindings(r)
  <2> DEFINE m == [n EXCEPT !.bs = bind]
  <2>1. /\ w = "bindings" /\ Goto(r, "pools", m) /\ UNCHANGED bind
    BY <1>2 DEF ListBindings, generated, n, w
  <2>2. IsCopy(m) /\ m.bs = bind /\ m.rts = n.rts /\ m.p = n.p /\ m.a = n.a /\ m.g = n.g
    BY <1>0 DEF IsCopy
  <2>3. CopyShape("pools", m)
    BY <1>0, <2>1, <2>2 DEF CopyShape
  <2> QED
    BY <2>1, <2>3, Zenon DEF Control, Moves, ReadsBindings, n, w
<1>3. CASE ListPools(r)
  <2> DEFINE m == [n EXCEPT !.p = pool, !.a = alloc]
  <2>1. w = "pools" /\ Goto(r, "cleanup", m)
    BY <1>3 DEF ListPools, n, w
  <2>2. SameBut(n, m) /\ m.p = pool /\ m.a = alloc /\ m.g = n.g
    <3>1. IsCopy(n)
      BY <1>0
    <3> QED
      BY Zenon, <3>1 DEF IsCopy, SameBut
  <2> HIDE DEF m
  <2>3. IsPool(m.p) /\ IsLedger(m.a) /\ IsGate(m.g) /\ w \notin {"idle", "bindings"}
    BY <1>0, <2>1, <2>2 DEF CopyShape
  <2>4. CopyShape("cleanup", m)
    BY <1>0, <2>2, <2>3, ShapeKept
  <2> QED
    BY <2>1, <2>2, <2>4, Zenon DEF Control, Moves, ReadsPool, n, w
<1>4. CASE GetGateway(r)
  <2> DEFINE g == [n EXCEPT !.g = gate]
  <2>1. w = "gateway" /\ UNCHANGED gate
    BY Zenon, <1>4 DEF GetGateway, objects, w
  <2>2. IsCopy(g) /\ SameBut(n, g) /\ g.p = n.p /\ g.a = n.a /\ g.g = gate
    BY <1>0, PutGate DEF SameBut
  <2>3. ASSUME NEW c, NEW m, Goto(r, c, m), Same(g, m),
               \/ c = "reject" /\ gate.st = "deleting" /\ m.todo \subseteq Routes
               \/ c = "disable" /\ gate.st = "live" /\ m.todo \subseteq Bindings
               \/ c = "pool" /\ gate.st = "live" /\ gate.fin
        PROVE  Control(r, c, m)
    <3>1. SameBut(n, m) /\ m.p = n.p /\ m.a = n.a /\ m.g = gate
      BY <2>2, <2>3 DEF Same, SameBut
    <3>2. CopyShape(c, m)
      BY SMTT(30), <1>0, <2>1, <2>3, <3>1, ShapeKept DEF CopyShape
    <3> QED
      BY <2>1, <2>3, <3>1, <3>2, Zenon DEF Control, Moves, ReadsGate, n, w
  <2>4. \/ EndPass(r)
        \/ gate.st = "deleting" /\ \E X \in SUBSET Routes :
              Goto(r, "reject", [g EXCEPT !.todo = X])
        \/ gate.st = "live" /\ \E X \in SUBSET Bindings :
              Goto(r, "disable", [g EXCEPT !.todo = X])
        \/ gate.st = "live" /\ gate.fin /\ Goto(r, "pool", g)
    <3>1. gate.st \in {"live", "deleting", "gone"}
      BY <1>0 DEF IsGate
    <3> HIDE DEF g
    <3> QED
      BY <1>4, <3>1, Zenon DEF GetGateway, n, g
  <2> HIDE DEF g
  <2>5. Same(g, g) /\ \A X : Same(g, [g EXCEPT !.todo = X]) /\ [g EXCEPT !.todo = X].todo = X
    BY <2>2, PutTodo DEF Same
  <2>6. CASE EndPass(r)
    BY <2>1, <2>6, EndsPass DEF w
  <2> QED
    BY Zenon, <2>3, <2>4, <2>5, <2>6
<1> HIDE DEF n
<1>5. ASSUME NEW c, NEW m, Goto(r, c, m), Same(n, m), <<w, c>> \in Onward,
             c = "disable" => m.todo \subseteq Bindings,
             c = "reject" => m.todo \subseteq Routes,
             c \in {"loop", "status"} => m.todo \subseteq {u \in Routes : Targets(n.rts[u])},
             c = "status" => m.turn \in Routes
      PROVE  Control(r, c, m)
  BY <1>0, <1>5, Continues, Zenon DEF n, w
<1>6. Same(n, n)
  BY <1>0 DEF Same
<1>7. CASE CleanupDone(r)
  <2>1. Goto(r, "gateway", n) /\ <<w, "gateway">> \in Onward
    BY <1>7 DEF CleanupDone, Onward, n, w
  <2> QED
    BY <1>5, <1>6, <2>1
<1>8. CASE DisabledAll(r)
  <2>1. PICK X \in SUBSET Routes : Goto(r, "reject", [n EXCEPT !.todo = X])
    BY <1>8, Zenon DEF DisabledAll, n
  <2>2. <<w, "reject">> \in Onward
    BY <1>8 DEF DisabledAll, Onward, w
  <2> QED
    BY Zenon, <1>0, <1>5, <2>1, <2>2, PutTodo
<1>9. CASE Rejected(r)
  <2>1. w = "reject"
    BY <1>9 DEF Rejected, w
  <2>2. CASE n.g.st = "live"
    <3> DEFINE m == [n EXCEPT !.say = "refused"]
    <3>1. Goto(r, "report", m)
      BY Zenon, <1>9, <2>2 DEF Rejected, n
    <3>2. Same(n, m)
      BY <1>0, PutSay
    <3>3. CopyShape("report", m)
      BY <1>0, <2>1, <3>2, SameKept
    <3> QED
      BY <2>1, <2>2, <3>1, <3>2, <3>3, Zenon DEF Control, Moves, Rejects, n, w
  <2>3. CASE n.g.st # "live" /\ n.g.fin
    <3>1. Goto(r, "retire", n)
      BY Zenon, <1>9, <2>3 DEF Rejected, n
    <3>2. CopyShape("retire", n)
      BY <1>0, <1>6, <2>1, SameKept
    <3> QED
      BY <1>6, <2>1, <2>3, <3>1, <3>2, Zenon DEF Control, Moves, Rejects, n, w
  <2>4. CASE n.g.st # "live" /\ ~n.g.fin
    BY <1>9, <2>1, <2>4, EndsPass DEF Rejected, n, w
  <2> QED
    BY <2>2, <2>3, <2>4
<1>10. CASE NotFound(r) \/ CleanupPending(r)
  <2>1. EndPass(r) /\ pc[r] # "idle"
    BY Zenon, <1>10 DEF NotFound, CleanupPending, AtBinding
  <2> QED
    BY <2>1, EndsPass
<1>11. CASE PoolRefused(r)
  <2>1. Goto(r, "report", [n EXCEPT !.say = "refused"]) /\ <<w, "report">> \in Onward
    BY <1>11 DEF PoolRefused, Onward, n, w
  <2> QED
    BY <1>0, <1>5, <2>1, PutSay
<1>12. CASE ListServices(r)
  <2>1. PICK X : X = {u \in Routes : Targets(n.rts[u])}
    BY Zenon
  <2>2. Goto(r, "loop", [n EXCEPT !.okay = okay, !.todo = X]) /\ <<w, "loop">> \in Onward
    BY <1>12, <2>1 DEF ListServices, Onward, n, w
  <2> QED
    BY Zenon, <1>0, <1>5, <2>1, <2>2, PutWork
<1>13. CASE LoopDone(r)
  <2>1. PICK x : Goto(r, "report", [n EXCEPT !.say = x])
    BY <1>13, Zenon DEF LoopDone, n
  <2>2. <<w, "report">> \in Onward
    BY <1>13 DEF LoopDone, Onward, w
  <2> QED
    BY <1>0, <1>5, <2>1, <2>2, PutSay
<1>14. CASE CompareArchive(r)
  <2>1. w = "archive" /\ UNCHANGED <<archive, pool, alloc>>
    BY <1>14 DEF CompareArchive, objects, generated, w
  <2>2. CASE archive = Ledger(n)
    <3>1. Goto(r, "seal", n) /\ archive' = Ledger(n)
      BY <1>14, <2>1, <2>2 DEF CompareArchive, n
    <3>2. CopyShape("seal", n)
      BY <1>0, <1>6, <2>1, SameKept
    <3> QED
      BY <2>1, <3>1, <3>2, Zenon DEF Control, Moves, Archives, n, w
  <2>3. CASE archive # Ledger(n)
    BY <1>14, <2>1, <2>3, EndsPass DEF CompareArchive, n, w
  <2> QED
    BY <2>2, <2>3
<1> QED
  BY <1>1, <1>2, <1>3, <1>4, <1>7, <1>8, <1>9, <1>10, <1>11, <1>12, <1>13, <1>14
     DEF ReadSteps

(* The steps that write bindings or routes are moves of the pass.          *)
LEMMA WorkMoves ==
    ASSUME ShapeInv, NEW r \in Replicas, BindSteps(r) \/ RouteSteps(r)
    PROVE  \E c, m : Control(r, c, m)
<1> DEFINE n == my[r]
           w == pc[r]
<1>0. CopyShape(w, n) /\ IsCopy(n)
  BY Zenon DEF ShapeInv, CopyShape
<1> HIDE DEF n, w
<1>1. CASE DeleteUnattached(r) \/ ReleaseRoute(r) \/ RetireBinding(r)
  <2>1. EndPass(r) /\ pc[r] # "idle"
    BY <1>1 DEF DeleteUnattached, ReleaseRoute, RetireBinding
  <2> QED
    BY <2>1, EndsPass
<1>2. CASE DisableAll(r)
  <2>1. PICK b : Goto(r, "disable", [n EXCEPT !.todo = n.todo \ {b}])
    BY <1>2 DEF DisableAll, n
  <2>2. w = "disable" /\ <<w, "disable">> \in Onward
    BY <1>2 DEF DisableAll, Onward, w
  <2>3. n.todo \ {b} \subseteq Bindings
    BY <1>0, <2>2 DEF CopyShape
  <2>4. PICK m : m = [n EXCEPT !.todo = n.todo \ {b}]
    BY Zenon
  <2>5. Same(n, m) /\ m.todo = n.todo \ {b}
    BY <1>0, <2>4, PutTodo
  <2>6. Goto(r, "disable", m)
    BY <2>1, <2>4
  <2>7. Control(r, "disable", m)
    BY <1>0, <2>2, <2>3, <2>5, <2>6, Continues DEF n, w
  <2> QED
    BY <2>7
<1>3. CASE rejectRoutes(r)
  <2>1. PICK b : Goto(r, "reject", [n EXCEPT !.todo = n.todo \ {b}])
    BY <1>3 DEF rejectRoutes, n
  <2>2. w = "reject" /\ <<w, "reject">> \in Onward
    BY <1>3 DEF rejectRoutes, Onward, w
  <2>3. n.todo \ {b} \subseteq Routes
    BY <1>0, <2>2 DEF CopyShape
  <2>4. PICK m : m = [n EXCEPT !.todo = n.todo \ {b}]
    BY Zenon
  <2>5. Same(n, m) /\ m.todo = n.todo \ {b}
    BY <1>0, <2>4, PutTodo
  <2>6. Goto(r, "reject", m)
    BY <2>1, <2>4
  <2>7. Control(r, "reject", m)
    BY <1>0, <2>2, <2>3, <2>5, <2>6, Continues DEF n, w
  <2> QED
    BY Zenon, <2>7
<1>4. ASSUME w = "loop", n.todo # {}
      PROVE  /\ Turn(n) \in Routes
             /\ n.todo \ {Turn(n)} \subseteq {u \in Routes : Targets(n.rts[u])}
  <2>1. n.todo \subseteq {u \in Routes : Targets(n.rts[u])}
    BY <1>0, <1>4 DEF CopyShape
  <2>2. Turn(n) \in n.todo
    BY <1>4, <2>1, TurnIn
  <2> QED
    BY Zenon, <2>1, <2>2
<1>5. ASSUME w = "loop", n.todo # {}, NEW s, Goto(r, "status", Says(n, s))
      PROVE  \E c, m : Control(r, c, m)
  <2>1. PICK m : m = Says(n, s)
    OBVIOUS
  <2>2. Same(n, m) /\ m.todo = n.todo \ {Turn(n)} /\ m.turn = Turn(n)
    BY <1>0, <2>1, TurnTaken
  <2>3. <<w, "status">> \in Onward /\ Goto(r, "status", m)
    BY <1>5, <2>1 DEF Onward
  <2>4. Control(r, "status", m)
    BY <1>0, <1>4, <1>5, <2>2, <2>3, Continues DEF n, w
  <2> QED
    BY <2>4
<1>6. CASE DisableRoute(r) \/ CreateBinding(r) \/ RefuseTarget(r) \/ ensureBinding(r)
  <2>1. w = "loop" /\ n.todo # {}
    BY Zenon,
       <1>6 DEF DisableRoute, CreateBinding, RefuseTarget, ensureBinding, AtBinding, n, w
  <2>2. \E s : Goto(r, "status", Says(n, s))
    BY <1>6, Zenon DEF DisableRoute, CreateBinding, RefuseTarget, ensureBinding, n
  <2> QED
    BY Zenon, <1>5, <2>1, <2>2
<1>7. CASE AddRouteFinalizer(r)
  <2>1. w = "loop" /\ n.todo # {} /\ <<w, "loop">> \in Onward
    BY <1>7 DEF AddRouteFinalizer, Onward, n, w
  <2>2. CASE EndPass(r)
    BY <2>1, <2>2, EndsPass DEF w
  <2>3. CASE Goto(r, "loop", AfterTurn(n))
    <3>1. PICK m : m = AfterTurn(n)
      OBVIOUS
    <3>2. Same(n, m) /\ m.todo = n.todo \ {Turn(n)}
      BY <1>0, <3>1, TurnTaken
    <3>3. Goto(r, "loop", m)
      BY <2>3, <3>1
    <3>4. Control(r, "loop", m)
      BY Zenon, <1>0, <1>4, <2>1, <3>2, <3>3, Continues DEF n, w
    <3> QED
      BY <3>4
  <2> QED
    BY <1>7, <2>2, <2>3 DEF AddRouteFinalizer, n
<1>8. CASE RouteStatus(r)
  <2>1. w = "status" /\ <<w, "loop">> \in Onward
    BY <1>8 DEF RouteStatus, Onward, w
  <2>2. PICK z : Goto(r, "loop", [n EXCEPT !.turn = 0, !.say = "", !.done = z])
    BY Zenon, <1>8 DEF RouteStatus, n
  <2>3. PICK m : m = [n EXCEPT !.turn = 0, !.say = "", !.done = z]
    OBVIOUS
  <2>4. Same(n, m) /\ m.todo = n.todo
    BY Zenon, <1>0, <2>3 DEF IsCopy, Same
  <2>5. Goto(r, "loop", m)
    BY <2>2, <2>3
  <2>6. n.todo \subseteq {u \in Routes : Targets(n.rts[u])}
    BY <1>0, <2>1 DEF CopyShape
  <2>7. Control(r, "loop", m)
    BY Zenon, <1>0, <2>1, <2>4, <2>5, <2>6, Continues DEF n, w
  <2> QED
    BY <2>7
<1> QED
  BY <1>1, <1>2, <1>3, <1>6, <1>7, <1>8 DEF BindSteps, RouteSteps

(* What ensurePool leaves: the pool it found, guarded, or a new one.       *)
LEMMA NewPool ==
    ASSUME NEW p, IsPool(p)
    PROVE  /\ IsPool([p EXCEPT !.guard = TRUE])
           /\ IsPool([Engine!NoPool EXCEPT !.st = "live", !.fin = TRUE, !.guard = TRUE])
<1>1. IsPool([p EXCEPT !.guard = TRUE])
  BY Zenon DEF IsPool
<1>2. IsPool([Engine!NoPool EXCEPT !.st = "live", !.fin = TRUE, !.guard = TRUE])
  BY Zenon DEF IsPool, Engine!NoPool
<1> QED
  BY Zenon, <1>1, <1>2

(* The steps that write Gateway, pool or archive are moves of the pass,    *)
(* and so is an abort.                                                     *)
LEMMA PoolMoves ==
    ASSUME ShapeInv, NEW r \in Replicas,
           GateSteps(r) \/ PoolSteps(r) \/ Archive(r) \/ Abort(r)
    PROVE  \E c, m : Control(r, c, m)
<1> DEFINE n == my[r]
           w == pc[r]
<1>0. /\ CopyShape(w, n) /\ IsCopy(n) /\ IsGate(n.g)
      /\ IsPool(pool) /\ IsLedger(alloc)
  BY Zenon DEF ShapeInv, CopyShape
<1> HIDE DEF n, w
<1>1. CASE AddGatewayFinalizer(r) \/ gatewayStatus(r) \/ FinishGateway(r)
           \/ GuardPool(r) \/ Seal(r) \/ Abort(r)
  <2>1. EndPass(r) /\ pc[r] # "idle"
    BY <1>1 DEF AddGatewayFinalizer, gatewayStatus, FinishGateway, GuardPool, Seal, Abort
  <2> QED
    BY <2>1, EndsPass
<1>2. CASE Annotate(r)
  <2>1. PICK g : g = [n.g EXCEPT !.ann = TRUE]
    BY Zenon
  <2>2. PICK m : m = [n EXCEPT !.g = g]
    BY Zenon
  <2>3. w = "annotate" /\ Goto(r, "services", [n EXCEPT !.g.ann = TRUE])
    BY <1>2 DEF Annotate, n, w
  <2>4. [n EXCEPT !.g.ann = TRUE] = m
    BY <1>0, <2>1, <2>2 DEF IsCopy, IsGate
  <2>5. SameBut(n, m) /\ m.p = n.p /\ m.a = n.a /\ m.g = g
    BY <1>0, <2>2, PutGate
  <2>6. IsPool(m.p) /\ IsLedger(m.a) /\ IsGate(m.g)
    BY Zenon, <1>0, <2>1, <2>5 DEF CopyShape, IsGate
  <2>7. CopyShape("services", m)
    BY <1>0, <2>3, <2>5, <2>6, ShapeKept
  <2>8. Goto(r, "services", m)
    BY Zenon, <2>3, <2>4
  <2> QED
    BY <2>1, <2>3, <2>5, <2>7, <2>8, Zenon DEF Control, Moves, Annotates, n, w
<1>3. CASE ensurePool(r)
  <2>1. PICK p, a, c :
           /\ p = pool' /\ a = alloc' /\ c \in {"annotate", "services"}
           /\ \/ /\ p = [Engine!NoPool EXCEPT !.st = "live", !.fin = TRUE, !.guard = TRUE]
                 /\ a = Engine!NoLeases
              \/ p = [pool EXCEPT !.guard = TRUE] /\ a = alloc
           /\ Goto(r, c, [n EXCEPT !.p = p, !.a = a])
    BY Zenon, <1>3 DEF ensurePool, n
  <2>2. w = "pool"
    BY <1>3 DEF ensurePool, w
  <2>3. IsPool(p) /\ IsLedger(a)
    <3>1. IsLedger(Engine!NoLeases)
      BY Zenon, BlankShape DEF CopyShape, Blank
    <3> QED
      BY Zenon, <1>0, <2>1, <3>1, NewPool
  <2>4. PICK m : m = [n EXCEPT !.p = p, !.a = a]
    OBVIOUS
  <2>5. SameBut(n, m) /\ m.p = p /\ m.a = a /\ m.g = n.g
    BY Zenon, <1>0, <2>4 DEF IsCopy, SameBut
  <2>6. IsPool(m.p) /\ IsLedger(m.a) /\ IsGate(m.g)
    BY <1>0, <2>3, <2>5
  <2>7. CopyShape(c, m)
    BY <1>0, <2>1, <2>2, <2>5, <2>6, ShapeKept
  <2>8. Goto(r, c, m)
    BY Zenon, <2>1, <2>4
  <2> QED
    BY <2>1, <2>2, <2>5, <2>7, <2>8, Zenon DEF Control, Moves, TakesPool, n, w
<1>4. CASE RetireRead(r)
  <2>1. /\ w = "retire" /\ \A b \in Bindings : ~Exists(n.bs[b])
        /\ pool.st = "live" => pool.guard
        /\ UNCHANGED <<pool, alloc, bind>>
    BY <1>4, Zenon DEF RetireRead, n, w
  <2>2. \/ EndPass(r)
        \/ Absent(pool) /\ Goto(r, "finish", n)
        \/ /\ Exists(pool) /\ Quiescent(pool, alloc)
           /\ Goto(r, "archive", [n EXCEPT !.p = pool, !.a = alloc])
    <3>1. Absent(pool) \/ Exists(pool)
      BY <1>0 DEF IsPool, Absent, Exists
    <3> QED
      BY <1>4, <3>1, Zenon DEF RetireRead, n
  <2>3. CASE EndPass(r)
    BY <2>1, <2>3, EndsPass DEF w
  <2>4. CASE Absent(pool) /\ Goto(r, "finish", n)
    <3>1. SameBut(n, n) /\ Same(n, n)
      BY <1>0 DEF SameBut, Same
    <3>2. CopyShape("finish", n)
      BY <1>0, <2>1, <3>1, SameKept
    <3> QED
      BY <2>1, <2>4, <3>1, <3>2, Zenon DEF Control, Moves, Retires, n, w
  <2>5. CASE /\ Exists(pool) /\ Quiescent(pool, alloc)
             /\ Goto(r, "archive", [n EXCEPT !.p = pool, !.a = alloc])
    <3>1. PICK m : m = [n EXCEPT !.p = pool, !.a = alloc]
      BY Zenon
    <3>2. SameBut(n, m) /\ m.p = pool /\ m.a = alloc /\ m.g = n.g
      BY Zenon, <1>0, <3>1 DEF IsCopy, SameBut
    <3>3. IsPool(m.p) /\ IsLedger(m.a) /\ IsGate(m.g)
      BY <1>0, <3>2
    <3>4. CopyShape("archive", m)
      BY <1>0, <2>1, <3>2, <3>3, ShapeKept
    <3>5. Goto(r, "archive", m)
      BY <2>5, <3>1
    <3> QED
      BY <2>1, <2>5, <3>2, <3>4, <3>5, Zenon DEF Control, Moves, Retires, n, w
  <2> QED
    BY <2>2, <2>3, <2>4, <2>5
<1>5. CASE Archive(r)
  <2>1. w = "archive" /\ Goto(r, "seal", n) /\ archive' = Ledger(n) /\ UNCHANGED <<pool, alloc>>
    BY <1>5 DEF Archive, generated, n, w
  <2>2. Same(n, n)
    BY <1>0 DEF Same
  <2>3. CopyShape("seal", n)
    BY <1>0, <2>1, <2>2, SameKept
  <2> QED
    BY <2>1, <2>3, Zenon DEF Control, Moves, Archives, n, w
<1> QED
  BY <1>1, <1>2, <1>3, <1>4, <1>5 DEF GateSteps, PoolSteps

(* Every step of a pass is a move.                                         *)
LEMMA PassMoves ==
    ASSUME ShapeInv, NEW r \in Replicas, PassStep(r)
    PROVE  \E c, m : Control(r, c, m)
BY ReadMoves, WorkMoves, PoolMoves, Zenon DEF PassStep

-----------------------------------------------------------------------------
(* What a step writes.                                                     *)

(* Reading, or failing, writes no object.                                  *)
LEMMA ReadFrame ==
    ASSUME NEW r, ListRoutes(r) \/ ReadSteps(r) \/ Abort(r)
    PROVE  UNCHANGED <<gate, route, okay, archive, pool, alloc, bind, stale>>
BY Zenon DEF ListRoutes, ReadSteps, Abort, ListBindings, ListPools, CleanupDone, GetGateway,
   DisabledAll, Rejected, NotFound, PoolRefused, ListServices, CleanupPending, LoopDone,
   CompareArchive, objects, generated

(* disableBinding, ensureBinding and the deletions of bindings write       *)
(* bindings only.                                                          *)
LEMMA BindFrame ==
    ASSUME NEW r, BindSteps(r)
    PROVE  UNCHANGED <<gate, route, okay, archive, pool, alloc, stale, dirty, plan>>
BY Zenon DEF BindSteps, DeleteUnattached, DisableAll, DisableRoute, CreateBinding, RefuseTarget,
   ensureBinding, RetireBinding, deleteExact, disableBinding, objects

(* The finalizer and the status of a route: only routes are written.       *)
LEMMA RouteFrame ==
    ASSUME NEW r, RouteSteps(r)
    PROVE  UNCHANGED <<gate, okay, archive, pool, alloc, bind, stale, plan>>
BY Zenon DEF RouteSteps, ReleaseRoute, rejectRoutes, AddRouteFinalizer, RouteStatus, generated

(* The finalizer, annotation and status of the Gateway: only the Gateway   *)
(* is written.                                                             *)
LEMMA GateFrame ==
    ASSUME NEW r, GateSteps(r)
    PROVE  UNCHANGED <<route, okay, archive, pool, alloc, bind, stale, dirty, plan>>
BY Zenon DEF GateSteps, AddGatewayFinalizer, gatewayStatus, Annotate, FinishGateway, generated

(* ensurePool and retireGateway write the pool only.                       *)
LEMMA PoolFrame ==
    ASSUME NEW r, PoolSteps(r)
    PROVE  UNCHANGED <<gate, route, okay, archive, bind, dirty, plan>>
BY Zenon DEF PoolSteps, ensurePool, RetireRead, GuardPool, Seal, objects

(* Writing the archive writes nothing else.                                *)
LEMMA ArchiveFrame ==
    ASSUME NEW r, Archive(r)
    PROVE  UNCHANGED <<gate, route, okay, pool, alloc, bind, stale, dirty, plan>>
BY Zenon DEF Archive, generated

(* The steps of nobody's pass.                                             *)
EngineSteps ==
    \/ Engine!Provision \/ Engine!StartWork \/ Engine!EndWork \/ Engine!ReleasePool
    \/ \E b \in Bindings :
          \/ Engine!HoldBinding(b) \/ Engine!Grant(b) \/ Engine!Retire(b)
          \/ Engine!ReleaseBinding(b)
          \/ \E c \in {"True", "False"}, g \in 0..bind[b].gen : Engine!Report(b, c, g)

(* The engine writes pool, ledger and bindings, and every write to the     *)
(* pool makes the copies old.                                              *)
LEMMA ControllerFrame ==
    ASSUME ShapeInv, Controller
    PROVE  /\ EngineSteps
           /\ UNCHANGED <<gate, route, okay, archive, leader, pc, my, dirty>>
           /\ (stale' = stale /\ UNCHANGED <<pool, alloc>>) \/ stale' = Replicas
<1>1. \A b \in Bindings : bind[b].gen \in 0..bind[b].gen
  <2>1. \A b \in Bindings : bind[b].gen \in Nat
    BY DEF ShapeInv, AreBindings, IsBinding
  <2> QED
    BY <2>1
<1> QED
  BY <1>1, Zenon DEF Controller, EngineProvision, EngineEndWork, EngineReleasePool, EngineHold,
     EngineGrant, EngineRetire, EngineRelease, EngineConfigured, EngineStartWork, EngineReport,
     Freely, Contracted, EngineSteps, objects, control

(* The garbage collector asks for the deletion of the pool, which makes    *)
(* the copies old.                                                         *)
LEMMA CollectFrame ==
    ASSUME CollectPool
    PROVE  /\ Engine!DeletePool
           /\ UNCHANGED <<gate, route, okay, archive, leader, pc, my, dirty, plan>>
           /\ (stale' = stale /\ UNCHANGED <<pool, alloc>>) \/ stale' = Replicas
BY Zenon DEF CollectPool, Freely, Contracted, objects, control

(* A user writes one route.                                                *)
LEMMA UserFrame ==
    ASSUME UserSteps
    PROVE  /\ UNCHANGED <<gate, okay, archive, pool, alloc, bind, stale, leader, pc, my>>
           /\ \E u \in Routes : \E x : UserWrites(u, x)
BY Zenon DEF UserSteps, CreateRoute, DeleteRoute, Reparent, Rebackend, UserWrites,
   generated, control

(* A step spends the plan and leaves its kinds as they are.                *)
LEMMA PlanKept ==
    ASSUME plan \in PlanSet, Next
    PROVE  plan' \in PlanSet /\ plan'.kinds = plan.kinds /\ plan'.upgraded = plan.upgraded
<1>1. plan \in [upgraded : BOOLEAN, routes : SUBSET Routes, kinds : SUBSET STRING,
                left : Nat, work : Nat, again : 1..Generations]
  BY DEF PlanSet
<1>2. \/ UNCHANGED plan
      \/ plan.left > 0 /\ plan' = [plan EXCEPT !.left = @ - 1]
      \/ plan.work > 0 /\ plan' = [plan EXCEPT !.work = @ - 1]
  <2>1. CASE \E r \in Replicas : PassStep(r)
    BY <2>1, BindFrame, RouteFrame, GateFrame, PoolFrame, ArchiveFrame, Zenon
       DEF PassStep, Abort, Disturb, ListRoutes, ReadSteps, ListBindings, ListPools, CleanupDone,
           GetGateway, DisabledAll, Rejected, NotFound, PoolRefused, ListServices,
           CleanupPending, LoopDone, CompareArchive
  <2>2. CASE \E r \in Replicas : ChangeLeader(r)
    BY <2>2, Zenon DEF ChangeLeader, Disturb
  <2>3. CASE Controller
    BY <2>3, Zenon DEF Controller, EngineProvision, EngineEndWork, EngineReleasePool, EngineHold,
       EngineGrant, EngineRetire, EngineRelease, EngineConfigured, EngineStartWork,
       EngineReport, Freely, Disturb
  <2>4. CASE CollectPool \/ (\E b \in Bindings : CollectBinding(b)) \/ DeleteGateway
    BY <2>4, Zenon DEF CollectPool, CollectBinding, DeleteGateway, Freely
  <2>5. CASE UserSteps \/ (\E s \in Services : ServiceEvent(s)) \/ GatewayEvent
    BY <2>5, Zenon DEF UserSteps, CreateRoute, DeleteRoute, Reparent, Rebackend, ServiceEvent,
       GatewayEvent, Disturb
  <2> QED
    BY <2>1, <2>2, <2>3, <2>4, <2>5, NextKinds
<1>3. CASE UNCHANGED plan
  BY <1>3
<1>4. CASE plan.left > 0 /\ plan' = [plan EXCEPT !.left = @ - 1]
  BY <1>1, <1>4 DEF PlanSet
<1>5. CASE plan.work > 0 /\ plan' = [plan EXCEPT !.work = @ - 1]
  BY <1>1, <1>5 DEF PlanSet
<1> QED
  BY <1>2, <1>3, <1>4, <1>5

(* The Gateway: what may become of it.                                     *)
GateMoves ==
    \/ UNCHANGED gate
    \/ \E x : gate' = [gate EXCEPT !.cond = x] \/ gate' = [gate EXCEPT !.problem = x]
    \/ gate' = [gate EXCEPT !.ann = TRUE]
    \/ gate.st = "live" /\ gate' = [gate EXCEPT !.fin = TRUE]
    \/ gate.st = "live" /\ gate' = Deleted(gate)
    \/ \E r \in Replicas : /\ pc[r] = "finish" /\ pc' = [pc EXCEPT ![r] = "idle"]
                           /\ gate = my[r].g /\ gate' = Unheld(gate)

(* What a step may do to the Gateway.                                      *)
LEMMA GateStep ==
    ASSUME ShapeInv, Next
    PROVE  GateMoves
<1>1. CASE \E r \in Replicas : PassStep(r)
  <2>1. PICK r \in Replicas : PassStep(r)
    BY Zenon, <1>1
  <2>2. CASE GateSteps(r)
    BY <2>2, Zenon DEF GateSteps, AddGatewayFinalizer, gatewayStatus, Annotate, FinishGateway,
       GateMoves, EndPass, Goto
  <2> QED
    BY <2>1, <2>2, ReadFrame, BindFrame, RouteFrame, PoolFrame, ArchiveFrame, Zenon
       DEF PassStep, GateMoves
<1>2. CASE GatewayEvent \/ DeleteGateway
  BY <1>2, Zenon DEF GatewayEvent, DeleteGateway, GateMoves
<1>3. CASE \/ (\E r \in Replicas : ChangeLeader(r)) \/ (\E b \in Bindings : CollectBinding(b))
           \/ (\E s \in Services : ServiceEvent(s))
  BY <1>3, Zenon DEF ChangeLeader, CollectBinding, ServiceEvent, GateMoves, objects
<1> QED
  BY <1>1, <1>2, <1>3, NextKinds, ControllerFrame, CollectFrame, UserFrame, Zenon DEF GateMoves

(* A Gateway keeps its annotation, does not come back to life, and loses   *)
(* its finalizer only to a replica that finishes its retirement.           *)
LEMMA GateKept ==
    ASSUME IsGate(gate), GateMoves
    PROVE  /\ IsGate(gate')
           /\ gate.ann => gate'.ann
           /\ gate.st # "live" => gate'.st # "live"
           /\ ~gate'.fin => \/ ~gate.fin
                            \/ \E r \in Replicas : /\ pc[r] = "finish" /\ gate = my[r].g
                                                   /\ pc' = [pc EXCEPT ![r] = "idle"]
<1>1. CASE UNCHANGED gate
  BY Zenon, <1>1
<1>2. CASE \E x : gate' = [gate EXCEPT !.cond = x] \/ gate' = [gate EXCEPT !.problem = x]
  BY <1>2 DEF IsGate
<1>3. CASE gate' = [gate EXCEPT !.ann = TRUE]
  BY Zenon, <1>3 DEF IsGate
<1>4. CASE gate.st = "live" /\ gate' = [gate EXCEPT !.fin = TRUE]
  BY Zenon, <1>4 DEF IsGate
<1>5. CASE gate.st = "live" /\ gate' = Deleted(gate)
  BY <1>5 DEF IsGate, Deleted
<1>6. CASE \E r \in Replicas : /\ pc[r] = "finish" /\ pc' = [pc EXCEPT ![r] = "idle"]
                               /\ gate = my[r].g /\ gate' = Unheld(gate)
  <2>1. PICK r \in Replicas : /\ pc[r] = "finish" /\ pc' = [pc EXCEPT ![r] = "idle"]
                              /\ gate = my[r].g /\ gate' = Unheld(gate)
    BY Zenon, <1>6
  <2>2. /\ IsGate(gate') /\ (gate.ann => gate'.ann)
        /\ gate.st # "live" => gate'.st # "live"
    BY Zenon, <2>1 DEF IsGate, Unheld
  <2> QED
    BY Zenon, <2>1, <2>2
<1> QED
  BY <1>1, <1>2, <1>3, <1>4, <1>5, <1>6 DEF GateMoves

(* A step is one of a replica's pass, or leaves all passes alone.          *)
LEMMA PassOrNot ==
    ASSUME ShapeInv, Next
    PROVE  /\ leader' \in Replicas /\ ("leader" \notin plan.kinds => leader' = leader)
           /\ \/ UNCHANGED <<pc, my>>
              \/ \E r \in Replicas : PassStep(r) /\ \E c, m : Control(r, c, m)
<1>0. leader \in Replicas
  BY Zenon DEF ShapeInv
<1>1. CASE \E r \in Replicas : PassStep(r)
  <2>1. PICK r \in Replicas : PassStep(r)
    BY <1>1
  <2>2. PICK c, m : Control(r, c, m)
    BY <2>1, PassMoves
  <2>3. UNCHANGED leader
    BY <2>2 DEF Control, Goto
  <2> QED
    BY <1>0, <2>1, <2>2, <2>3
<1>2. CASE \E r \in Replicas : ChangeLeader(r)
  BY <1>2 DEF ChangeLeader, Disturb
<1>3. CASE Controller \/ CollectPool \/ UserSteps
  BY <1>0, <1>3, ControllerFrame, CollectFrame, UserFrame
<1>4. CASE \/ (\E b \in Bindings : CollectBinding(b)) \/ (\E s \in Services : ServiceEvent(s))
           \/ GatewayEvent \/ DeleteGateway
  BY Zenon,
     <1>0, <1>4 DEF CollectBinding, ServiceEvent, GatewayEvent, DeleteGateway, control
<1> QED
  BY <1>1, <1>2, <1>3, <1>4, NextKinds

(* In a step one replica moves, or none; a pass begins at the leader only. *)
LEMMA ReplicaStep ==
    ASSUME ShapeInv, Next
    PROVE  /\ pc' = [r \in Replicas |-> pc'[r]] /\ my' = [r \in Replicas |-> my'[r]]
           /\ \A q \in Replicas :
                 /\ CopyShape(pc'[q], my'[q])
                 /\ \/ pc'[q] = pc[q] /\ my'[q] = my[q]
                    \/ /\ PassStep(q) /\ Moves(pc[q], my[q], pc'[q], my'[q])
                       /\ pc[q] = "idle" => q = leader
<1>0. /\ pc = [r \in Replicas |-> pc[r]] /\ my = [r \in Replicas |-> my[r]]
      /\ \A q \in Replicas : CopyShape(pc[q], my[q])
  BY Zenon DEF ShapeInv
<1>1. CASE UNCHANGED <<pc, my>>
  BY <1>0, <1>1, Zenon
<1>2. ASSUME NEW r \in Replicas, PassStep(r), NEW c, NEW m, Control(r, c, m)
      PROVE  /\ pc' = [q \in Replicas |-> pc'[q]] /\ my' = [q \in Replicas |-> my'[q]]
             /\ \A q \in Replicas :
                 /\ CopyShape(pc'[q], my'[q])
                 /\ \/ pc'[q] = pc[q] /\ my'[q] = my[q]
                    \/ /\ PassStep(q) /\ Moves(pc[q], my[q], pc'[q], my'[q])
                       /\ pc[q] = "idle" => q = leader
  <2>1. /\ pc' = [pc EXCEPT ![r] = c] /\ my' = [my EXCEPT ![r] = m]
        /\ CopyShape(c, m) /\ Moves(pc[r], my[r], c, m) /\ (pc[r] = "idle" => r = leader)
    BY <1>2, Zenon DEF Control, Goto
  <2>2. /\ pc' = [q \in Replicas |-> pc'[q]] /\ my' = [q \in Replicas |-> my'[q]]
        /\ pc'[r] = c /\ my'[r] = m
        /\ \A q \in Replicas \ {r} : pc'[q] = pc[q] /\ my'[q] = my[q]
    BY Zenon, <1>0, <2>1
  <2> QED
    BY <1>0, <1>2, <2>1, <2>2, Zenon
<1> QED
  BY <1>1, <1>2, PassOrNot, Zenon

-----------------------------------------------------------------------------
(* The generated objects: what may become of them.                         *)

FreshPool == [Engine!NoPool EXCEPT !.st = "live", !.fin = TRUE, !.guard = TRUE]
Creates(r) == /\ pc[r] = "pool" /\ Absent(pool) /\ ~my[r].g.ann
              /\ pool' = FreshPool /\ alloc' = Engine!NoLeases /\ UNCHANGED bind
Sealed(r) == /\ pc[r] = "seal" /\ r \notin stale /\ UNCHANGED <<alloc, bind>>
             /\ \/ my[r].p.st = "live" /\ pool' = Engine!Released([pool EXCEPT !.st = "deleting"])
                \/ /\ my[r].p.st = "deleting" /\ my[r].p.guard
                   /\ pool' = Engine!Released([pool EXCEPT !.guard = FALSE])
Binds(r, b, s) == /\ pc[r] = "loop" /\ my[r].rts[b[1]].fin /\ s \in Specs
                  /\ Engine!CreateBinding(b, s)

Generates ==
    \/ UNCHANGED <<pool, alloc, bind>>
    \/ EngineSteps \/ Engine!DeletePool \/ Engine!AddGuard
    \/ \E b \in Bindings : Engine!DeleteBinding(b) \/ Engine!EditBinding(b)
    \/ \E r \in Replicas : Creates(r) \/ Sealed(r)
    \/ \E r \in Replicas : \E b \in Bindings, s \in Specs : Binds(r, b, s)

(* A deletion of a binding by the adapter is the contract's.               *)
LEMMA DeletesBinding ==
    ASSUME AreBindings(bind), NEW b \in Bindings, bind[b].st = "live",
           bind' = [bind EXCEPT ![b] = Deleted(@)], UNCHANGED <<pool, alloc>>
    PROVE  Engine!DeleteBinding(b)
<1>1. PICK st : st = IF bind[b].fin THEN "deleting" ELSE "gone"
  OBVIOUS
<1>2. Deleted(bind[b]) = [bind[b] EXCEPT !.st = st]
  BY <1>1 DEF Deleted
<1>3. bind' = [bind EXCEPT ![b] = [bind[b] EXCEPT !.st = st]]
  BY <1>2
<1>4. bind' = [bind EXCEPT ![b].st = st]
  BY Zenon, <1>3
<1>5. st \in IF bind[b].fin THEN {"deleting"} ELSE {"deleting", "gone"}
  BY <1>1
<1> QED
  BY Zenon, <1>4, <1>5 DEF Engine!DeleteBinding

(* disableBinding is an edit in the sense of the contract, or nothing.     *)
LEMMA Disables ==
    ASSUME NEW b \in Bindings, NEW copy, disableBinding(b, copy)
    PROVE  UNCHANGED <<pool, alloc, bind>> \/ Engine!EditBinding(b)
BY DEF disableBinding, Engine!EditBinding, Exists, Engine!Exists

(* What the adapter does to bindings is what the contract lets a user do.  *)
LEMMA BindGenerates ==
    ASSUME ShapeInv, NEW r \in Replicas, BindSteps(r)
    PROVE  Generates
<1> DEFINE n == my[r]
<1>0. AreBindings(bind) /\ CopyShape(pc[r], n) /\ plan \in PlanSet
  BY Zenon DEF ShapeInv
<1>1. UNCHANGED <<pool, alloc>>
  BY BindFrame
<1>2. CASE UNCHANGED bind
  BY <1>1, <1>2 DEF Generates
<1>3. ASSUME pc[r] \notin {"idle", "bindings"}
      PROVE  /\ DOMAIN n.bs = Bindings
             /\ \A u : Named(n.bs, u) \subseteq Bindings
  <2>1. AreBindings(n.bs)
    BY <1>0, <1>3, Zenon DEF CopyShape
  <2>2. DOMAIN n.bs = Bindings
    BY Zenon, <2>1 DEF AreBindings
  <2> QED
    BY <2>2 DEF Named
<1>4. \A u : Named(bind, u) \subseteq Bindings
  BY <1>0 DEF AreBindings, Named
<1>5. ASSUME NEW b \in Bindings, deleteExact(r, b)
      PROVE  Generates
  <2>1. UNCHANGED bind \/ (bind[b].st = "live" /\ bind' = [bind EXCEPT ![b] = Deleted(@)])
    BY <1>5, Zenon DEF deleteExact
  <2> QED
    BY Zenon, <1>0, <1>1, <1>2, <2>1, DeletesBinding DEF Generates
<1>6. ASSUME NEW b \in Bindings, NEW copy, disableBinding(b, copy)
      PROVE  Generates
  BY <1>6, Disables, Zenon DEF Generates
<1> HIDE DEF n
<1>7. CASE DeleteUnattached(r)
  <2>1. PICK b \in Unattached(n) : deleteExact(r, b)
    BY <1>7 DEF DeleteUnattached, n
  <2>2. b \in Bindings
    BY Zenon, <1>3, <1>7, <2>1 DEF DeleteUnattached, Unattached
  <2> QED
    BY <1>5, <2>1, <2>2
<1>8. CASE RetireBinding(r)
  BY Zenon, <1>5, <1>8 DEF RetireBinding
<1>9. CASE DisableAll(r)
  <2>1. n.todo \subseteq Bindings
    BY <1>0, <1>9 DEF DisableAll, CopyShape
  <2>2. PICK b \in n.todo : disableBinding(b, n.bs[b])
    BY <1>9 DEF DisableAll, n
  <2> QED
    BY <1>6, <2>1, <2>2
<1>10. CASE DisableRoute(r)
  <2>1. \/ UNCHANGED <<pool, alloc, bind, stale>>
        \/ \E b \in Named(n.bs, Turn(n)) : disableBinding(b, n.bs[b])
    BY <1>10, Zenon DEF DisableRoute, n
  <2>2. pc[r] = "loop"
    BY Zenon, <1>10 DEF DisableRoute
  <2> QED
    BY <1>2, <1>3, <1>6, <2>1, <2>2
<1>11. CASE RefuseTarget(r)
  BY <1>4, <1>6, <1>11 DEF RefuseTarget
<1>12. CASE ensureBinding(r)
  <2>1. PICK b \in Named(bind, Turn(n)) :
           /\ bind[b].st = "live"
           /\ UNCHANGED bind \/ bind' = [bind EXCEPT ![b].gen = @ + 1]
    BY <1>12, Zenon DEF ensureBinding, n
  <2>2. CASE bind' = [bind EXCEPT ![b].gen = @ + 1]
    <3>1. Engine!EditBinding(b)
      BY <1>1, <2>1, <2>2 DEF Engine!EditBinding, Engine!Exists
    <3>2. b \in Bindings
      BY <1>4, <2>1
    <3> QED
      BY <3>1, <3>2 DEF Generates
  <2> QED
    BY <1>2, <2>1, <2>2
<1>13. CASE CreateBinding(r)
  <2> DEFINE u == Turn(n)
             s == Wanted(n)
  <2>1. AtBinding(r) /\ pc[r] = "loop" /\ n.todo # {} /\ n.rts[u].fin /\ Verdict(n, u) = "fine"
    BY <1>13 DEF CreateBinding, AtBinding, n
  <2>2. n.todo \subseteq {v \in Routes : Targets(n.rts[v])} /\ AreRoutes(n.rts)
    BY Zenon, <1>0, <2>1 DEF CopyShape
  <2>3. u \in n.todo
    BY <2>1, <2>2, TurnIn
  <2>4. u \in Routes /\ Targets(n.rts[u]) /\ IsRoute(n.rts[u])
    BY <2>2, <2>3 DEF AreRoutes
  <2>5. s \in Specs
    <3>1. n.rts[u].to # Unsupported
      BY <2>1 DEF Verdict
    <3>2. n.rts[u].to \in Listeners /\ n.rts[u].svc \in Services
      BY Zenon, <2>4, <3>1 DEF Targets, IsRoute
    <3> QED
      BY <3>2 DEF Wanted, Specs
  <2> HIDE DEF u, s
  <2>6. PICK i \in 1..plan.again :
           /\ bind[<<u, i>>].st = "unborn"
           /\ bind' = [bind EXCEPT ![<<u, i>>].st = "live", ![<<u, i>>].spec = s]
    BY <1>13, Zenon DEF CreateBinding, n, u, s
  <2>7. PICK b : b = <<u, i>>
    BY Zenon
  <2>8. b \in Bindings /\ b[1] = u
    <3>1. plan.again \in 1..Generations /\ Generations \in Nat
      BY Zenon, <1>0, AdapterConstants DEF PlanSet
    <3>2. i \in 1..Generations
      BY <3>1
    <3> QED
      BY <2>4, <2>7, <3>2 DEF Bindings
  <2>9. Engine!CreateBinding(b, s)
    BY <1>1, <2>6, <2>7 DEF Engine!CreateBinding
  <2>10. Binds(r, b, s)
    BY Zenon, <2>1, <2>5, <2>8, <2>9 DEF Binds, n, u
  <2> QED
    BY <2>5, <2>8, <2>10 DEF Generates
<1> QED
  BY <1>7, <1>8, <1>9, <1>10, <1>11, <1>12, <1>13 DEF BindSteps

(* What the adapter does to the pool is what the contract lets a user do,  *)
(* or the last write of a sealed pool.                                     *)
LEMMA PoolGenerates ==
    ASSUME ShapeInv, NEW r \in Replicas, SealCopy(r), PoolSteps(r)
    PROVE  Generates
<1>0. IsPool(pool) /\ IsLedger(alloc) /\ UNCHANGED bind
  BY Zenon, PoolFrame DEF ShapeInv
<1>1. CASE ensurePool(r)
  <2>1. CASE Absent(pool)
    <3>1. Creates(r)
      BY <1>0, <1>1, <2>1 DEF ensurePool, Creates, FreshPool
    <3> QED
      BY <3>1 DEF Generates
  <2>2. CASE ~Absent(pool)
    <3>1. pool.st = "live" /\ pool' = [pool EXCEPT !.guard = TRUE] /\ UNCHANGED alloc
      BY <1>1, <2>2 DEF ensurePool
    <3>2. CASE pool.guard
      <4>1. pool' = pool
        BY Zenon, <1>0, <3>1, <3>2 DEF IsPool
      <4> QED
        BY <1>0, <3>1, <4>1 DEF Generates
    <3>3. CASE ~pool.guard
      BY Zenon, <1>0, <3>1, <3>3 DEF Generates, Engine!AddGuard
    <3> QED
      BY <3>2, <3>3
  <2> QED
    BY <2>1, <2>2
<1>2. CASE RetireRead(r)
  BY Zenon, <1>2 DEF RetireRead, Generates
<1>3. CASE GuardPool(r)
  BY <1>0, <1>3 DEF GuardPool, Generates, Engine!AddGuard
<1>4. CASE Seal(r)
  <2>1. CASE r \in stale \/ (my[r].p.st = "deleting" /\ ~my[r].p.guard)
    BY Zenon, <1>0, <1>4, <2>1 DEF Seal, Generates
  <2>2. CASE ~(r \in stale \/ (my[r].p.st = "deleting" /\ ~my[r].p.guard))
    <3>1. my[r].p.st \in {"live", "deleting"}
      BY Zenon, <1>4 DEF Seal, SealCopy, Exists
    <3>2. Sealed(r)
      BY Zenon, <1>0, <1>4, <2>2, <3>1 DEF Seal, Sealed
    <3> QED
      BY Zenon, <3>2 DEF Generates
  <2> QED
    BY Zenon, <2>1, <2>2
<1> QED
  BY <1>1, <1>2, <1>3, <1>4 DEF PoolSteps

(* What a step may do to pool, ledger and bindings.                        *)
LEMMA GeneratedStep ==
    ASSUME ShapeInv, \A r \in Replicas : SealCopy(r), Next
    PROVE  Generates
<1>0. AreBindings(bind)
  BY Zenon DEF ShapeInv
<1>1. CASE \E r \in Replicas : PassStep(r)
  BY <1>1, BindGenerates, PoolGenerates, ReadFrame, RouteFrame, GateFrame, ArchiveFrame, Zenon
     DEF PassStep, Generates
<1>2. CASE \E b \in Bindings : CollectBinding(b)
  BY Zenon, <1>0, <1>2, DeletesBinding DEF CollectBinding, Generates
<1>3. CASE \/ (\E r \in Replicas : ChangeLeader(r)) \/ (\E s \in Services : ServiceEvent(s))
           \/ GatewayEvent \/ DeleteGateway
  BY <1>3, Zenon DEF ChangeLeader, ServiceEvent, GatewayEvent, DeleteGateway, generated, Generates
<1> QED
  BY <1>1, <1>2, <1>3, NextKinds, ControllerFrame, CollectFrame, UserFrame, Zenon DEF Generates

(* The pool and its ledger, apart from the bindings.                       *)
Tended == Exists(pool) /\ pool'.st = pool.st /\ pool'.guard = pool.guard /\ IsPool(pool')
Released == Exists(pool) /\ pool' = Engine!Released([pool EXCEPT !.fin = FALSE])
Dropped == pool.st = "live" /\ pool' = Engine!Released([pool EXCEPT !.st = "deleting"])
Guarded == pool.st = "live" /\ pool' = [pool EXCEPT !.guard = TRUE]

(* The same, by its effect on the pool.                                    *)
LEMMA PoolMotion ==
    ASSUME IsPool(pool), Generates
    PROVE  \/ UNCHANGED <<pool, alloc>> \/ Tended
           \/ UNCHANGED alloc /\ (Released \/ Dropped \/ Guarded)
           \/ \E r \in Replicas : Creates(r) \/ Sealed(r)
<1>1. CASE Engine!Provision
  <2>1. /\ pool.st = "live" \/ pool.st = "deleting"
        /\ \/ pool' = [pool EXCEPT !.shard = "id", !.pending = TRUE]
           \/ pool' = [pool EXCEPT !.shard = "ip", !.pending = FALSE]
    BY <1>1, Zenon DEF Engine!Provision
  <2> QED
    BY Zenon, <2>1 DEF Tended, IsPool, Exists
<1>2. CASE Engine!StartWork \/ Engine!EndWork
  <2>1. /\ Exists(pool)
        /\ \/ pool' = [pool EXCEPT !.pending = TRUE]
           \/ pool' = [pool EXCEPT !.pending = FALSE]
    BY <1>2 DEF Engine!StartWork, Engine!EndWork, Engine!Exists, Exists
  <2> QED
    BY Zenon, <2>1 DEF Tended, IsPool
<1>3. CASE Engine!ReleasePool
  BY <1>3 DEF Engine!ReleasePool, Released, Exists
<1>4. CASE \E b \in Bindings : Engine!Grant(b) \/ Engine!Retire(b)
  <2>1. Exists(pool) /\ UNCHANGED pool
    BY Zenon, <1>4 DEF Engine!Grant, Engine!Retire, Engine!Exists, Exists
  <2> QED
    BY Zenon, <2>1 DEF Tended
<1>5. CASE \E b \in Bindings :
              \/ Engine!HoldBinding(b) \/ Engine!ReleaseBinding(b)
              \/ \E c \in {"True", "False"}, g \in 0..bind[b].gen : Engine!Report(b, c, g)
  BY <1>5, Zenon DEF Engine!HoldBinding, Engine!ReleaseBinding, Engine!Report
<1>6. CASE Engine!DeletePool
  BY Zenon, <1>6 DEF Engine!DeletePool, Dropped
<1>7. CASE Engine!AddGuard
  BY <1>7 DEF Engine!AddGuard, Guarded
<1>8. CASE \E b \in Bindings : Engine!DeleteBinding(b) \/ Engine!EditBinding(b)
  BY <1>8, Zenon DEF Engine!DeleteBinding, Engine!EditBinding
<1>9. CASE \E r \in Replicas : \E b \in Bindings, s \in Specs : Binds(r, b, s)
  BY <1>9, Zenon DEF Binds, Engine!CreateBinding
<1> QED
  BY <1>1, <1>2, <1>3, <1>4, <1>5, <1>6, <1>7, <1>8, <1>9, Zenon DEF Generates, EngineSteps

(* A pool that the engine releases is gone unless the guard finalizer      *)
(* holds it.                                                               *)
LEMMA ReleasedIs ==
    ASSUME NEW p, IsPool(p)
    PROVE  /\ IsPool(Engine!Released(p)) /\ Engine!Released(p).guard = p.guard
           /\ Engine!Released(p).shard = p.shard
           /\ Engine!Released(p).st = IF p.fin \/ p.guard THEN p.st ELSE "gone"
BY Zenon DEF IsPool, Engine!Released, Engine!Held

(* A replica seals the pool it has seen, and its ledger is archived; only  *)
(* a pool that the NLBPool controller has released is gone by it.          *)
LEMMA SealedIs ==
    ASSUME IsPool(pool), NEW r, SealCopy(r), Sealed(r)
    PROVE  /\ Exists(pool) /\ archive = [alloc |-> alloc, shard |-> pool.shard]
           /\ Engine!Active(alloc) = {} /\ UNCHANGED alloc
           /\ IsPool(pool') /\ pool'.st # "none" /\ pool'.shard = pool.shard
           /\ Exists(pool') => pool'.guard
           /\ pool.st = "live" => Dropped
           /\ pool.st = "deleting" => /\ pool.guard
                                      /\ pool' = Engine!Released([pool EXCEPT !.guard = FALSE])
<1>1. /\ my[r].p = pool /\ my[r].a = alloc /\ Engine!Active(alloc) = {} /\ Exists(pool)
      /\ pool.st = "live" => pool.guard
      /\ pool.st = "deleting" => ~pool.fin
      /\ archive = Ledger(my[r])
  BY Zenon DEF Sealed, SealCopy
<1>2. archive = [alloc |-> alloc, shard |-> pool.shard] /\ UNCHANGED alloc
  BY <1>1 DEF Ledger, Sealed
<1>3. CASE pool.st = "live"
  <2>1. /\ pool' = Engine!Released([pool EXCEPT !.st = "deleting"])
        /\ IsPool([pool EXCEPT !.st = "deleting"]) /\ [pool EXCEPT !.st = "deleting"].st = "deleting"
        /\ [pool EXCEPT !.st = "deleting"].guard = pool.guard
        /\ [pool EXCEPT !.st = "deleting"].shard = pool.shard
    BY Zenon, <1>1, <1>3 DEF Sealed, IsPool
  <2>2. IsPool(pool') /\ pool'.st # "none" /\ pool'.shard = pool.shard /\ pool'.guard
    BY Zenon, <1>1, <1>3, <2>1, ReleasedIs
  <2> QED
    BY <1>1, <1>2, <1>3, <2>1, <2>2 DEF Dropped
<1>4. CASE pool.st = "deleting"
  <2>1. /\ pool' = Engine!Released([pool EXCEPT !.guard = FALSE]) /\ pool.guard
        /\ IsPool([pool EXCEPT !.guard = FALSE]) /\ [pool EXCEPT !.guard = FALSE].st = "deleting"
        /\ [pool EXCEPT !.guard = FALSE].guard = FALSE
        /\ [pool EXCEPT !.guard = FALSE].fin = pool.fin
        /\ [pool EXCEPT !.guard = FALSE].shard = pool.shard
    BY Zenon, <1>1, <1>4 DEF Sealed, IsPool
  <2>2. IsPool(pool') /\ pool'.st = "gone" /\ pool'.shard = pool.shard
    BY Zenon, <1>1, <1>4, <2>1, ReleasedIs
  <2> QED
    BY Zenon, <1>1, <1>2, <1>4, <2>1, <2>2 DEF Exists
<1> QED
  BY <1>1, <1>3, <1>4 DEF Exists

(* What becomes of the pool in a step.                                     *)
LEMMA PoolKept ==
    ASSUME IsPool(pool), \A r \in Replicas : SealCopy(r), Generates
    PROVE  /\ IsPool(pool')
           /\ Absent(pool) => \/ UNCHANGED <<pool, alloc>>
                              \/ \E r \in Replicas : Creates(r)
           /\ pool'.st = "none" => UNCHANGED <<pool, alloc>>
           /\ Exists(pool) /\ pool.guard =>
                 \/ Exists(pool') /\ pool'.guard
                 \/ \E r \in Replicas : Sealed(r)
<1>1. CASE UNCHANGED <<pool, alloc>>
  BY Zenon, <1>1 DEF Exists
<1>2. CASE Tended
  BY Zenon, <1>2 DEF Tended, Exists, Absent
<1>3. CASE UNCHANGED alloc /\ Released
  <2>1. IsPool([pool EXCEPT !.fin = FALSE]) /\ [pool EXCEPT !.fin = FALSE].guard = pool.guard
        /\ [pool EXCEPT !.fin = FALSE].st = pool.st
    BY Zenon DEF IsPool
  <2>2. /\ IsPool(pool') /\ pool'.guard = pool.guard /\ Exists(pool)
        /\ pool'.st = "gone" \/ pool'.st = pool.st
        /\ pool.guard => pool'.st = pool.st
    BY Zenon, <1>3, <2>1, ReleasedIs DEF Released
  <2> QED
    BY Zenon, <2>2 DEF Exists, Absent
<1>4. CASE UNCHANGED alloc /\ Dropped
  <2>1. IsPool([pool EXCEPT !.st = "deleting"]) /\ [pool EXCEPT !.st = "deleting"].guard = pool.guard
        /\ [pool EXCEPT !.st = "deleting"].st = "deleting"
    BY DEF IsPool
  <2>2. /\ IsPool(pool') /\ pool'.guard = pool.guard /\ pool.st = "live"
        /\ pool'.st = "gone" \/ pool'.st = "deleting"
        /\ pool.guard => pool'.st = "deleting"
    BY Zenon, <1>4, <2>1, ReleasedIs DEF Dropped
  <2> QED
    BY Zenon, <2>2 DEF Exists, Absent
<1>5. CASE UNCHANGED alloc /\ Guarded
  BY Zenon, <1>5 DEF Guarded, Exists, Absent, IsPool
<1>6. CASE \E r \in Replicas : Creates(r)
  <2>1. IsPool(pool') /\ pool'.st = "live" /\ Absent(pool)
    BY Zenon, <1>6 DEF Creates, FreshPool, IsPool, Engine!NoPool
  <2> QED
    BY Zenon, <1>6, <2>1 DEF Absent, Exists
<1>7. CASE \E r \in Replicas : Sealed(r)
  <2>1. PICK r \in Replicas : Sealed(r)
    BY Zenon, <1>7
  <2>2. IsPool(pool') /\ pool'.st # "none" /\ Exists(pool)
    BY <2>1, SealedIs
  <2> QED
    BY Zenon, <2>1, <2>2 DEF Exists, Absent
<1> QED
  BY Zenon, <1>1, <1>2, <1>3, <1>4, <1>5, <1>6, <1>7, PoolMotion

(* The bindings: one at a time is written.  A lease in use keeps its       *)
(* binding, and only a pass in its loop creates one.                       *)
Rebinds(b, x) ==
    /\ bind' = [bind EXCEPT ![b] = x] /\ IsBinding(x) /\ UNCHANGED <<pool, alloc>>
    /\ b \in Engine!Active(alloc) /\ Exists(bind[b]) /\ bind[b].fin => Exists(x) /\ x.fin
    /\ \/ Exists(x) => Exists(bind[b])
       \/ \E r \in Replicas, s \in Specs : Binds(r, b, s)

(* The same, by its effect on the bindings: one binding changes.           *)
LEMMA BindMotion ==
    ASSUME AreBindings(bind), Generates
    PROVE  UNCHANGED bind \/ \E b \in Bindings : \E x : Rebinds(b, x)
<1>0. ASSUME NEW b \in Bindings PROVE IsBinding(bind[b])
  BY Zenon DEF AreBindings
<1>1. ASSUME NEW b \in Bindings, Engine!HoldBinding(b)
      PROVE  \E x : Rebinds(b, x)
  <2>1. PICK x : x = [bind[b] EXCEPT !.fin = TRUE]
    BY Zenon
  <2>2. bind' = [bind EXCEPT ![b] = x] /\ UNCHANGED <<pool, alloc>>
    BY <1>1, <2>1 DEF Engine!HoldBinding
  <2>3. IsBinding(x) /\ x.fin /\ x.st = bind[b].st
    BY Zenon, <1>0, <2>1 DEF IsBinding
  <2> QED
    BY Zenon, <2>2, <2>3 DEF Rebinds, Exists
<1>2. ASSUME NEW b \in Bindings, Engine!ReleaseBinding(b)
      PROVE  \E x : Rebinds(b, x)
  <2>1. PICK st \in {"deleting", "gone"} : bind' = [bind EXCEPT ![b].fin = FALSE, ![b].st = st]
    BY Zenon, <1>2 DEF Engine!ReleaseBinding
  <2>2. PICK x : x = [bind[b] EXCEPT !.fin = FALSE, !.st = st]
    BY Zenon
  <2>3. /\ bind' = [bind EXCEPT ![b] = x] /\ UNCHANGED <<pool, alloc>>
        /\ bind[b].st = "deleting" /\ b \notin Engine!Active(alloc)
    BY Zenon, <1>2, <2>1, <2>2 DEF Engine!ReleaseBinding, AreBindings
  <2>4. IsBinding(x)
    BY Zenon, <1>0, <2>2 DEF IsBinding, States
  <2> QED
    BY Zenon, <2>3, <2>4 DEF Rebinds, Exists
<1>3. ASSUME NEW b \in Bindings, NEW c, NEW g, Engine!Report(b, c, g)
      PROVE  \E x : Rebinds(b, x)
  <2>1. PICK x : x = [bind[b] EXCEPT !.cond = c, !.og = g]
    BY Zenon
  <2>2. bind' = [bind EXCEPT ![b] = x] /\ UNCHANGED <<pool, alloc>>
    BY Zenon, <1>3, <2>1 DEF Engine!Report, AreBindings
  <2>3. IsBinding(x) /\ x.fin = bind[b].fin /\ x.st = bind[b].st
    BY Zenon, <1>0, <2>1 DEF IsBinding
  <2> QED
    BY Zenon, <2>2, <2>3 DEF Rebinds, Exists
<1>4. ASSUME NEW b \in Bindings, Engine!DeleteBinding(b)
      PROVE  \E x : Rebinds(b, x)
  <2>1. PICK st \in IF bind[b].fin THEN {"deleting"} ELSE {"deleting", "gone"} :
           bind' = [bind EXCEPT ![b].st = st]
    BY Zenon, <1>4 DEF Engine!DeleteBinding
  <2>2. PICK x : x = [bind[b] EXCEPT !.st = st]
    BY Zenon
  <2>3. bind' = [bind EXCEPT ![b] = x] /\ UNCHANGED <<pool, alloc>> /\ bind[b].st = "live"
    BY Zenon, <1>4, <2>1, <2>2 DEF Engine!DeleteBinding
  <2>4. IsBinding(x) /\ x.fin = bind[b].fin /\ x.st = st
    BY Zenon, <1>0, <2>1, <2>2 DEF IsBinding, States
  <2> QED
    BY Zenon, <2>1, <2>3, <2>4 DEF Rebinds, Exists
<1>5. ASSUME NEW b \in Bindings, Engine!EditBinding(b)
      PROVE  \E x : Rebinds(b, x)
  <2>1. PICK x : x = [bind[b] EXCEPT !.gen = @ + 1]
    BY Zenon
  <2>2. bind' = [bind EXCEPT ![b] = x] /\ UNCHANGED <<pool, alloc>>
    BY <1>5, <2>1 DEF Engine!EditBinding
  <2>3. IsBinding(x) /\ x.fin = bind[b].fin /\ x.st = bind[b].st
    BY <1>0, <2>1 DEF IsBinding
  <2> QED
    BY Zenon, <2>2, <2>3 DEF Rebinds, Exists
<1>6. ASSUME NEW r \in Replicas, NEW b \in Bindings, NEW s \in Specs, Binds(r, b, s)
      PROVE  \E x : Rebinds(b, x)
  <2>1. PICK x : x = [bind[b] EXCEPT !.st = "live", !.spec = s]
    BY Zenon
  <2>2. bind' = [bind EXCEPT ![b] = x] /\ UNCHANGED <<pool, alloc>> /\ bind[b].st = "unborn"
    BY Zenon, <1>6, <2>1 DEF Binds, Engine!CreateBinding, AreBindings
  <2>3. IsBinding(x)
    BY Zenon, <1>0, <2>1 DEF IsBinding, States
  <2> QED
    BY Zenon, <1>6, <2>2, <2>3 DEF Rebinds, Exists
<1>7. CASE \/ Engine!Provision \/ Engine!StartWork \/ Engine!EndWork \/ Engine!ReleasePool
           \/ (\E b \in Bindings : Engine!Grant(b) \/ Engine!Retire(b))
           \/ Engine!DeletePool \/ Engine!AddGuard
           \/ (\E r \in Replicas : Creates(r) \/ Sealed(r))
  BY <1>7, Zenon DEF Engine!Provision, Engine!StartWork, Engine!EndWork, Engine!ReleasePool,
     Engine!Grant, Engine!Retire, Engine!DeletePool, Engine!AddGuard, Creates, Sealed
<1> QED
  BY <1>1, <1>2, <1>3, <1>4, <1>5, <1>6, <1>7, Zenon DEF Generates, EngineSteps

(* Bindings stay well formed, and a new one is made by a replica that      *)
(* binds a route.                                                          *)
LEMMA BindKept ==
    ASSUME AreBindings(bind), Generates
    PROVE  /\ AreBindings(bind')
           /\ \A b \in Bindings :
                 Exists(bind'[b]) => \/ Exists(bind[b])
                                     \/ \E r \in Replicas, s \in Specs : Binds(r, b, s)
<1>1. CASE UNCHANGED bind
  BY Zenon, <1>1
<1>2. ASSUME NEW b \in Bindings, NEW x, Rebinds(b, x)
      PROVE  /\ AreBindings(bind')
             /\ \A d \in Bindings :
                 Exists(bind'[d]) => \/ Exists(bind[d])
                                     \/ \E r \in Replicas, s \in Specs : Binds(r, d, s)
  <2>1. bind' = [bind EXCEPT ![b] = x] /\ IsBinding(x)
    BY Zenon, <1>2 DEF Rebinds
  <2>2. /\ bind' = [d \in Bindings |-> bind'[d]] /\ bind'[b] = x
        /\ \A d \in Bindings \ {b} : bind'[d] = bind[d]
    BY <2>1 DEF AreBindings
  <2>3. AreBindings(bind')
    BY <2>1, <2>2 DEF AreBindings
  <2> QED
    BY Zenon, <1>2, <2>2, <2>3 DEF Rebinds
<1> QED
  BY Zenon, <1>1, <1>2, BindMotion

(* An active lease keeps its binding, with the engine's finalizer.         *)
LEMMA LeaseKept ==
    ASSUME IsPool(pool), IsLedger(alloc), AreBindings(bind), Generates, LeaseHeld
    PROVE  IsLedger(alloc') /\ LeaseHeld'
<1>1. CASE UNCHANGED alloc
  <2>1. CASE UNCHANGED bind
    BY Zenon, <1>1, <2>1 DEF LeaseHeld
  <2>2. ASSUME NEW b \in Bindings, NEW x, Rebinds(b, x)
        PROVE  LeaseHeld'
    <3>1. \A d \in Engine!Active(alloc) : d \in Bindings
      BY Zenon DEF IsLedger, Engine!Active
    <3>2. bind' = [bind EXCEPT ![b] = x]
      BY <2>2 DEF Rebinds
    <3>3. bind'[b] = x /\ \A d \in Bindings \ {b} : bind'[d] = bind[d]
      BY <3>2 DEF AreBindings
    <3> QED
      BY Zenon, <1>1, <2>2, <3>1, <3>3 DEF LeaseHeld, Rebinds
  <2> QED
    BY Zenon, <1>1, <2>1, <2>2, BindMotion
<1>2. ASSUME NEW b \in Bindings, Engine!Grant(b)
      PROVE  IsLedger(alloc') /\ LeaseHeld'
  <2> DEFINE l == [port |-> bind[b].spec.port, tomb |-> FALSE]
  <2>1. /\ alloc' = [v \in DOMAIN alloc \cup {b} |-> IF v = b THEN l ELSE alloc[v]]
        /\ UNCHANGED bind /\ Exists(bind[b]) /\ bind[b].fin
    BY Zenon, <1>2 DEF Engine!Grant, Exists, Engine!Exists
  <2>2. l \in [port : {l.port}, tomb : BOOLEAN]
    OBVIOUS
  <2> HIDE DEF l
  <2>3. /\ DOMAIN alloc' = DOMAIN alloc \cup {b} /\ alloc'[b] = l
        /\ \A v \in DOMAIN alloc \ {b} : alloc'[v] = alloc[v]
    BY <2>1
  <2>4. IsLedger(alloc')
    BY <2>1, <2>2, <2>3 DEF IsLedger
  <2>5. Engine!Active(alloc') \subseteq Engine!Active(alloc) \cup {b}
    BY Zenon, <2>3 DEF Engine!Active
  <2> QED
    BY <2>1, <2>4, <2>5 DEF LeaseHeld
<1>3. ASSUME NEW b \in Bindings, Engine!Retire(b)
      PROVE  IsLedger(alloc') /\ LeaseHeld'
  <2>1. alloc' = [alloc EXCEPT ![b].tomb = TRUE] /\ UNCHANGED bind /\ b \in DOMAIN alloc
    BY Zenon, <1>3 DEF Engine!Retire, Engine!Active
  <2>2. PICK l : l = [alloc[b] EXCEPT !.tomb = TRUE]
    BY Zenon
  <2>3. l \in [port : {l.port}, tomb : BOOLEAN] /\ l.tomb
    BY Zenon, <2>1, <2>2 DEF IsLedger
  <2>4. /\ DOMAIN alloc' = DOMAIN alloc /\ alloc'[b] = l
        /\ \A v \in DOMAIN alloc \ {b} : alloc'[v] = alloc[v]
        /\ alloc' = [v \in DOMAIN alloc' |-> alloc'[v]]
    BY Zenon, <2>1, <2>2 DEF IsLedger
  <2>5. IsLedger(alloc')
    BY Zenon, <2>3, <2>4 DEF IsLedger
  <2>6. Engine!Active(alloc') \subseteq Engine!Active(alloc)
    BY <2>3, <2>4 DEF Engine!Active
  <2> QED
    BY Zenon, <2>1, <2>5, <2>6 DEF LeaseHeld
<1>4. CASE alloc' = Engine!NoLeases
  <2>1. DOMAIN alloc' = {} /\ alloc' = [b \in DOMAIN alloc' |-> alloc'[b]]
    BY Zenon, <1>4 DEF Engine!NoLeases
  <2>2. Engine!Active(alloc') = {}
    BY <2>1 DEF Engine!Active
  <2> QED
    BY Zenon, <2>1, <2>2 DEF IsLedger, LeaseHeld
<1>5. \/ UNCHANGED alloc \/ alloc' = Engine!NoLeases
      \/ \E b \in Bindings : Engine!Grant(b) \/ Engine!Retire(b)
  BY Zenon DEF Generates, EngineSteps, Engine!Provision, Engine!StartWork, Engine!EndWork,
     Engine!ReleasePool, Engine!HoldBinding, Engine!ReleaseBinding, Engine!Report,
     Engine!DeletePool, Engine!AddGuard, Engine!DeleteBinding, Engine!EditBinding,
     Creates, Sealed, Binds, Engine!CreateBinding
<1> QED
  BY Zenon, <1>1, <1>2, <1>3, <1>4, <1>5

-----------------------------------------------------------------------------
(* The routes: what may become of them.                                    *)

Edits(u, x) == /\ dirty' = dirty \cup (Replicas \X {u})
               /\ x.fin = route[u].fin /\ (x.fin => Exists(x))
Patches(r, u, x) == RouteWritten(r, u) /\ x.st = route[u].st /\ x.fin = route[u].fin
Holds(r, u, x) == /\ RouteWritten(r, u) /\ <<r, u>> \notin dirty /\ pc[r] = "loop"
                  /\ my[r].rts[u].st = "live" /\ x.st = route[u].st /\ x.fin
Releases(r, u, x) == /\ RouteWritten(r, u) /\ pc[r] = "cleanup" /\ u \in Releasable(my[r])
                     /\ pc' = [pc EXCEPT ![r] = "idle"] /\ x = Unheld(route[u])

RouteMoves ==
    \/ UNCHANGED <<route, dirty>>
    \/ UNCHANGED route /\ \E r \in Replicas : /\ dirty' = dirty \ ({r} \X Routes)
                                              /\ my' = [my EXCEPT ![r] = [Blank EXCEPT !.rts = route]]
    \/ \E u \in Routes : \E x :
          /\ route' = [route EXCEPT ![u] = x] /\ IsRoute(x)
          /\ Edits(u, x) \/ \E r \in Replicas : Patches(r, u, x) \/ Holds(r, u, x) \/ Releases(r, u, x)

(* A status report writes one route, if the copy is not outdated.          *)
LEMMA RouteStatusMoves ==
    ASSUME AreRoutes(route), NEW r \in Replicas, NEW u \in Routes, NEW c, routeStatus(r, u, c)
    PROVE  RouteMoves
<1>1. CASE UNCHANGED <<route, dirty>>
  BY Zenon, <1>1 DEF RouteMoves
<1>2. CASE route' = [route EXCEPT ![u].cond = c] /\ RouteWritten(r, u)
  <2>1. PICK x : x = [route[u] EXCEPT !.cond = c]
    BY Zenon
  <2>2. route' = [route EXCEPT ![u] = x]
    BY <1>2, <2>1
  <2>3. IsRoute(x) /\ x.st = route[u].st /\ x.fin = route[u].fin
    BY <2>1 DEF AreRoutes, IsRoute
  <2>4. Patches(r, u, x)
    BY <1>2, <2>3 DEF Patches
  <2> QED
    BY Zenon, <2>2, <2>3, <2>4 DEF RouteMoves
<1> QED
  BY Zenon, <1>1, <1>2 DEF routeStatus

(* What the adapter does to routes.                                        *)
LEMMA RouteWrites ==
    ASSUME ShapeInv, NEW r \in Replicas, RouteSteps(r)
    PROVE  RouteMoves
<1> DEFINE n == my[r]
<1>0. AreRoutes(route) /\ CopyShape(pc[r], n) /\ pc = [q \in Replicas |-> pc[q]]
  BY Zenon DEF ShapeInv
<1>5. ASSUME NEW u \in Routes PROVE IsRoute(route[u])
  BY <1>0 DEF AreRoutes
<1> HIDE DEF n
<1>1. CASE ReleaseRoute(r)
  <2>1. PICK u \in Releasable(n) :
           IF <<r, u>> \in dirty THEN UNCHANGED <<route, dirty>>
           ELSE route' = [route EXCEPT ![u] = Unheld(@)] /\ RouteWritten(r, u)
    BY <1>1, Zenon DEF ReleaseRoute, n
  <2>2. CASE UNCHANGED <<route, dirty>>
    BY Zenon, <2>2 DEF RouteMoves
  <2>3. CASE route' = [route EXCEPT ![u] = Unheld(@)] /\ RouteWritten(r, u)
    <3>1. u \in Routes
      BY Zenon, <2>1 DEF Releasable
    <3>2. PICK x : x = Unheld(route[u])
      OBVIOUS
    <3>3. IsRoute(x)
      BY Zenon, <1>5, <3>1, <3>2 DEF Unheld, IsRoute, States
    <3>4. route' = [route EXCEPT ![u] = x]
      BY Zenon, <2>3, <3>2
    <3>5. Releases(r, u, x)
      BY Zenon,
         <1>1, <2>1, <2>3, <3>2 DEF Releases, ReleaseRoute, EndPass, Goto, n
    <3> QED
      BY Zenon, <3>1, <3>3, <3>4, <3>5 DEF RouteMoves
  <2> QED
    BY Zenon, <2>1, <2>2, <2>3
<1>2. CASE rejectRoutes(r)
  <2>1. n.todo \subseteq Routes
    BY Zenon, <1>0, <1>2 DEF rejectRoutes, CopyShape
  <2>2. PICK u \in n.todo : routeStatus(r, u, "rejected")
    BY Zenon, <1>2 DEF rejectRoutes, n
  <2> QED
    BY Zenon, <1>0, <2>1, <2>2, RouteStatusMoves
<1>3. CASE AddRouteFinalizer(r)
  <2> DEFINE u == Turn(n)
  <2>1. /\ pc[r] = "loop" /\ n.todo # {}
        /\ \/ UNCHANGED <<route, dirty>>
           \/ /\ <<r, u>> \notin dirty /\ route' = [route EXCEPT ![u].fin = TRUE]
              /\ RouteWritten(r, u)
    BY Zenon, <1>3 DEF AddRouteFinalizer, n
  <2>2. n.todo \subseteq {v \in Routes : Targets(n.rts[v])}
    BY <1>0, <2>1 DEF CopyShape
  <2>3. u \in n.todo
    BY <2>1, <2>2, TurnIn
  <2>4. u \in Routes /\ n.rts[u].st = "live"
    BY Zenon, <2>2, <2>3 DEF Targets
  <2> HIDE DEF u
  <2>5. CASE UNCHANGED <<route, dirty>>
    BY <2>5 DEF RouteMoves
  <2>6. CASE /\ <<r, u>> \notin dirty /\ route' = [route EXCEPT ![u].fin = TRUE]
             /\ RouteWritten(r, u)
    <3>1. PICK x : x = [route[u] EXCEPT !.fin = TRUE]
      BY Zenon
    <3>2. IsRoute(x) /\ x.st = route[u].st /\ x.fin
      BY Zenon, <1>5, <2>4, <3>1 DEF IsRoute
    <3>3. route' = [route EXCEPT ![u] = x]
      BY Zenon, <2>6, <3>1
    <3>4. Holds(r, u, x)
      BY Zenon, <2>1, <2>4, <2>6, <3>2 DEF Holds, n
    <3> QED
      BY Zenon, <2>4, <3>2, <3>3, <3>4 DEF RouteMoves
  <2> QED
    BY <2>1, <2>5, <2>6
<1>4. CASE RouteStatus(r)
  <2>1. n.turn \in Routes
    BY Zenon, <1>0, <1>4 DEF RouteStatus, CopyShape
  <2>2. routeStatus(r, n.turn, n.say)
    BY Zenon, <1>4 DEF RouteStatus, n
  <2> QED
    BY Zenon, <1>0, <2>1, <2>2, RouteStatusMoves
<1> QED
  BY Zenon, <1>1, <1>2, <1>3, <1>4 DEF RouteSteps

(* What users do to routes.                                                *)
LEMMA UserMoves ==
    ASSUME ShapeInv, \A u \in Routes : route[u].fin => Exists(route[u]), UserSteps
    PROVE  RouteMoves
<1>0. ASSUME NEW u \in Routes PROVE IsRoute(route[u])
  BY Zenon DEF ShapeInv, AreRoutes
<1>1. ASSUME NEW u \in Routes, NEW x, UserWrites(u, x), IsRoute(x), x.fin = route[u].fin,
             x.fin => Exists(x)
      PROVE  RouteMoves
  BY <1>1, Zenon DEF UserWrites, Edits, RouteMoves
<1>2. ASSUME NEW u \in Routes, CreateRoute(u) PROVE RouteMoves
  <2>1. PICK x : x = [route[u] EXCEPT !.st = "live"]
    BY Zenon
  <2>2. UserWrites(u, x)
    BY <1>2, <2>1 DEF CreateRoute
  <2>3. IsRoute(x) /\ x.fin = route[u].fin /\ Exists(x)
    BY Zenon, <1>0, <2>1 DEF IsRoute, Exists, States
  <2> QED
    BY Zenon, <1>1, <2>2, <2>3
<1>3. ASSUME NEW u \in Routes, DeleteRoute(u) PROVE RouteMoves
  <2>1. PICK x : x = Deleted(route[u])
    BY Zenon
  <2>2. UserWrites(u, x)
    BY <1>3, <2>1 DEF DeleteRoute
  <2>3. IsRoute(x) /\ x.fin = route[u].fin /\ (x.fin => Exists(x))
    BY Zenon, <1>0, <2>1 DEF IsRoute, Deleted, Exists, States
  <2> QED
    BY Zenon, <1>1, <2>2, <2>3
<1>4. ASSUME NEW u \in Routes, Reparent(u) PROVE RouteMoves
  <2>1. PICK to \in Listeners \cup {Detached, Elsewhere, Unsupported} :
           UserWrites(u, [route[u] EXCEPT !.to = to])
    BY <1>4, Zenon DEF Reparent
  <2>2. PICK x : x = [route[u] EXCEPT !.to = to]
    BY Zenon
  <2>3. IsRoute(x) /\ x.fin = route[u].fin /\ x.st = route[u].st /\ route[u].st = "live"
    BY <1>0, <1>4, <2>2 DEF IsRoute, Reparent
  <2> QED
    BY Zenon, <1>1, <2>1, <2>2, <2>3 DEF Exists
<1>5. ASSUME NEW u \in Routes, Rebackend(u) PROVE RouteMoves
  <2>1. PICK s \in Services : UserWrites(u, [route[u] EXCEPT !.svc = s])
    BY <1>5, Zenon DEF Rebackend
  <2>2. PICK x : x = [route[u] EXCEPT !.svc = s]
    BY Zenon
  <2>3. IsRoute(x) /\ x.fin = route[u].fin /\ x.st = route[u].st /\ route[u].st = "live"
    BY Zenon, <1>0, <1>5, <2>2 DEF IsRoute, Rebackend
  <2> QED
    BY Zenon, <1>1, <2>1, <2>2, <2>3 DEF Exists
<1> QED
  BY Zenon, <1>2, <1>3, <1>4, <1>5 DEF UserSteps

(* What a step may do to the routes.                                       *)
LEMMA RouteStep ==
    ASSUME ShapeInv, \A u \in Routes : route[u].fin => Exists(route[u]), Next
    PROVE  RouteMoves
<1>1. ASSUME NEW r \in Replicas, PassStep(r) PROVE RouteMoves
  <2>1. CASE ListRoutes(r)
    BY <2>1, Zenon DEF ListRoutes, Goto, objects, RouteMoves
  <2>2. CASE ReadSteps(r) \/ Abort(r)
    BY <2>2, Zenon DEF ReadSteps, Abort, ListBindings, ListPools, CleanupDone, GetGateway,
       DisabledAll, Rejected, NotFound, PoolRefused, ListServices, CleanupPending, LoopDone,
       CompareArchive, objects, RouteMoves
  <2>3. CASE BindSteps(r) \/ GateSteps(r) \/ PoolSteps(r) \/ Archive(r)
    BY <2>3, BindFrame, GateFrame, PoolFrame, ArchiveFrame, Zenon DEF RouteMoves
  <2> QED
    BY Zenon, <1>1, <2>1, <2>2, <2>3, RouteWrites DEF PassStep
<1>2. CASE \/ (\E r \in Replicas : ChangeLeader(r)) \/ (\E b \in Bindings : CollectBinding(b))
           \/ (\E s \in Services : ServiceEvent(s)) \/ GatewayEvent \/ DeleteGateway
  BY <1>2, Zenon DEF ChangeLeader, CollectBinding, ServiceEvent, GatewayEvent, DeleteGateway,
     objects, RouteMoves
<1>3. CASE Controller \/ CollectPool
  BY <1>3, ControllerFrame, CollectFrame, Zenon DEF RouteMoves
<1> QED
  BY <1>1, <1>2, <1>3, NextKinds, UserMoves, Zenon

-----------------------------------------------------------------------------
(* The invariants are kept.                                                *)

(* Routes stay well formed.                                                *)
LEMMA RoutesKept ==
    ASSUME AreRoutes(route), RouteMoves
    PROVE  AreRoutes(route')
<1>1. CASE UNCHANGED route
  BY Zenon, <1>1
<1>2. ASSUME NEW u \in Routes, NEW x, route' = [route EXCEPT ![u] = x], IsRoute(x)
      PROVE  AreRoutes(route')
  BY Zenon, <1>2 DEF AreRoutes
<1> QED
  BY <1>1, <1>2, Zenon DEF RouteMoves

(* ShapeInv is inductive.                                                  *)
LEMMA ShapeStep ==
    ASSUME AdapterInv, Next
    PROVE  ShapeInv'
<1>1. /\ ShapeInv /\ (\A r \in Replicas : SealCopy(r)) /\ LeaseHeld
      /\ \A u \in Routes : route[u].fin => Exists(route[u])
  BY Zenon DEF AdapterInv, SealInv, RouteInv
<1>2. Generates
  BY <1>1, GeneratedStep
<1>3. /\ IsGate(gate) /\ AreRoutes(route) /\ IsPool(pool) /\ IsLedger(alloc)
      /\ AreBindings(bind) /\ plan \in PlanSet
  BY Zenon, <1>1 DEF ShapeInv
<1>4. plan' \in PlanSet /\ leader' \in Replicas
  BY Zenon, <1>1, <1>3, PlanKept, PassOrNot
<1>5. IsGate(gate')
  BY Zenon, <1>1, <1>3, GateStep, GateKept
<1>6. AreRoutes(route')
  BY Zenon, <1>1, <1>3, RouteStep, RoutesKept
<1>7. IsPool(pool') /\ IsLedger(alloc') /\ AreBindings(bind')
  BY Zenon, <1>1, <1>2, <1>3, PoolKept, LeaseKept, BindKept
<1>8. /\ pc' = [r \in Replicas |-> pc'[r]] /\ my' = [r \in Replicas |-> my'[r]]
      /\ \A r \in Replicas : CopyShape(pc'[r], my'[r])
  BY Zenon, <1>1, ReplicaStep
<1> QED
  BY Zenon, <1>4, <1>5, <1>6, <1>7, <1>8 DEF ShapeInv

(* Only the first list of a pass replaces the copies of the routes.        *)
LEMMA RtsKept ==
    ASSUME NEW w, NEW n, NEW c, NEW m, IsCopy(n), Moves(w, n, c, m), c # "idle"
    PROVE  \/ w = "idle" /\ c = "bindings" /\ m.rts = route /\ UNCHANGED route
           \/ w # "idle" /\ m.rts = n.rts
<1>1. CASE Starts(w, c, m)
  BY Zenon, <1>1 DEF Starts, Blank
<1>2. CASE ReadsBindings(w, n, c, m)
  BY Zenon, <1>2 DEF ReadsBindings, IsCopy
<1>3. CASE \/ ReadsPool(w, n, c, m) \/ ReadsGate(w, n, c, m) \/ GoesOn(w, n, c, m)
           \/ Rejects(w, n, c, m) \/ TakesPool(w, n, c, m) \/ Annotates(w, n, c, m)
           \/ Retires(w, n, c, m) \/ Archives(w, n, c, m)
  BY Zenon,
     <1>3 DEF ReadsPool, ReadsGate, GoesOn, Onward, Rejects, TakesPool, Annotates, Retires,
     Archives, Same, SameBut
<1> QED
  BY Zenon, <1>1, <1>2, <1>3 DEF Moves, Ends

(* RouteInv is inductive: a write to a route outdates every other copy of  *)
(* it.                                                                     *)
LEMMA RouteKept ==
    ASSUME AdapterInv, Next
    PROVE  RouteInv'
<1>0. /\ ShapeInv /\ RouteInv /\ AreRoutes(route) /\ IsGate(gate)
      /\ pc = [r \in Replicas |-> pc[r]] /\ my = [r \in Replicas |-> my[r]]
  BY Zenon DEF AdapterInv, ShapeInv
<1>1. RouteMoves
  BY <1>0, RouteStep DEF RouteInv
<1>2. ASSUME NEW r \in Replicas, NEW u \in Routes, pc'[r] # "idle", <<r, u>> \notin dirty'
      PROVE  route'[u].st = my'[r].rts[u].st
  <2>1. \/ pc[r] = "idle" /\ my'[r].rts = route /\ UNCHANGED route
        \/ pc[r] # "idle" /\ my'[r].rts = my[r].rts
    <3>1. IsCopy(my[r])
      BY Zenon, <1>0 DEF ShapeInv, CopyShape
    <3> QED
      BY <1>0, <1>2, <3>1, ReplicaStep, RtsKept
  <2>2. CASE pc[r] = "idle" /\ my'[r].rts = route /\ UNCHANGED route
    BY <2>2
  <2>3. CASE pc[r] # "idle" /\ my'[r].rts = my[r].rts
    <3>1. <<r, u>> \notin dirty => route[u].st = my[r].rts[u].st
      BY Zenon, <1>0, <2>3 DEF RouteInv
    <3>2. CASE UNCHANGED <<route, dirty>>
      BY Zenon, <1>2, <2>3, <3>1, <3>2
    <3>3. ASSUME UNCHANGED route, NEW q \in Replicas, dirty' = dirty \ ({q} \X Routes),
                 my' = [my EXCEPT ![q] = [Blank EXCEPT !.rts = route]]
          PROVE  route'[u].st = my'[r].rts[u].st
      <4>1. CASE q = r
        BY Zenon, <1>0, <3>3, <4>1 DEF Blank
      <4>2. CASE q # r
        BY Zenon, <1>2, <2>3, <3>1, <3>3, <4>2
      <4> QED
        BY Zenon, <4>1, <4>2
    <3>4. ASSUME NEW v \in Routes, NEW x, route' = [route EXCEPT ![v] = x],
                 Edits(v, x) \/ \E q \in Replicas : Patches(q, v, x) \/ Holds(q, v, x) \/ Releases(q, v, x)
          PROVE  route'[u].st = my'[r].rts[u].st
      <4>1. <<r, u>> \notin dirty
        BY Zenon, <1>2, <3>4 DEF Edits, Patches, Holds, Releases, RouteWritten
      <4>2. CASE v # u
        BY Zenon, <1>0, <2>3, <3>1, <3>4, <4>1, <4>2 DEF AreRoutes
      <4>3. CASE v = u
        <5>1. route'[u] = x
          BY Zenon, <1>0, <3>4, <4>3 DEF AreRoutes
        <5>2. ASSUME NEW q \in Replicas, Patches(q, v, x) \/ Holds(q, v, x)
              PROVE  route'[u].st = my'[r].rts[u].st
          BY Zenon, <2>3, <3>1, <4>1, <4>3, <5>1, <5>2 DEF Patches, Holds
        <5>3. ASSUME NEW q \in Replicas, Releases(q, v, x)
              PROVE  FALSE
          <6>1. q = r
            BY Zenon, <1>2, <4>3, <5>3 DEF Releases, RouteWritten
          <6>2. pc'[r] = "idle"
            BY Zenon, <1>0, <5>3, <6>1 DEF Releases
          <6> QED
            BY Zenon, <1>2, <6>2
        <5>4. ~Edits(v, x)
          BY Zenon, <1>2, <4>3 DEF Edits
        <5> QED
          BY Zenon, <3>4, <5>2, <5>3, <5>4
      <4> QED
        BY Zenon, <4>2, <4>3
    <3> QED
      BY <1>1, <3>2, <3>3, <3>4, Zenon DEF RouteMoves
  <2> QED
    BY Zenon, <2>1, <2>2, <2>3
<1>3. ASSUME NEW u \in Routes, route'[u].fin
      PROVE  Exists(route'[u])
  <2>0. route[u].fin => Exists(route[u])
    BY Zenon, <1>0 DEF RouteInv
  <2>1. CASE UNCHANGED route
    BY <1>3, <2>0, <2>1
  <2>2. ASSUME NEW v \in Routes, NEW x, route' = [route EXCEPT ![v] = x], IsRoute(x),
               Edits(v, x) \/ \E q \in Replicas : Patches(q, v, x) \/ Holds(q, v, x) \/ Releases(q, v, x)
        PROVE  Exists(route'[u])
    <3>1. CASE v # u
      BY Zenon, <1>0, <1>3, <2>0, <2>2, <3>1 DEF AreRoutes
    <3>2. CASE v = u
      <4>1. route'[u] = x /\ x.fin
        BY Zenon, <1>0, <1>3, <2>2, <3>2 DEF AreRoutes
      <4>2. CASE Edits(v, x)
        BY Zenon, <4>1, <4>2 DEF Edits
      <4>3. ASSUME NEW q \in Replicas, Patches(q, v, x) PROVE Exists(x)
        BY Zenon, <2>0, <3>2, <4>1, <4>3 DEF Patches, Exists
      <4>4. ASSUME NEW q \in Replicas, Holds(q, v, x) PROVE Exists(x)
        BY Zenon, <1>0, <3>2, <4>4 DEF Holds, RouteInv, Exists
      <4>5. ASSUME NEW q \in Replicas, Releases(q, v, x) PROVE FALSE
        BY Zenon,
           <1>0, <3>2, <4>1, <4>5 DEF Releases, Unheld, AreRoutes, IsRoute
      <4> QED
        BY Zenon, <2>2, <4>1, <4>2, <4>3, <4>4, <4>5
    <3> QED
      BY <3>1, <3>2
  <2> QED
    BY <1>1, <2>1, <2>2, Zenon DEF RouteMoves
<1>4. (gate'.st = "deleting" => gate'.fin) /\ (gate'.st = "gone" => ~gate'.fin)
  <2>1. \A r \in Replicas : pc[r] = "finish" => my[r].g.st = "deleting"
    BY Zenon DEF AdapterInv, SealInv, GateCopy, Retiring
  <2>2. (gate.st = "deleting" => gate.fin) /\ (gate.st = "gone" => ~gate.fin)
    BY <1>0 DEF RouteInv
  <2>3. GateMoves
    BY <1>0, GateStep
  <2>4. CASE UNCHANGED gate
    BY Zenon, <2>2, <2>4
  <2>5. CASE \/ \E x : gate' = [gate EXCEPT !.cond = x] \/ gate' = [gate EXCEPT !.problem = x]
             \/ gate' = [gate EXCEPT !.ann = TRUE]
    BY Zenon, <1>0, <2>2, <2>5 DEF IsGate
  <2>6. CASE gate.st = "live" /\ gate' = [gate EXCEPT !.fin = TRUE]
    BY Zenon, <1>0, <2>6 DEF IsGate
  <2>7. CASE gate.st = "live" /\ gate' = Deleted(gate)
    BY Zenon, <1>0, <2>7 DEF IsGate, Deleted
  <2>8. CASE \E r \in Replicas : pc[r] = "finish" /\ gate = my[r].g /\ gate' = Unheld(gate)
    <3>1. gate.st = "deleting" /\ gate' = Unheld(gate)
      BY Zenon, <2>1, <2>8
    <3> QED
      BY Zenon, <1>0, <3>1 DEF IsGate, Unheld
  <2> QED
    BY <2>3, <2>4, <2>5, <2>6, <2>7, <2>8, Zenon DEF GateMoves
<1> QED
  BY Zenon, <1>2, <1>3, <1>4 DEF RouteInv

(* A copy that is not outdated after a step was not before, unless its     *)
(* replica has just read, and the pool is the same, unless the replica     *)
(* itself wrote it.                                                        *)
LEMMA StaleStep ==
    ASSUME ShapeInv, Next, NEW r \in Replicas, r \notin stale', pc'[r] \in {"archive", "seal"}
    PROVE  /\ UNCHANGED <<pool, alloc>>
           /\ r \notin stale \/ (pc[r] = "retire" /\ pc'[r] # pc[r])
<1>0. pc = [q \in Replicas |-> pc[q]]
  BY Zenon DEF ShapeInv
<1>1. ASSUME UNCHANGED <<pool, alloc, stale>>
      PROVE  UNCHANGED <<pool, alloc>> /\ r \notin stale
  BY <1>1
<1>2. ASSUME NEW q \in Replicas, PoolSteps(q)
      PROVE  /\ UNCHANGED <<pool, alloc>>
             /\ r \notin stale \/ (pc[r] = "retire" /\ pc'[r] # pc[r])
  <2>1. CASE RetireRead(q)
    <3>1. UNCHANGED <<pool, alloc>> /\ stale' = stale \ {q} /\ pc[q] = "retire"
      BY Zenon, <2>1 DEF RetireRead
    <3> QED
      BY Zenon, <3>1
  <2>2. ASSUME NEW c, NEW m, Goto(q, c, m), c \notin {"archive", "seal"},
               (UNCHANGED <<pool, alloc, stale>>) \/ PoolWritten(q)
        PROVE  UNCHANGED <<pool, alloc>> /\ r \notin stale
    <3>1. q = r => pc'[r] = c
      BY Zenon, <1>0, <2>2 DEF Goto
    <3>2. q # r
      BY Zenon, <2>2, <3>1
    <3>3. ~PoolWritten(q)
      BY Zenon, <3>2 DEF PoolWritten
    <3> QED
      BY Zenon, <2>2, <3>3
  <2>3. CASE ensurePool(q)
    <3>1. /\ (UNCHANGED <<pool, stale>>) \/ PoolWritten(q)
          /\ UNCHANGED pool => UNCHANGED alloc
      <4>1. Absent(pool) => pool'.st = "live"
        BY Zenon, <2>3 DEF ensurePool, Engine!NoPool
      <4>2. UNCHANGED pool => ~Absent(pool)
        BY Zenon, <4>1 DEF Absent
      <4> QED
        BY Zenon, <2>3, <4>2 DEF ensurePool
    <3>2. PICK c, m : Goto(q, c, m) /\ c \in {"services", "annotate"}
      BY <2>3, Zenon DEF ensurePool
    <3> QED
      BY Zenon, <2>2, <3>1, <3>2
  <2>4. CASE GuardPool(q) \/ Seal(q)
    <3>1. Goto(q, "idle", Blank) /\ ((UNCHANGED <<pool, alloc, stale>>) \/ PoolWritten(q))
      BY Zenon, <2>4 DEF GuardPool, Seal, EndPass
    <3> QED
      BY Zenon, <2>2, <3>1
  <2> QED
    BY Zenon, <1>2, <2>1, <2>3, <2>4 DEF PoolSteps
<1>3. CASE \E q \in Replicas : PassStep(q)
  <2>1. PICK q \in Replicas : PassStep(q)
    BY Zenon, <1>3
  <2>2. CASE PoolSteps(q)
    BY Zenon, <1>2, <2>2
  <2>3. CASE ~PoolSteps(q)
    <3>1. UNCHANGED <<pool, alloc, stale>>
      BY <2>1, <2>3, ReadFrame, BindFrame, RouteFrame, GateFrame, ArchiveFrame, Zenon DEF PassStep
    <3> QED
      BY Zenon, <1>1, <3>1
  <2> QED
    BY Zenon, <2>2, <2>3
<1>4. CASE Controller \/ CollectPool
  <2>1. (UNCHANGED <<pool, alloc, stale>>) \/ stale' = Replicas
    BY Zenon, <1>4, ControllerFrame, CollectFrame
  <2> QED
    BY Zenon, <1>1, <2>1
<1>5. CASE UserSteps
  BY Zenon, <1>1, <1>5, UserFrame
<1>6. CASE \/ (\E q \in Replicas : ChangeLeader(q)) \/ (\E b \in Bindings : CollectBinding(b))
           \/ (\E s \in Services : ServiceEvent(s)) \/ GatewayEvent \/ DeleteGateway
  <2>1. UNCHANGED <<pool, alloc, stale>>
    BY <1>6, Zenon DEF ChangeLeader, CollectBinding, ServiceEvent, GatewayEvent, DeleteGateway,
       generated
  <2> QED
    BY Zenon, <1>1, <2>1
<1> QED
  BY Zenon, <1>3, <1>4, <1>5, <1>6, NextKinds

(* An archive is written once.                                             *)
LEMMA ArchiveStep ==
    ASSUME ShapeInv, Next
    PROVE  UNCHANGED archive \/ archive = NoArchive
<1>1. ASSUME NEW r \in Replicas, PassStep(r) PROVE UNCHANGED archive \/ archive = NoArchive
  <2>1. CASE Archive(r)
    BY Zenon, <2>1 DEF Archive
  <2> QED
    BY <1>1, <2>1, ReadFrame, BindFrame, RouteFrame, GateFrame, PoolFrame, Zenon DEF PassStep
<1>2. CASE \/ (\E r \in Replicas : ChangeLeader(r)) \/ (\E b \in Bindings : CollectBinding(b))
           \/ (\E s \in Services : ServiceEvent(s)) \/ GatewayEvent \/ DeleteGateway
  BY <1>2, Zenon DEF ChangeLeader, CollectBinding, ServiceEvent, GatewayEvent, DeleteGateway,
     objects
<1> QED
  BY <1>1, <1>2, NextKinds, ControllerFrame, CollectFrame, UserFrame, Zenon

(* A ledger is never mistaken for no archive.                              *)
LEMMA NotAbsent ==
    ASSUME NEW p, IsPool(p), NEW a, archive = [alloc |-> a, shard |-> p.shard]
    PROVE  archive # NoArchive
BY Zenon DEF IsPool, NoArchive

(* What a replica knows when it has archived a pool stays true: whoever    *)
(* writes the pool in between makes its copy old, and then its own write   *)
(* is refused.                                                             *)
LEMMA SealCopyKept ==
    ASSUME AdapterInv, Next, NEW r \in Replicas
    PROVE  SealCopy(r)'
<1>0. /\ ShapeInv /\ SealCopy(r) /\ CopyShape(pc[r], my[r]) /\ IsPool(my[r].p)
  BY Zenon DEF AdapterInv, ShapeInv, SealInv, CopyShape
<1>1. pc[r] = "seal" => archive = Ledger(my[r]) /\ UNCHANGED archive
  BY Zenon, <1>0, ArchiveStep, NotAbsent DEF SealCopy, Ledger
<1>2. CASE pc'[r] = pc[r] /\ my'[r] = my[r]
  <2>1. ASSUME pc'[r] \in {"archive", "seal"}, r \notin stale'
        PROVE  my'[r].p = pool' /\ my'[r].a = alloc'
    BY Zenon, <1>0, <1>2, <2>1, StaleStep DEF SealCopy
  <2>2. ASSUME pc'[r] = "seal" PROVE archive' = Ledger(my'[r])
    BY Zenon, <1>1, <1>2, <2>2
  <2> QED
    BY Zenon, <1>0, <1>2, <2>1, <2>2 DEF SealCopy, Ledger
<1>3. CASE Moves(pc[r], my[r], pc'[r], my'[r]) /\ pc'[r] \in {"archive", "seal"}
  <2>1. \/ Retires(pc[r], my[r], pc'[r], my'[r]) \/ Archives(pc[r], my[r], pc'[r], my'[r])
    BY Zenon,
       <1>3 DEF Moves, Ends, Starts, ReadsBindings, ReadsPool, ReadsGate, GoesOn, Onward, Rejects,
       TakesPool, Annotates
  <2>2. CASE Retires(pc[r], my[r], pc'[r], my'[r])
    <3>1. /\ pc'[r] = "archive" /\ my'[r].p = pool /\ my'[r].a = alloc /\ UNCHANGED <<pool, alloc>>
          /\ Exists(pool) /\ Quiescent(pool, alloc) /\ (pool.st = "live" => pool.guard)
      BY Zenon, <1>3, <2>2 DEF Retires
    <3> QED
      BY Zenon, <3>1 DEF SealCopy, Quiescent
  <2>3. CASE Archives(pc[r], my[r], pc'[r], my'[r])
    <3>1. /\ pc[r] = "archive" /\ pc'[r] = "seal" /\ my'[r] = my[r]
          /\ archive' = Ledger(my[r]) /\ UNCHANGED <<pool, alloc>>
      BY Zenon, <2>3 DEF Archives
    <3>2. r \notin stale' => r \notin stale
      BY Zenon, <1>0, <3>1, StaleStep
    <3> QED
      BY Zenon, <1>0, <3>1, <3>2 DEF SealCopy, Ledger
  <2> QED
    BY Zenon, <2>1, <2>2, <2>3
<1>4. CASE pc'[r] \notin {"archive", "seal"}
  BY Zenon, <1>4 DEF SealCopy
<1> QED
  BY Zenon, <1>0, <1>2, <1>3, <1>4, ReplicaStep

(* What a replica knows of the Gateway it acts on stays true.              *)
LEMMA GateCopyKept ==
    ASSUME AdapterInv, Next, NEW r \in Replicas
    PROVE  GateCopy(r)'
<1> DEFINE w == pc[r]
           n == my[r]
           c == pc'[r]
           m == my'[r]
<1>0. /\ ShapeInv /\ GateCopy(r) /\ IsGate(n.g) /\ IsGate(gate) /\ plan \in PlanSet
      /\ plan.upgraded => gate.ann
  BY Zenon DEF AdapterInv, ShapeInv, SealInv, CopyShape
<1>1. /\ gate.st # "live" => gate'.st # "live"
      /\ plan'.upgraded = plan.upgraded
  BY Zenon, <1>0, GateStep, GateKept, PlanKept
<1>2. CASE c = w /\ m = n
  BY Zenon, <1>0, <1>1, <1>2 DEF GateCopy
<1>3. CASE Moves(w, n, c, m)
  <2>1. CASE Ends(c, m) \/ Starts(w, c, m) \/ ReadsBindings(w, n, c, m) \/ ReadsPool(w, n, c, m)
    <3>1. c \in Before
      BY <2>1 DEF Ends, Starts, ReadsBindings, ReadsPool, Before
    <3> QED
      BY Zenon, <3>1 DEF GateCopy, Before, Serving, Retiring
  <2>2. CASE ReadsGate(w, n, c, m)
    <3>1. /\ m.g = gate /\ UNCHANGED gate
          /\ \/ c = "reject" /\ gate.st = "deleting"
             \/ c = "disable" /\ gate.st = "live"
             \/ c = "pool" /\ gate.st = "live" /\ gate.fin
      BY Zenon, <2>2 DEF ReadsGate
    <3> HIDE DEF c, m
    <3>2. GateCopy(r)' <=> /\ c \in Serving => m.g.st = "live" /\ m.g.fin
                           /\ c \in Retiring => m.g.st = "deleting"
                           /\ c \notin Before => m.g.st \in {"live", "deleting"}
                           /\ c \notin Before /\ m.g.st = "deleting" => gate'.st # "live"
                           /\ c = "pool" /\ plan'.upgraded => m.g.ann
      BY Zenon DEF GateCopy, c, m
    <3> QED
      BY Zenon, <1>0, <1>1, <3>1, <3>2 DEF Serving, Retiring, Before
  <2>3. CASE GoesOn(w, n, c, m)
    <3>1. <<w, c>> \in Onward /\ m.g = n.g
      BY Zenon, <2>3 DEF GoesOn, Same
    <3> QED
      BY Zenon,
         <1>0, <1>1, <3>1 DEF GateCopy, Onward, Serving, Retiring, Before
  <2>4. CASE Rejects(w, n, c, m)
    <3>1. /\ w = "reject" /\ m.g = n.g
          /\ \/ c = "report" /\ n.g.st = "live"
             \/ c = "retire" /\ n.g.st # "live"
      BY Zenon, <2>4 DEF Rejects, Same
    <3> QED
      BY Zenon, <1>0, <1>1, <3>1 DEF GateCopy, Serving, Retiring, Before
  <2>5. CASE TakesPool(w, n, c, m)
    <3>1. w = "pool" /\ c \in {"annotate", "services"} /\ m.g = n.g
      BY Zenon, <2>5 DEF TakesPool
    <3> QED
      BY Zenon, <1>0, <1>1, <3>1 DEF GateCopy, Serving, Retiring, Before
  <2>6. CASE Annotates(w, n, c, m)
    <3>1. /\ w = "annotate" /\ c = "services" /\ m.g.st = n.g.st /\ m.g.fin = n.g.fin
      BY Zenon, <1>0, <2>6 DEF Annotates, IsGate
    <3> QED
      BY Zenon, <1>0, <1>1, <3>1 DEF GateCopy, Serving, Retiring, Before
  <2>7. CASE Retires(w, n, c, m) \/ Archives(w, n, c, m)
    <3>1. w \in Retiring /\ c \in {"finish", "archive", "seal"} /\ m.g = n.g
      BY Zenon, <2>7 DEF Retires, Archives, Retiring
    <3> QED
      BY Zenon, <1>0, <1>1, <3>1 DEF GateCopy, Serving, Retiring, Before
  <2> QED
    BY Zenon, <1>3, <2>1, <2>2, <2>3, <2>4, <2>5, <2>6, <2>7 DEF Moves
<1> QED
  BY <1>0, <1>2, <1>3, ReplicaStep

(* SealInv is inductive: a pool goes only after its ledger, all retired,   *)
(* is in the archive.                                                      *)
LEMMA SealKept ==
    ASSUME AdapterInv, Next
    PROVE  SealInv'
<1>0. /\ ShapeInv /\ SealInv /\ IsPool(pool) /\ IsGate(gate) /\ plan \in PlanSet
      /\ \A r \in Replicas : SealCopy(r) /\ GateCopy(r)
  BY Zenon DEF AdapterInv, ShapeInv, SealInv
<1>1. Generates
  BY <1>0, GeneratedStep
<1>2. /\ gate.ann => gate'.ann
      /\ gate.st # "live" => gate'.st # "live"
      /\ plan'.upgraded = plan.upgraded
  BY Zenon, <1>0, GateStep, GateKept, PlanKept
<1>3. /\ IsPool(pool')
      /\ Absent(pool) => (UNCHANGED <<pool, alloc>>) \/ (\E r \in Replicas : Creates(r))
      /\ pool'.st = "none" => UNCHANGED <<pool, alloc>>
      /\ Exists(pool) /\ pool.guard =>
             (Exists(pool') /\ pool'.guard) \/ (\E r \in Replicas : Sealed(r))
  BY Zenon, <1>0, <1>1, PoolKept
<1>4. ASSUME NEW r \in Replicas, Creates(r)
      PROVE  pool'.st = "live" /\ pool'.guard
  BY Zenon, <1>4 DEF Creates, FreshPool, Engine!NoPool
<1>5. ASSUME NEW r \in Replicas, Sealed(r)
      PROVE  /\ archive = [alloc |-> alloc, shard |-> pool.shard] /\ Engine!Active(alloc) = {}
             /\ UNCHANGED alloc /\ pool'.shard = pool.shard
             /\ Exists(pool') => pool'.guard
             /\ gate'.st # "live"
  <2>1. gate.st # "live"
    BY Zenon, <1>0, <1>5 DEF Sealed, GateCopy, Retiring, Before
  <2> QED
    BY <1>0, <1>2, <1>5, <2>1, SealedIs
<1>6. Absent(pool) \/ Exists(pool)
  BY Zenon, <1>0 DEF IsPool, Absent, Exists
<1>7. ASSUME Exists(pool'), ~plan'.upgraded PROVE pool'.guard
  <2>1. CASE Absent(pool)
    <3>1. ~(UNCHANGED <<pool, alloc>>)
      BY Zenon, <1>7, <2>1 DEF Absent, Exists
    <3> QED
      BY Zenon, <1>3, <1>4, <2>1, <3>1
  <2>2. CASE Exists(pool)
    BY Zenon, <1>0, <1>2, <1>3, <1>5, <1>7, <2>2 DEF SealInv
  <2> QED
    BY <1>6, <2>1, <2>2
<1>8. pool'.st = "none" => alloc' = Engine!NoLeases
  BY Zenon, <1>0, <1>3 DEF SealInv
<1>9. ASSUME pool'.st = "gone", ~plan'.upgraded
      PROVE  /\ gate'.st # "live"
             /\ archive' = [alloc |-> alloc', shard |-> pool'.shard]
             /\ Engine!Active(alloc') = {}
  <2>1. CASE Absent(pool)
    <3>1. UNCHANGED <<pool, alloc>> /\ pool.st = "gone"
      BY Zenon, <1>3, <1>4, <1>9, <2>1
    <3>2. /\ gate.st # "live" /\ archive = [alloc |-> alloc, shard |-> pool.shard]
          /\ Engine!Active(alloc) = {}
      <4>1. Engine!Active(archive.alloc) = {} /\ archive = [alloc |-> alloc, shard |-> pool.shard]
            /\ gate.st # "live"
        BY Zenon, <1>0, <1>2, <1>9, <3>1 DEF SealInv, ArchiveFaithful
      <4>2. archive.alloc = alloc
        BY Zenon, <4>1
      <4> QED
        BY Zenon, <4>1, <4>2
    <3>3. UNCHANGED archive
      BY Zenon, <1>0, <3>2, ArchiveStep, NotAbsent
    <3> QED
      BY Zenon, <1>2, <3>1, <3>2, <3>3
  <2>2. CASE Exists(pool)
    <3>1. pool.guard
      BY Zenon, <1>0, <1>2, <1>9, <2>2 DEF SealInv
    <3>2. PICK r \in Replicas : Sealed(r)
      BY Zenon, <1>3, <1>9, <2>2, <3>1 DEF Exists
    <3>3. /\ archive = [alloc |-> alloc, shard |-> pool.shard] /\ Engine!Active(alloc) = {}
          /\ UNCHANGED alloc /\ pool'.shard = pool.shard /\ gate'.st # "live"
      BY Zenon, <1>5, <3>2
    <3>4. UNCHANGED archive
      BY Zenon, <1>0, <3>3, ArchiveStep, NotAbsent
    <3> QED
      BY Zenon, <3>3, <3>4
  <2> QED
    BY Zenon, <1>6, <2>1, <2>2
<1>10. ArchiveFaithful'
  <2> SUFFICES ASSUME pool'.st = "gone", ~plan'.upgraded
               PROVE  /\ archive' = [alloc |-> alloc', shard |-> pool'.shard]
                      /\ Engine!Active(archive'.alloc) = {}
    BY Zenon DEF ArchiveFaithful, Engine!Active
  <2>1. archive' = [alloc |-> alloc', shard |-> pool'.shard] /\ Engine!Active(alloc') = {}
    BY Zenon, <1>9
  <2>2. archive'.alloc = alloc'
    BY Zenon, <2>1
  <2> QED
    BY Zenon, <2>1, <2>2
<1>11. \A r \in Replicas : SealCopy(r)' /\ GateCopy(r)'
  BY Zenon, SealCopyKept, GateCopyKept
<1> QED
  BY Zenon, <1>0, <1>2, <1>7, <1>8, <1>9, <1>10, <1>11 DEF SealInv

(* A route loses its finalizer only to a cleanup that found no binding.    *)
LEMMA FinKept ==
    ASSUME AreRoutes(route), RouteMoves, NEW u \in Routes, route[u].fin
    PROVE  \/ route'[u].fin
           \/ \E q \in Replicas : /\ pc[q] = "cleanup" /\ pc' = [pc EXCEPT ![q] = "idle"]
                                  /\ u \in Releasable(my[q])
<1>1. CASE UNCHANGED route
  BY Zenon, <1>1
<1>2. ASSUME NEW v \in Routes, NEW x, route' = [route EXCEPT ![v] = x],
             Edits(v, x) \/ \E q \in Replicas : Patches(q, v, x) \/ Holds(q, v, x)
      PROVE  route'[u].fin
  <2>1. v = u => x.fin
    BY Zenon, <1>2 DEF Edits, Patches, Holds
  <2> QED
    BY Zenon, <1>2, <2>1 DEF AreRoutes
<1>3. ASSUME NEW v \in Routes, NEW x, route' = [route EXCEPT ![v] = x],
             NEW q \in Replicas, Releases(q, v, x), ~route'[u].fin
      PROVE  /\ pc[q] = "cleanup" /\ pc' = [pc EXCEPT ![q] = "idle"]
             /\ u \in Releasable(my[q])
  <2>1. v = u
    BY Zenon, <1>3 DEF AreRoutes
  <2> QED
    BY Zenon, <1>3, <2>1 DEF Releases
<1> QED
  BY <1>1, <1>2, <1>3, Zenon DEF RouteMoves

Listing == {"pools", "cleanup", "gateway", "disable", "reject"} \cup Retiring

(* Until it goes to work on the routes a pass keeps its list of bindings.  *)
LEMMA BsKept ==
    ASSUME NEW w, NEW n, NEW c, NEW m, IsCopy(n), Moves(w, n, c, m), c \in Listing
    PROVE  \/ m.bs = bind /\ UNCHANGED bind
           \/ w \in Listing /\ m.bs = n.bs
<1>1. CASE Ends(c, m) \/ Starts(w, c, m) \/ TakesPool(w, n, c, m) \/ Annotates(w, n, c, m)
  BY Zenon, <1>1 DEF Ends, Starts, TakesPool, Annotates, Listing, Retiring
<1>2. CASE ReadsBindings(w, n, c, m)
  BY <1>2 DEF ReadsBindings, IsCopy
<1>3. CASE ReadsPool(w, n, c, m) \/ ReadsGate(w, n, c, m) \/ Rejects(w, n, c, m)
           \/ Retires(w, n, c, m) \/ Archives(w, n, c, m)
  BY Zenon, <1>3 DEF ReadsPool, ReadsGate, Rejects, Retires, Archives, Same, SameBut, Listing, Retiring
<1>4. CASE GoesOn(w, n, c, m)
  <2>1. <<w, c>> \in Onward /\ m.bs = n.bs
    BY Zenon, <1>4 DEF GoesOn, Same
  <2> QED
    BY Zenon, <2>1 DEF Onward, Listing, Retiring
<1> QED
  BY Zenon, <1>1, <1>2, <1>3, <1>4 DEF Moves

(* A pass comes to serve a Gateway only by reading it with its finalizer.  *)
LEMMA ServingFrom ==
    ASSUME NEW w, NEW n, NEW c, NEW m, Moves(w, n, c, m), c \in Serving
    PROVE  w \in Serving \/ (gate.fin /\ UNCHANGED gate)
<1>1. CASE GoesOn(w, n, c, m)
  BY Zenon, <1>1 DEF GoesOn, Onward, Serving
<1>2. CASE ReadsGate(w, n, c, m)
  BY Zenon, <1>2 DEF ReadsGate, Serving
<1>3. CASE TakesPool(w, n, c, m) \/ Annotates(w, n, c, m)
  BY Zenon, <1>3 DEF TakesPool, Annotates, Serving
<1> QED
  BY Zenon,
     <1>1, <1>2, <1>3 DEF Moves, Ends, Starts, ReadsBindings, ReadsPool, Rejects, Retires,
     Archives, Serving

(* LeaderInv is inductive.                                                 *)
LEMMA LeaderKept ==
    ASSUME AdapterInv, Next
    PROVE  LeaderInv'
<1>0. /\ ShapeInv /\ SealInv /\ RouteInv /\ LeaderInv /\ IsPool(pool) /\ IsGate(gate)
      /\ AreRoutes(route) /\ AreBindings(bind) /\ plan \in PlanSet /\ leader \in Replicas
      /\ pc = [r \in Replicas |-> pc[r]]
      /\ \A r \in Replicas : SealCopy(r) /\ GateCopy(r) /\ CopyShape(pc[r], my[r])
  BY Zenon DEF AdapterInv, ShapeInv, SealInv
<1>1. plan'.kinds = plan.kinds /\ plan'.upgraded = plan.upgraded
  BY <1>0, PlanKept
<1> SUFFICES ASSUME Sole
             PROVE  /\ \A r \in Replicas : SolePass(r)'
                    /\ \A b \in Bindings : Exists(bind'[b]) => route'[b[1]].fin
                    /\ ~gate'.fin => Absent(pool') /\ NoBindings'
  BY Zenon, <1>1 DEF LeaderInv, Sole
<1> DEFINE L == leader
           w == pc[L]
           n == my[L]
           c == pc'[L]
           m == my'[L]
<1>2. /\ \A q \in Replicas : pc[q] # "idle" => q = L
      /\ w # "idle" => \A u \in Routes : n.rts[u].fin => route[u].fin
      /\ w \in Listing => \A b \in Bindings : Exists(bind[b]) => Exists(n.bs[b])
      /\ w \in Serving => gate.fin
      /\ w = "pool" /\ pool.st = "gone" => n.g.ann
      /\ w = "finish" => Absent(pool) /\ NoBindings
  <2>1. SolePass(L) /\ \A q \in Replicas : SolePass(q)
    BY Zenon, <1>0 DEF LeaderInv
  <2>2. \A q \in Replicas : pc[q] # "idle" => q = L
    BY Zenon, <2>1 DEF SolePass
  <2> QED
    BY Zenon, <2>1, <2>2 DEF SolePass, Listing
<1>3. /\ \A b \in Bindings : Exists(bind[b]) => route[b[1]].fin
      /\ ~gate.fin => Absent(pool) /\ NoBindings
  BY Zenon, <1>0 DEF LeaderInv
<1>4. Generates /\ GateMoves /\ RouteMoves
  BY Zenon, <1>0, GeneratedStep, GateStep, RouteStep DEF RouteInv
<1>5. L' = L /\ L \in Replicas
  BY Zenon, <1>0, PassOrNot DEF Sole
<1>6. (c = w /\ m = n) \/ Moves(w, n, c, m)
  BY Zenon, <1>0, <1>5, ReplicaStep
<1>7. \A q \in Replicas : q # L => pc'[q] = "idle"
  BY Zenon, <1>0, <1>2, ReplicaStep
<1>8. IsCopy(n) /\ CopyShape(w, n) /\ SealCopy(L) /\ GateCopy(L)
  BY Zenon, <1>0, <1>5 DEF CopyShape
<1>9. SealInv' /\ GateCopy(L)'
  BY Zenon, <1>5, SealKept DEF SealInv
<1> HIDE DEF L, w, n, c, m
<1>10. ASSUME NEW q \in Replicas, pc[q] # "idle"
       PROVE  q = L /\ pc[q] = w /\ my[q] = n
  BY Zenon, <1>2, <1>10 DEF w, n
<1>11. ASSUME NEW q \in Replicas, pc[q] # "idle", pc' = [pc EXCEPT ![q] = "idle"]
       PROVE  c = "idle"
  BY Zenon, <1>0, <1>5, <1>10, <1>11 DEF c
<1>12. ASSUME NEW b \in Bindings, Exists(bind'[b])
       PROVE  Exists(bind[b]) \/ (w = "loop" /\ n.rts[b[1]].fin)
  BY Zenon, <1>0, <1>4, <1>10, <1>12, BindKept DEF Binds
<1>13. ASSUME Exists(pool') PROVE Exists(pool) \/ w = "pool"
  <2>1. Exists(pool) \/ Absent(pool)
    BY Zenon, <1>0 DEF IsPool, Exists, Absent
  <2>2. ASSUME NEW q \in Replicas, Creates(q) PROVE w = "pool"
    BY Zenon, <1>10, <2>2 DEF Creates
  <2>3. Absent(pool) => (UNCHANGED pool) \/ \E q \in Replicas : Creates(q)
    BY Zenon, <1>0, <1>4, PoolKept
  <2> QED
    BY Zenon, <1>13, <2>1, <2>2, <2>3
<1>14. ASSUME NEW u \in Routes, route[u].fin
       PROVE  route'[u].fin \/ (w = "cleanup" /\ c = "idle" /\ u \in Releasable(n))
  BY <1>0, <1>4, <1>10, <1>11, <1>14, FinKept
<1>15. ASSUME ~gate'.fin PROVE ~gate.fin \/ w = "finish"
  BY Zenon, <1>0, <1>4, <1>10, <1>15, GateKept
<1>16. ASSUME c # "idle", NEW u \in Routes, m.rts[u].fin PROVE route'[u].fin
  <2>1. \/ m.rts = route /\ UNCHANGED route
        \/ w # "idle" /\ m.rts = n.rts
    BY Zenon, <1>6, <1>8, <1>16, RtsKept
  <2> QED
    BY Zenon, <1>2, <1>14, <1>16, <2>1 DEF w, n
<1>17. ASSUME c \in Listing, NEW b \in Bindings, Exists(bind'[b]) PROVE Exists(m.bs[b])
  <2>1. \/ m.bs = bind /\ UNCHANGED bind
        \/ w \in Listing /\ m.bs = n.bs
    BY Zenon, <1>6, <1>8, <1>17, BsKept
  <2>2. w \in Listing => w # "loop"
    BY Zenon DEF Listing, Retiring
  <2> QED
    BY Zenon, <1>2, <1>12, <1>17, <2>1, <2>2 DEF w, n
<1>18. ASSUME c \in Serving PROVE gate'.fin
  <2>1. w \in Serving \/ (gate.fin /\ UNCHANGED gate)
    BY Zenon, <1>6, <1>18, ServingFrom
  <2> QED
    BY Zenon, <1>2, <1>15, <2>1 DEF w, n, Serving
<1>19. ASSUME c = "pool", pool'.st = "gone" PROVE m.g.ann
  <2>1. CASE plan.upgraded
    BY Zenon, <1>1, <1>5, <1>9, <1>19, <2>1 DEF GateCopy, c, m, L
  <2>2. CASE ~plan.upgraded
    <3>1. gate'.st # "live"
      BY Zenon, <1>1, <1>9, <1>19, <2>2 DEF SealInv
    <3>2. CASE Moves(w, n, c, m)
      <4>1. ReadsGate(w, n, c, m)
        BY Zenon,
           <1>19, <3>2 DEF Moves, Ends, Starts, ReadsBindings, ReadsPool, GoesOn, Onward, Rejects,
           TakesPool, Annotates, Retires, Archives
      <4>2. gate'.st = "live"
        BY Zenon, <1>19, <4>1 DEF ReadsGate
      <4> QED
        BY Zenon, <3>1, <4>2
    <3>3. CASE c = w /\ m = n
      <4>1. CASE pool.st = "gone"
        BY Zenon, <1>2, <1>19, <3>3, <4>1 DEF w, n
      <4>2. CASE pool.st = "none"
        <5>1. (UNCHANGED pool) \/ \E q \in Replicas : Creates(q)
          BY Zenon, <1>0, <1>4, <4>2, PoolKept DEF Absent
        <5>2. ASSUME NEW q \in Replicas, Creates(q) PROVE pool'.st = "live"
          BY Zenon, <5>2 DEF Creates, FreshPool, Engine!NoPool
        <5> QED
          BY Zenon, <1>19, <4>2, <5>1, <5>2
      <4>3. CASE Exists(pool)
        <5>1. pool.guard
          BY Zenon, <1>0, <2>2, <4>3 DEF SealInv
        <5>2. PICK q \in Replicas : Sealed(q)
          BY Zenon, <1>0, <1>4, <1>19, <4>3, <5>1, PoolKept DEF Exists
        <5> QED
          BY Zenon, <1>10, <1>19, <3>3, <5>2 DEF Sealed
      <4> QED
        BY Zenon, <1>0, <4>1, <4>2, <4>3 DEF IsPool, Exists
    <3> QED
      BY Zenon, <1>6, <3>2, <3>3
  <2> QED
    BY Zenon, <2>1, <2>2
<1>20. ASSUME Absent(pool), NoBindings, w \notin {"pool", "loop"}
       PROVE  Absent(pool') /\ NoBindings'
  <2>1. ~Exists(pool')
    BY Zenon, <1>13, <1>20 DEF Exists, Absent
  <2>2. IsPool(pool')
    BY Zenon, <1>0, <1>4, PoolKept
  <2>3. NoBindings'
    BY Zenon, <1>12, <1>20 DEF NoBindings
  <2> QED
    BY Zenon, <2>1, <2>2, <2>3 DEF IsPool, Exists, Absent
<1>21. ASSUME c = "finish" PROVE Absent(pool') /\ NoBindings'
  <2>1. CASE c = w /\ m = n
    BY Zenon, <1>2, <1>20, <1>21, <2>1 DEF w, n
  <2>2. CASE Moves(w, n, c, m)
    <3>1. Retires(w, n, c, m)
      BY Zenon,
         <1>21, <2>2 DEF Moves, Ends, Starts, ReadsBindings, ReadsPool, ReadsGate, GoesOn, Onward,
         Rejects, TakesPool, Annotates, Archives
    <3>2. w = "retire" /\ Absent(pool) /\ \A b \in Bindings : ~Exists(n.bs[b])
      BY Zenon, <1>21, <3>1 DEF Retires
    <3>3. NoBindings
      BY Zenon, <1>2, <3>2 DEF NoBindings, Listing, Retiring, w, n
    <3> QED
      BY Zenon, <1>20, <3>2, <3>3
  <2> QED
    BY Zenon, <1>6, <2>1, <2>2
<1>22. ASSUME NEW r \in Replicas PROVE SolePass(r)'
  <2>1. CASE r # L
    <3>1. pc'[r] = "idle" /\ r # leader'
      BY Zenon, <1>5, <1>7, <2>1 DEF L
    <3> QED
      BY Zenon, <3>1 DEF SolePass, Serving, Retiring
  <2>2. CASE r = L
    <3>1. r = leader' /\ pc'[r] = c /\ my'[r] = m
      BY Zenon, <1>5, <2>2 DEF L, c, m
    <3> QED
      BY Zenon,
         <1>16, <1>17, <1>18, <1>19, <1>21, <3>1 DEF SolePass, Listing, NoBindings
  <2> QED
    BY Zenon, <2>1, <2>2
<1>23. ASSUME NEW b \in Bindings, Exists(bind'[b]) PROVE route'[b[1]].fin
  <2>1. b[1] \in Routes
    BY Zenon DEF Bindings
  <2>2. route[b[1]].fin
    BY Zenon, <1>2, <1>3, <1>12, <1>23, <2>1 DEF w, n
  <2>3. ASSUME w = "cleanup", b[1] \in Releasable(n) PROVE FALSE
    <3>1. Exists(bind[b])
      BY Zenon, <1>12, <1>23, <2>3
    <3>2. Exists(n.bs[b])
      BY Zenon, <1>2, <2>3, <3>1 DEF Listing, w, n
    <3>3. DOMAIN n.bs = Bindings
      BY Zenon, <1>8, <2>3 DEF CopyShape, AreBindings
    <3>4. b \in Named(n.bs, b[1])
      BY Zenon, <3>2, <3>3 DEF Named
    <3> QED
      BY Zenon, <2>3, <3>4 DEF Releasable, Pending
  <2> QED
    BY Zenon, <1>14, <2>1, <2>2, <2>3
<1>24. ASSUME ~gate'.fin PROVE Absent(pool') /\ NoBindings'
  <2>1. CASE ~gate.fin
    <3>1. w \notin {"pool", "loop"}
      BY Zenon, <1>2, <2>1 DEF Serving, w, n
    <3> QED
      BY Zenon, <1>3, <1>20, <2>1, <3>1
  <2>2. CASE w = "finish"
    BY Zenon, <1>2, <1>20, <2>2 DEF w, n
  <2> QED
    BY Zenon, <1>15, <1>24, <2>1, <2>2
<1> QED
  BY Zenon, <1>22, <1>23, <1>24

-----------------------------------------------------------------------------
(* The theorems.                                                           *)

(* AdapterInv holds at the start.                                          *)
LEMMA InitInv ==
    ASSUME Init
    PROVE  AdapterInv
<1>0. /\ plan \in PlanSet
      /\ gate = [NewGateway EXCEPT !.fin = plan.upgraded, !.ann = plan.upgraded]
      /\ pool = IF plan.upgraded THEN OldPool ELSE Engine!NoPool
      /\ alloc = Engine!NoLeases /\ archive = NoArchive
      /\ pc = [r \in Replicas |-> "idle"] /\ my = [r \in Replicas |-> Blank]
      /\ stale = {} /\ dirty = {}
  BY Zenon, AdapterConstants DEF Init
<1>1. /\ IsGate(gate) /\ gate.st = "live" /\ gate.fin = plan.upgraded /\ gate.ann = plan.upgraded
  BY Zenon, <1>0 DEF NewGateway, IsGate, PlanSet
<1>2. AreRoutes(route) /\ \A u \in Routes : route[u].st = "unborn" /\ ~route[u].fin
  <2>1. PICK s \in Services : s = CHOOSE x \in Services : TRUE
    BY Zenon, AdapterConstants
  <2>2. route = [u \in Routes |-> [st |-> "unborn", fin |-> FALSE, to |-> FirstParent[u],
                                   svc |-> s, cond |-> "none"]]
    BY <2>1 DEF Init
  <2>3. \A u \in Routes : FirstParent[u] \in Listeners \cup {Detached}
    BY Zenon, AdapterConstants
  <2> QED
    BY Zenon, <2>2, <2>3 DEF AreRoutes, IsRoute, States
<1>3. AreBindings(bind) /\ \A b \in Bindings : bind[b].st = "unborn"
  <2>1. PICK x : x \in Listeners
    BY Zenon, AdapterConstants
  <2>2. PICK y : y \in Services
    BY Zenon, AdapterConstants
  <2>3. [port |-> x, svc |-> y] \in Specs
    BY Zenon, <2>1, <2>2 DEF Specs
  <2>4. PICK s \in Specs : s = CHOOSE z \in Specs : TRUE
    BY Zenon, <2>3
  <2>5. bind = [b \in Bindings |-> Engine!Unborn(s)]
    BY Zenon, <2>4 DEF Init
  <2> QED
    BY Zenon, <2>5 DEF AreBindings, IsBinding, States, Engine!Unborn
<1>4. /\ IsPool(pool) /\ IsLedger(alloc) /\ Engine!Active(alloc) = {}
      /\ pool.st \in {"none", "live"} /\ (~plan.upgraded => pool.st = "none")
  <2>1. IsPool(pool) /\ pool.st \in {"none", "live"} /\ (~plan.upgraded => pool.st = "none")
    BY Zenon, <1>0 DEF IsPool, OldPool, Engine!NoPool
  <2>2. IsLedger(alloc) /\ Engine!Active(alloc) = {}
    BY Zenon, <1>0 DEF IsLedger, Engine!NoLeases, Engine!Active
  <2> QED
    BY Zenon, <2>1, <2>2
<1>5. leader \in Replicas
  BY Zenon, AdapterConstants DEF Init
<1>6. \A r \in Replicas : pc[r] = "idle" /\ my[r] = Blank
  BY <1>0
<1>7. ShapeInv
  BY <1>0, <1>1, <1>2, <1>3, <1>4, <1>5, <1>6, BlankShape DEF ShapeInv
<1>8. SealInv
  <2>1. \A r \in Replicas : SealCopy(r) /\ GateCopy(r)
    BY Zenon, <1>6 DEF SealCopy, GateCopy, Serving, Retiring, Before
  <2> QED
    BY Zenon, <1>0, <1>1, <1>4, <2>1 DEF SealInv, ArchiveFaithful, Exists
<1>9. LeaseHeld /\ RouteInv
  BY Zenon, <1>1, <1>2, <1>4, <1>6 DEF LeaseHeld, RouteInv
<1>10. LeaderInv
  <2>1. \A r \in Replicas : SolePass(r)
    BY Zenon, <1>6 DEF SolePass, Serving, Retiring
  <2> QED
    BY Zenon, <1>1, <1>3, <1>4, <2>1 DEF LeaderInv, Exists, Absent, NoBindings
<1> QED
  BY Zenon, <1>7, <1>8, <1>9, <1>10 DEF AdapterInv

(* AdapterInv survives stuttering.                                         *)
LEMMA Stutters ==
    ASSUME AdapterInv, UNCHANGED vars
    PROVE  AdapterInv'
<1>1. UNCHANGED <<gate, route, okay, archive, pool, alloc, bind, stale, leader, pc, my, dirty, plan>>
  BY Zenon DEF vars, objects, generated, control
<1>2. ShapeInv' /\ LeaseHeld' /\ RouteInv'
  BY <1>1, Zenon DEF AdapterInv, ShapeInv, LeaseHeld, RouteInv
<1>3. SealInv'
  BY <1>1, Zenon DEF AdapterInv, SealInv, SealCopy, GateCopy, ArchiveFaithful
<1>4. LeaderInv'
  BY <1>1, Zenon DEF AdapterInv, LeaderInv, Sole, SolePass, NoBindings
<1> QED
  BY Zenon, <1>2, <1>3, <1>4 DEF AdapterInv

(* The invariant of the adapter, of every run of it.                       *)
THEOREM AdapterInvariant == Spec => []AdapterInv
<1>1. Init => AdapterInv
  BY Zenon, InitInv
<1>2. AdapterInv /\ [Next]_vars => AdapterInv'
  <2> SUFFICES ASSUME AdapterInv, Next PROVE AdapterInv'
    BY Zenon, Stutters
  <2>1. LeaseHeld'
    <3>1. /\ ShapeInv /\ LeaseHeld /\ IsPool(pool) /\ IsLedger(alloc) /\ AreBindings(bind)
          /\ \A r \in Replicas : SealCopy(r)
      BY Zenon DEF AdapterInv, ShapeInv, SealInv
    <3> QED
      BY <3>1, GeneratedStep, LeaseKept
  <2> QED
    BY Zenon, <2>1, ShapeStep, SealKept, RouteKept, LeaderKept DEF AdapterInv
<1> QED
  BY <1>1, <1>2, PTL DEF Spec

(* ArchiveFaithful: the ConfigMap that retireGateway writes before it lets *)
(* the pool go holds the pool's last ledger, all leases retired, however   *)
(* many replicas believe they lead.                                        *)
THEOREM ArchivesAreFinal == Spec => []ArchiveFaithful
<1>1. AdapterInv => ArchiveFaithful
  BY Zenon DEF AdapterInv, SealInv
<1> QED
  BY <1>1, AdapterInvariant, PTL

(* GatewayLast: with one leader the finalizer of the Gateway is removed    *)
(* only after its pool and every binding are gone.                         *)
THEOREM GatewaysGoLast == Spec => []GatewayLast
<1>1. AdapterInv => GatewayLast
  BY Zenon DEF AdapterInv, RouteInv, LeaderInv, Sole, NoBindings, GatewayLast
<1> QED
  BY <1>1, AdapterInvariant, PTL

(* RouteGuarded: with one leader the finalizer of a route is removed only  *)
(* after its bindings are gone, whose own finalizers wait for the lease to *)
(* be retired.                                                             *)
THEOREM RoutesAreGuarded == Spec => []RouteGuarded
<1>1. ASSUME AdapterInv PROVE RouteGuarded
  <2> SUFFICES ASSUME NEW u \in Routes, route[u].st = "gone", "leader" \notin plan.kinds
               PROVE  /\ Named(bind, u) = {}
                      /\ \A b \in DOMAIN alloc : b[1] = u => alloc[b].tomb
    BY Zenon DEF RouteGuarded
  <2>1. ~route[u].fin
    BY Zenon, <1>1 DEF AdapterInv, RouteInv, Exists
  <2>2. \A b \in Bindings : b[1] = u => ~Exists(bind[b])
    BY Zenon, <1>1, <2>1 DEF AdapterInv, LeaderInv, Sole
  <2>3. DOMAIN bind = Bindings /\ DOMAIN alloc \subseteq Bindings
    BY Zenon, <1>1 DEF AdapterInv, ShapeInv, AreBindings, IsLedger
  <2>4. Named(bind, u) = {}
    BY Zenon, <2>2, <2>3 DEF Named
  <2>5. \A b \in DOMAIN alloc : b[1] = u => alloc[b].tomb
    BY Zenon, <1>1, <2>2, <2>3 DEF AdapterInv, LeaseHeld, Engine!Active
  <2> QED
    BY Zenon, <2>4, <2>5
<1> QED
  BY <1>1, AdapterInvariant, PTL

(* LedgerNotReplaced: with one leader ensurePool does not put a new pool,  *)
(* with an empty ledger, in the place of one that is gone.                 *)
THEOREM LedgersAreNotReplaced == Spec => LedgerNotReplaced
<1>1. ASSUME AdapterInv, Next, pool.st = "gone", "leader" \notin plan.kinds
      PROVE  pool'.st = "gone"
  <2>1. /\ ShapeInv /\ IsPool(pool) /\ \A r \in Replicas : SealCopy(r) /\ SolePass(r)
    BY Zenon, <1>1 DEF AdapterInv, ShapeInv, SealInv, LeaderInv, Sole
  <2>2. (UNCHANGED pool) \/ \E r \in Replicas : Creates(r)
    BY Zenon, <1>1, <2>1, GeneratedStep, PoolKept DEF Absent
  <2>3. ASSUME NEW r \in Replicas, Creates(r) PROVE FALSE
    BY Zenon, <1>1, <2>1, <2>3 DEF Creates, SolePass
  <2> QED
    BY Zenon, <1>1, <2>2, <2>3
<1>2. AdapterInv /\ [Next]_vars =>
          [pool.st = "gone" /\ "leader" \notin plan.kinds => pool'.st = "gone"]_vars
  BY Zenon, <1>1
<1> QED
  BY <1>2, AdapterInvariant, PTL DEF Spec, LedgerNotReplaced

(* With one leader every step is one of EngineContract or leaves pool,     *)
(* ledger and bindings alone.                                              *)
LEMMA ContractStep ==
    ASSUME AdapterInv, Sole, Next
    PROVE  Engine!Next \/ UNCHANGED <<pool, alloc, bind>>
<1>0. /\ ShapeInv /\ SealInv /\ IsPool(pool)
      /\ \A r \in Replicas : SealCopy(r) /\ SolePass(r)
  BY Zenon DEF AdapterInv, ShapeInv, SealInv, LeaderInv
<1>1. Generates
  BY <1>0, GeneratedStep
<1>2. CASE EngineSteps
  BY <1>2, Zenon DEF EngineSteps, Engine!Next, Engine!Controller
<1>3. CASE Engine!DeletePool \/ Engine!AddGuard
  BY Zenon, <1>3 DEF Engine!Next, Engine!User
<1>4. CASE \E b \in Bindings : Engine!DeleteBinding(b) \/ Engine!EditBinding(b)
  BY <1>4, Zenon DEF Engine!Next, Engine!User
<1>5. ASSUME NEW r \in Replicas, Creates(r) PROVE Engine!Next
  <2>1. pool.st = "none"
    BY Zenon, <1>0, <1>5 DEF Creates, SolePass, Absent
  <2>2. alloc = Engine!NoLeases
    BY Zenon, <1>0, <2>1 DEF SealInv
  <2>3. Engine!CreatePool
    BY Zenon, <1>5, <2>1, <2>2 DEF Creates, FreshPool, Engine!CreatePool
  <2> QED
    BY Zenon, <2>3 DEF Engine!Next, Engine!User
<1>6. ASSUME NEW r \in Replicas, Sealed(r) PROVE Engine!Next
  <2>1. UNCHANGED <<alloc, bind>>
    BY <1>6 DEF Sealed
  <2>2. Engine!DeletePool \/ Engine!DropGuard
    BY Zenon, <1>0, <1>6, <2>1, SealedIs DEF Exists, Dropped, Engine!DeletePool, Engine!DropGuard
  <2> QED
    BY Zenon, <2>2 DEF Engine!Next, Engine!User
<1>7. CASE \E r \in Replicas : \E b \in Bindings, s \in Specs : Binds(r, b, s)
  BY <1>7, Zenon DEF Binds, Engine!Next, Engine!User
<1> QED
  BY Zenon, <1>1, <1>2, <1>3, <1>4, <1>5, <1>6, <1>7 DEF Generates

(* UsesContract: in a behaviour without a change of leader the adapter,    *)
(* the users and the garbage collector do to the generated objects what    *)
(* the NLBPool controller expects of its users, and nothing else.          *)
THEOREM ContractIsKept == Spec /\ Sole => UsesContract
<1>1. Init => Engine!Init
  <2> SUFFICES ASSUME Init PROVE Engine!Init
    BY Zenon
  <2>1. pool \in {Engine!NoPool, OldPool} /\ alloc = Engine!NoLeases
    BY DEF Init
  <2>2. PICK x : x \in Listeners
    BY AdapterConstants
  <2>3. PICK y : y \in Services
    BY AdapterConstants
  <2>4. [port |-> x, svc |-> y] \in Specs
    BY <2>2, <2>3 DEF Specs
  <2>5. PICK s \in Specs : s = CHOOSE z \in Specs : TRUE
    BY <2>4
  <2>6. bind = [b \in Bindings |-> Engine!Unborn(s)]
    BY <2>5 DEF Init
  <2>7. bind \in [Bindings -> {Engine!Unborn(z) : z \in Specs}]
    BY <2>6
  <2>8. pool \in {Engine!NoPool} \cup {[Engine!NoPool EXCEPT !.st = "live", !.fin = h] : h \in BOOLEAN}
    BY Zenon, <2>1 DEF OldPool
  <2> QED
    BY Zenon, <2>1, <2>7, <2>8 DEF Engine!Init
<1>2. AdapterInv /\ Sole /\ [Next]_vars => Sole'
  <2> SUFFICES ASSUME AdapterInv, Sole, [Next]_vars PROVE Sole'
    BY Zenon
  <2>1. CASE Next
    <3>1. plan'.kinds = plan.kinds
      BY Zenon, <2>1, PlanKept DEF AdapterInv, ShapeInv
    <3> QED
      BY Zenon, <3>1 DEF Sole
  <2>2. CASE UNCHANGED vars
    BY <2>2, Zenon DEF vars, Sole
  <2> QED
    BY Zenon, <2>1, <2>2
<1>3. AdapterInv /\ Sole /\ [Next]_vars => [Engine!Next]_(Engine!vars)
  <2> SUFFICES ASSUME AdapterInv, Sole, [Next]_vars
               PROVE  Engine!Next \/ UNCHANGED <<pool, alloc, bind>>
    BY Zenon DEF Engine!vars
  <2>1. CASE UNCHANGED vars
    BY <2>1, Zenon DEF vars, generated
  <2> QED
    BY Zenon, <2>1, ContractStep
<1> QED
  BY <1>1, <1>2, <1>3, AdapterInvariant, PTL DEF Spec, UsesContract, Engine!ContractSpec
=============================================================================
