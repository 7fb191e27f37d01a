--------------------------- MODULE GatewayAdapter ---------------------------
(***************************************************************************)
(* The Gateway controller (internalgateway): one Gateway, the UDPRoutes    *)
(* that attach to its listeners, and the NLBPool and TunnelBindings it     *)
(* generates.  What the NLBPool controller does with those objects is      *)
(* taken from EngineContract.                                              *)
(*                                                                         *)
(* A pass lists routes, bindings and pools, cleans up after routes, and    *)
(* then either retires the Gateway, refuses it, or creates its pool and    *)
(* works through its routes.  Every read is kept in my[r].  Update and     *)
(* deleteExact fail on an outdated copy; Patch does not.                   *)
(***************************************************************************)
EXTENDS Integers, FiniteSets, FiniteSetsExt

CONSTANTS
    Routes,       \* UIDs of UDPRoutes, numbered from the oldest
    Listeners,    \* the ports of the Gateway's listeners
    Services,     \* backends that routes may name
    FirstParent,  \* the parent every route is created with
    Generations,  \* incarnations of a binding name
    Replicas,     \* controller processes
    Plans         \* bounds on what users and the world do in a behaviour

(* Parents other than a listener of this Gateway: none, another Gateway,   *)
(* and this one in a form that listenerFor refuses.                        *)
Detached == 0
Elsewhere == -1
Unsupported == -2

Bindings == Routes \X (1..Generations)
Specs == [port : Listeners, svc : Services]

(* A plan bounds a behaviour: whether the pool was created by an older     *)
(* release, the routes that users create, the kinds of disturbance that    *)
(* happen, how many there are at most, how many OCI changes the NLBPool    *)
(* controller makes, and how often a binding of one name is created.       *)
PlanSet == [upgraded : BOOLEAN, routes : SUBSET Routes,
            kinds : SUBSET STRING, left : Nat, work : Nat,
            again : 1..Generations]

ASSUME AdapterConstants ==
    /\ Routes \subseteq Nat \ {0} /\ Listeners \subseteq Nat \ {0}
    /\ FirstParent \in [Routes -> Listeners \cup {Detached}]
    /\ Generations \in Nat \ {0}
    /\ Services # {} /\ Listeners # {} /\ Replicas # {}
    /\ Plans \subseteq PlanSet

VARIABLES
    gate,      \* the Gateway
    route,     \* the UDPRoutes
    okay,      \* Services that exist and pass validation
    pool, alloc, bind,   \* the generated objects, as in EngineContract
    archive,   \* the ConfigMap with the retired ledger
    leader, pc, my,      \* as in NLBEngine
    stale,     \* replicas whose copy of the pool is not the latest version
    dirty,     \* (replica, route) pairs whose copy is not the latest one
    plan       \* the plan of the behaviour: what is left of it

objects == <<gate, route, okay, archive>>
generated == <<pool, alloc, bind, stale>>
control == <<leader, pc, my>>
vars == <<objects, generated, control, dirty, plan>>

Engine == INSTANCE EngineContract

-----------------------------------------------------------------------------
(* Values.                                                                 *)

NoArchive == [alloc |-> Engine!NoLeases, shard |-> "absent"]
OldPool == [Engine!NoPool EXCEPT !.st = "live", !.fin = TRUE]

NewGateway == [st |-> "live", fin |-> FALSE, problem |-> "none",
               ann |-> FALSE, cond |-> "none"]
Blank == [rts |-> [u \in {} |-> {}], bs |-> [b \in {} |-> {}],
          p |-> Engine!NoPool, a |-> Engine!NoLeases, g |-> NewGateway,
          okay |-> {},
          todo |-> {}, turn |-> 0, claimed |-> {}, done |-> {}, say |-> ""]

Init ==
    /\ plan \in Plans
    /\ gate = [NewGateway EXCEPT !.fin = plan.upgraded, !.ann = plan.upgraded]
    /\ route = [u \in Routes |-> [st |-> "unborn", fin |-> FALSE,
                                  to |-> FirstParent[u],
                                  svc |-> CHOOSE s \in Services : TRUE,
                                  cond |-> "none"]]
    /\ okay = Services
    /\ pool = IF plan.upgraded THEN OldPool ELSE Engine!NoPool
    /\ alloc = Engine!NoLeases
    /\ bind = [b \in Bindings |-> Engine!Unborn(CHOOSE s \in Specs : TRUE)]
    /\ archive = NoArchive
    /\ leader = CHOOSE r \in Replicas : TRUE
    /\ pc = [r \in Replicas |-> "idle"]
    /\ my = [r \in Replicas |-> Blank]
    /\ stale = {} /\ dirty = {}

Exists(x) == x.st \in {"live", "deleting"}
Suspended(b) == b.gen % 2 = 1
Deleted(x) == [x EXCEPT !.st = IF x.fin THEN "deleting" ELSE "gone"]
Unheld(x) == [x EXCEPT !.fin = FALSE,
                       !.st = IF x.st = "deleting" THEN "gone" ELSE @]

Named(bs, u) == {b \in DOMAIN bs : b[1] = u /\ Exists(bs[b])}
Targets(x) == x.st = "live" /\ x.to \in Listeners \cup {Unsupported}

(* Steps of a pass.                                                        *)
Goto(r, where, m) ==
    /\ pc' = [pc EXCEPT ![r] = where]
    /\ my' = [my EXCEPT ![r] = m]
    /\ UNCHANGED leader
EndPass(r) == Goto(r, "idle", Blank)

(* A write to the pool or to a route outdates every other copy of it.      *)
PoolWritten(r) == stale' = stale \cup (Replicas \ {r})
RouteWritten(r, u) == dirty' = dirty \cup ((Replicas \ {r}) \X {u})

(* Something that may go wrong, if the plan has it.                        *)
Disturb(kind) == /\ kind \in plan.kinds /\ plan.left > 0
                 /\ plan' = [plan EXCEPT !.left = @ - 1]

-----------------------------------------------------------------------------
(* Reconcile: the lists, in their order.                                   *)

ListRoutes(r) ==
    /\ r = leader /\ pc[r] = "idle"
    /\ Goto(r, "bindings", [Blank EXCEPT !.rts = route])
    /\ dirty' = dirty \ ({r} \X Routes)
    /\ UNCHANGED <<objects, generated, plan>>

ListBindings(r) ==
    /\ pc[r] = "bindings"
    /\ Goto(r, "pools", [my[r] EXCEPT !.bs = bind])
    /\ UNCHANGED <<objects, generated, dirty, plan>>

ListPools(r) ==
    /\ pc[r] = "pools"
    /\ Goto(r, "cleanup", [my[r] EXCEPT !.p = pool, !.a = alloc])
    /\ UNCHANGED <<objects, generated, dirty, plan>>

-----------------------------------------------------------------------------
(* cleanupRoutes.                                                          *)

(* deleteExact: UID and resourceVersion must be those of the listed copy;  *)
(* an object that is already gone is no error.  The callers pass a live    *)
(* binding, or return without deleting.                                    *)
deleteExact(r, b) ==
    /\ bind' = IF bind[b] = my[r].bs[b] /\ bind[b].st = "live"
               THEN [bind EXCEPT ![b] = Deleted(@)] ELSE bind
    /\ UNCHANGED <<pool, alloc, stale>>

Unattached(m) ==
    {b \in DOMAIN m.bs : m.bs[b].st = "live" /\ ~Targets(m.rts[b[1]])}

(* Mutants: bindings are not waited for; retired leases are.               *)
PendingLeases(m, u) ==
    Exists(m.p) /\ \E b \in DOMAIN m.a :
        b[1] = u /\ (~m.a[b].tomb \/ m.p.pending)

Pending(m, u) ==
    \/ Named(m.bs, u) # {}
    \/ Exists(m.p) /\ \E b \in DOMAIN m.a :
          b[1] = u /\ (~m.a[b].tomb \/ m.p.pending)
Releasable(m) ==
    {u \in Routes : /\ m.rts[u].fin
                    /\ m.rts[u].st = "deleting" \/ m.rts[u].to = Detached
                    /\ ~Pending(m, u)}

DeleteUnattached(r) ==
    /\ pc[r] = "cleanup"
    /\ \E b \in Unattached(my[r]) : deleteExact(r, b)
    /\ EndPass(r)
    /\ UNCHANGED <<objects, dirty, plan>>

ReleaseRoute(r) ==
    /\ pc[r] = "cleanup" /\ Unattached(my[r]) = {}
    /\ \E u \in Releasable(my[r]) :
          IF <<r, u>> \in dirty THEN UNCHANGED <<route, dirty>>
          ELSE /\ route' = [route EXCEPT ![u] = Unheld(@)]
               /\ RouteWritten(r, u)
    /\ EndPass(r)
    /\ UNCHANGED <<gate, okay, archive, generated, plan>>

CleanupDone(r) ==
    /\ pc[r] = "cleanup" /\ Unattached(my[r]) = {} /\ Releasable(my[r]) = {}
    /\ Goto(r, "gateway", my[r])
    /\ UNCHANGED <<objects, generated, dirty, plan>>

-----------------------------------------------------------------------------
(* The Gateway itself.                                                     *)

Parents(x) == Exists(x) /\ x.to \in Listeners \cup {Unsupported}

GetGateway(r) ==
    LET m == [my[r] EXCEPT !.g = gate]
    IN  /\ pc[r] = "gateway"
        /\ CASE gate.st = "gone" -> EndPass(r)
             [] gate.st = "deleting" ->
                  Goto(r, "reject", [m EXCEPT
                      !.todo = {u \in Routes : Parents(m.rts[u])}])
             [] gate.st = "live" /\ gate.problem # "none" ->
                  IF gate.problem = "class" /\ ~gate.fin THEN EndPass(r)
                  ELSE Goto(r, "disable", [m EXCEPT
                           !.todo = {b \in Bindings : Exists(m.bs[b])}])
             [] gate.st = "live" /\ gate.problem = "none" ->
                  gate.fin /\ Goto(r, "pool", m)
        /\ UNCHANGED <<objects, generated, dirty, plan>>

AddGatewayFinalizer(r) ==
    /\ pc[r] = "gateway"
    /\ gate.st = "live" /\ gate.problem = "none" /\ ~gate.fin
    /\ gate' = [gate EXCEPT !.fin = TRUE]
    /\ EndPass(r)
    /\ UNCHANGED <<route, okay, archive, generated, dirty, plan>>

(* A Patch of spec.suspended, unless the copy shows it is not needed; it   *)
(* fails when the binding is gone.                                         *)
Quiet(copy) == Suspended(copy) \/ copy.st = "deleting"
disableBinding(b, copy) ==
    /\ Quiet(copy) \/ Exists(bind[b])
    /\ bind' = IF Quiet(copy) \/ Suspended(bind[b]) THEN bind
               ELSE [bind EXCEPT ![b].gen = @ + 1]
    /\ UNCHANGED <<pool, alloc, stale>>

DisableAll(r) ==
    /\ pc[r] = "disable" /\ my[r].todo # {}
    /\ \E b \in my[r].todo :
          /\ disableBinding(b, my[r].bs[b])
          /\ Goto(r, "disable", [my[r] EXCEPT !.todo = @ \ {b}])
    /\ UNCHANGED <<objects, dirty, plan>>

DisabledAll(r) ==
    /\ pc[r] = "disable" /\ my[r].todo = {}
    /\ Goto(r, "reject", [my[r] EXCEPT
           !.todo = {u \in Routes : Parents(my[r].rts[u])}])
    /\ UNCHANGED <<objects, generated, dirty, plan>>

(* routeStatus: a Patch of what differs from the copy.                     *)
routeStatus(r, u, c) ==
    IF my[r].rts[u].cond = c THEN UNCHANGED <<route, dirty>>
    ELSE /\ Exists(route[u])
         /\ route' = [route EXCEPT ![u].cond = c]
         /\ RouteWritten(r, u)

rejectRoutes(r) ==
    /\ pc[r] = "reject" /\ my[r].todo # {}
    /\ \E u \in my[r].todo :
          /\ routeStatus(r, u, "rejected")
          /\ Goto(r, "reject", [my[r] EXCEPT !.todo = @ \ {u}])
    /\ UNCHANGED <<gate, okay, archive, generated, plan>>

Rejected(r) ==
    /\ pc[r] = "reject" /\ my[r].todo = {}
    /\ IF my[r].g.st = "live"
       THEN Goto(r, "report", [my[r] EXCEPT !.say = "refused"])
       ELSE IF my[r].g.fin THEN Goto(r, "retire", my[r]) ELSE EndPass(r)
    /\ UNCHANGED <<objects, generated, dirty, plan>>

gatewayStatus(r) ==
    /\ pc[r] = "report" /\ gate.st # "gone"
    /\ gate' = IF my[r].g.cond = my[r].say THEN gate
               ELSE [gate EXCEPT !.cond = my[r].say]
    /\ EndPass(r)
    /\ UNCHANGED <<route, okay, archive, generated, dirty, plan>>

-----------------------------------------------------------------------------
(* ensurePool: the read and the write of the pool are one step, since both *)
(* Create and Update fail if somebody else wrote in between.               *)

Absent(p) == p.st \in {"none", "gone"}

PoolRefused(r) ==
    /\ pc[r] = "pool"
    /\ IF Absent(pool) THEN my[r].g.ann ELSE pool.st = "deleting"
    /\ Goto(r, "report", [my[r] EXCEPT !.say = "refused"])
    /\ UNCHANGED <<objects, generated, dirty, plan>>

(* Mutant: a lost pool is created again.                                   *)
ensurePoolAnew(r) ==
    LET p == IF Absent(pool)
             THEN [Engine!NoPool EXCEPT !.st = "live", !.fin = TRUE,
                                        !.guard = TRUE]
             ELSE [pool EXCEPT !.guard = TRUE]
        a == IF Absent(pool) THEN Engine!NoLeases ELSE alloc
    IN  /\ pc[r] = "pool" /\ pool.st # "deleting"
        /\ pool' = p /\ alloc' = a
        /\ IF p = pool THEN UNCHANGED stale ELSE PoolWritten(r)
        /\ Goto(r, IF my[r].g.ann THEN "services" ELSE "annotate",
                [my[r] EXCEPT !.p = p, !.a = a])
        /\ UNCHANGED <<objects, bind, dirty, plan>>

ensurePool(r) ==
    LET p == IF Absent(pool)
             THEN [Engine!NoPool EXCEPT !.st = "live", !.fin = TRUE,
                                        !.guard = TRUE]
             ELSE [pool EXCEPT !.guard = TRUE]
        a == IF Absent(pool) THEN Engine!NoLeases ELSE alloc
    IN  /\ pc[r] = "pool"
        /\ IF Absent(pool) THEN ~my[r].g.ann ELSE pool.st = "live"
        /\ pool' = p /\ alloc' = a
        /\ IF p = pool THEN UNCHANGED stale ELSE PoolWritten(r)
        /\ Goto(r, IF my[r].g.ann THEN "services" ELSE "annotate",
                [my[r] EXCEPT !.p = p, !.a = a])
        /\ UNCHANGED <<objects, bind, dirty, plan>>

Annotate(r) ==
    /\ pc[r] = "annotate" /\ gate.st # "gone"
    /\ gate' = [gate EXCEPT !.ann = TRUE]
    /\ Goto(r, "services", [my[r] EXCEPT !.g.ann = TRUE])
    /\ UNCHANGED <<route, okay, archive, generated, dirty, plan>>

ListServices(r) ==
    /\ pc[r] = "services"
    /\ Goto(r, "loop", [my[r] EXCEPT
           !.okay = okay, !.todo = {u \in Routes : Targets(my[r].rts[u])}])
    /\ UNCHANGED <<objects, generated, dirty, plan>>

-----------------------------------------------------------------------------
(* The routes of the Gateway, the oldest first.                            *)

Turn(m) == Min(m.todo)

(* Mutant: only the active lease of another route defeats a route.         *)
VerdictReuse(m, u) ==
    LET x == m.rts[u]
        leased == \E b \in DOMAIN m.a :
                     m.a[b].port = x.to /\ b[1] # u /\ ~m.a[b].tomb
    IN  IF x.to = Unsupported THEN "rejected"
        ELSE IF x.to \in m.claimed THEN "conflicted"
        ELSE IF x.svc \notin m.okay THEN "unresolved"
        ELSE IF leased THEN "leased" ELSE "fine"

Verdict(m, u) ==
    LET x == m.rts[u]
        leased == \E b \in DOMAIN m.a : m.a[b].port = x.to /\ b[1] # u
    IN  IF x.to = Unsupported THEN "rejected"
        ELSE IF x.to \in m.claimed THEN "conflicted"
        ELSE IF x.svc \notin m.okay THEN "unresolved"
        ELSE IF leased THEN "leased" ELSE "fine"

(* The listener is claimed as soon as the route may have it, before its    *)
(* backend and the lease of the port are looked at.                        *)
AfterTurn(m) ==
    LET u == Turn(m)
    IN  [m EXCEPT !.todo = @ \ {u}, !.turn = u,
                  !.claimed = @ \cup ({m.rts[u].to} \cap Listeners)]
Says(m, c) == [AfterTurn(m) EXCEPT !.say = c]

DisableRoute(r) ==
    LET m == my[r]
        u == Turn(m)
    IN  /\ pc[r] = "loop" /\ m.todo # {} /\ Verdict(m, u) # "fine"
        /\ IF Named(m.bs, u) = {} THEN UNCHANGED <<pool, alloc, bind, stale>>
           ELSE \E b \in Named(m.bs, u) : disableBinding(b, m.bs[b])
        /\ Goto(r, "status", Says(m, Verdict(m, u)))
        /\ UNCHANGED <<objects, dirty, plan>>

(* Fails, and ends the pass, on an outdated copy of the route.             *)
AddRouteFinalizer(r) ==
    LET m == my[r]
        u == Turn(m)
    IN  /\ pc[r] = "loop" /\ m.todo # {} /\ Verdict(m, u) = "fine"
        /\ ~m.rts[u].fin
        /\ IF <<r, u>> \in dirty
           THEN EndPass(r) /\ UNCHANGED <<route, dirty>>
           ELSE /\ route' = [route EXCEPT ![u].fin = TRUE]
                /\ RouteWritten(r, u)
                /\ Goto(r, "loop", AfterTurn(m))
        /\ UNCHANGED <<gate, okay, archive, generated, plan>>

AtBinding(r) ==
    /\ pc[r] = "loop" /\ my[r].todo # {}
    /\ Verdict(my[r], Turn(my[r])) = "fine" /\ my[r].rts[Turn(my[r])].fin
Wanted(m) == [port |-> m.rts[Turn(m)].to, svc |-> m.rts[Turn(m)].svc]

CreateBinding(r) ==
    LET u == Turn(my[r])
    IN  /\ AtBinding(r) /\ Named(bind, u) = {}
        /\ \E i \in 1..plan.again :
              /\ bind[<<u, i>>].st = "unborn"
              /\ \A j \in 1..(i - 1) : bind[<<u, j>>].st # "unborn"
              /\ bind' = [bind EXCEPT ![<<u, i>>].st = "live",
                                      ![<<u, i>>].spec = Wanted(my[r])]
        /\ Goto(r, "status", Says(my[r], "accepted"))
        /\ UNCHANGED <<objects, pool, alloc, stale, dirty, plan>>

(* ensureBinding on a binding that exists.  One that is being deleted ends *)
(* the pass; one with another target is suspended and keeps its lease.     *)
programmed(m, b) ==
    /\ bind[b].cond = "True" /\ bind[b].og = bind[b].gen
    /\ ~m.p.pending /\ m.p.shard = "ip"

CleanupPending(r) ==
    /\ AtBinding(r)
    /\ \E b \in Named(bind, Turn(my[r])) : bind[b].st = "deleting"
    /\ EndPass(r)
    /\ UNCHANGED <<objects, generated, dirty, plan>>

(* Mutant: the target of a bound route is simply changed.                  *)
RefuseTargetNot(r) ==
    /\ AtBinding(r)
    /\ \E b \in Named(bind, Turn(my[r])) :
          /\ bind[b].st = "live" /\ bind[b].spec # Wanted(my[r])
          /\ bind' = [bind EXCEPT ![b].spec = Wanted(my[r])]
    /\ Goto(r, "status", Says(my[r], "accepted"))
    /\ UNCHANGED <<objects, pool, alloc, stale, dirty, plan>>

RefuseTarget(r) ==
    /\ AtBinding(r)
    /\ \E b \in Named(bind, Turn(my[r])) :
          /\ bind[b].st = "live" /\ bind[b].spec # Wanted(my[r])
          /\ disableBinding(b, bind[b])
    /\ Goto(r, "status", Says(my[r], "rejected"))
    /\ UNCHANGED <<objects, dirty, plan>>

ensureBinding(r) ==
    LET m == my[r]
    IN  /\ AtBinding(r)
        /\ \E b \in Named(bind, Turn(m)) :
              /\ bind[b].st = "live" /\ bind[b].spec = Wanted(m)
              /\ bind' = IF Suspended(bind[b])
                         THEN [bind EXCEPT ![b].gen = @ + 1] ELSE bind
              /\ Goto(r, "status",
                      Says(m, IF ~Suspended(bind[b]) /\ programmed(m, b)
                              THEN "programmed" ELSE "accepted"))
        /\ UNCHANGED <<objects, pool, alloc, stale, dirty, plan>>

RouteStatus(r) ==
    LET m == my[r]
    IN  /\ pc[r] = "status"
        /\ routeStatus(r, m.turn, m.say)
        /\ Goto(r, "loop", [m EXCEPT !.turn = 0, !.say = "",
               !.done = IF m.say = "programmed"
                        THEN @ \cup {m.rts[m.turn].to} ELSE @])
        /\ UNCHANGED <<gate, okay, archive, generated, plan>>

LoopDone(r) ==
    LET m == my[r]
        all == m.done = Listeners /\ ~m.p.pending /\ m.p.shard = "ip"
    IN  /\ pc[r] = "loop" /\ m.todo = {}
        /\ Goto(r, "report",
                [m EXCEPT !.say = IF all THEN "programmed" ELSE "pending"])
        /\ UNCHANGED <<objects, generated, dirty, plan>>

(* Any request of a pass may find its object gone: the pass returns the    *)
(* error and is tried again.                                               *)
NotFound(r) ==
    /\ \/ /\ pc[r] = "disable"
          /\ \E b \in my[r].todo : ~Quiet(my[r].bs[b]) /\ ~Exists(bind[b])
       \/ /\ pc[r] = "reject"
          /\ \E u \in my[r].todo : /\ my[r].rts[u].cond # "rejected"
                                   /\ ~Exists(route[u])
       \/ /\ pc[r] = "status" /\ ~Exists(route[my[r].turn])
          /\ my[r].rts[my[r].turn].cond # my[r].say
       \/ /\ pc[r] = "loop" /\ my[r].todo # {}
          /\ Verdict(my[r], Turn(my[r])) # "fine"
          /\ \E b \in Named(my[r].bs, Turn(my[r])) :
                ~Quiet(my[r].bs[b]) /\ ~Exists(bind[b])
       \/ pc[r] \in {"annotate", "report"} /\ gate.st = "gone"
    /\ EndPass(r)
    /\ UNCHANGED <<objects, generated, dirty, plan>>

-----------------------------------------------------------------------------
(* retireGateway.                                                          *)

RetireBinding(r) ==
    /\ pc[r] = "retire"
    /\ \E b \in Bindings : /\ Exists(my[r].bs[b])
                            /\ deleteExact(r, b)
    /\ EndPass(r)
    /\ UNCHANGED <<objects, dirty, plan>>

(* With no binding left the pool is read again.  It is waited for while    *)
(* the NLBPool controller has something to do.                             *)
(* Mutant: waits until the ledger is empty.                                *)
QuiescentEmpty(p, a) == (p.st = "live" \/ ~p.fin) /\ ~p.pending /\ DOMAIN a = {}

Quiescent(p, a) ==
    /\ p.st = "live" \/ ~p.fin
    /\ ~p.pending /\ Engine!Active(a) = {}

(* Mutant: a pool that is being deleted counts as gone.                    *)
RetireReadEarly(r) ==
    /\ pc[r] = "retire" /\ \A b \in Bindings : ~Exists(my[r].bs[b])
    /\ pool.st = "live" => pool.guard
    /\ CASE pool.st # "live" -> Goto(r, "finish", my[r])
         [] pool.st = "live" /\ Quiescent(pool, alloc) ->
              Goto(r, "archive", [my[r] EXCEPT !.p = pool, !.a = alloc])
         [] pool.st = "live" /\ ~Quiescent(pool, alloc) -> EndPass(r)
    /\ stale' = stale \ {r}
    /\ UNCHANGED <<objects, pool, alloc, bind, dirty, plan>>

RetireRead(r) ==
    /\ pc[r] = "retire" /\ \A b \in Bindings : ~Exists(my[r].bs[b])
    /\ pool.st = "live" => pool.guard
    /\ CASE Absent(pool) -> Goto(r, "finish", my[r])
         [] Exists(pool) /\ Quiescent(pool, alloc) ->
              Goto(r, "archive", [my[r] EXCEPT !.p = pool, !.a = alloc])
         [] Exists(pool) /\ ~Quiescent(pool, alloc) -> EndPass(r)
    /\ stale' = stale \ {r}
    /\ UNCHANGED <<objects, pool, alloc, bind, dirty, plan>>

GuardPool(r) ==
    /\ pc[r] = "retire" /\ \A b \in Bindings : ~Exists(my[r].bs[b])
    /\ pool.st = "live" /\ ~pool.guard
    /\ pool' = [pool EXCEPT !.guard = TRUE]
    /\ PoolWritten(r)
    /\ EndPass(r)
    /\ UNCHANGED <<objects, alloc, bind, dirty, plan>>

Ledger(m) == [alloc |-> m.a, shard |-> m.p.shard]

Archive(r) ==
    /\ pc[r] = "archive" /\ archive = NoArchive
    /\ archive' = Ledger(my[r])
    /\ Goto(r, "seal", my[r])
    /\ UNCHANGED <<gate, route, okay, generated, dirty, plan>>

(* Mutant: any archive of the Gateway will do.                             *)
CompareArchiveAny(r) ==
    /\ pc[r] = "archive" /\ archive # NoArchive
    /\ Goto(r, "seal", my[r])
    /\ UNCHANGED <<objects, generated, dirty, plan>>

CompareArchive(r) ==
    /\ pc[r] = "archive" /\ archive # NoArchive
    /\ IF archive = Ledger(my[r]) THEN Goto(r, "seal", my[r]) ELSE EndPass(r)
    /\ UNCHANGED <<objects, generated, dirty, plan>>

(* deleteExact of a live pool, or the archive finalizer of a deleting one  *)
(* is removed; both fail on an outdated copy.                              *)
Seal(r) ==
    LET p == my[r].p
    IN  /\ pc[r] = "seal"
        /\ IF r \in stale \/ (p.st = "deleting" /\ ~p.guard)
           THEN UNCHANGED <<pool, stale>>
           ELSE /\ pool' = Engine!Released(
                      IF p.st = "live" THEN [pool EXCEPT !.st = "deleting"]
                      ELSE [pool EXCEPT !.guard = FALSE])
                /\ PoolWritten(r)
        /\ EndPass(r)
        /\ UNCHANGED <<objects, alloc, bind, dirty, plan>>

FinishGateway(r) ==
    LET proven == archive # NoArchive /\ Engine!Active(archive.alloc) = {}
    IN  /\ pc[r] = "finish"
        /\ gate' = IF gate = my[r].g /\ (gate.ann => proven)
                   THEN Unheld(gate) ELSE gate
        /\ EndPass(r)
        /\ UNCHANGED <<route, okay, archive, generated, dirty, plan>>

Step(r) ==
    \/ ListBindings(r) \/ ListPools(r)
    \/ DeleteUnattached(r) \/ ReleaseRoute(r) \/ CleanupDone(r)
    \/ GetGateway(r) \/ AddGatewayFinalizer(r) \/ DisableAll(r)
    \/ DisabledAll(r) \/ rejectRoutes(r) \/ Rejected(r) \/ NotFound(r)
    \/ gatewayStatus(r) \/ PoolRefused(r) \/ ensurePool(r) \/ Annotate(r)
    \/ ListServices(r) \/ DisableRoute(r) \/ AddRouteFinalizer(r)
    \/ CreateBinding(r) \/ CleanupPending(r) \/ RefuseTarget(r)
    \/ ensureBinding(r) \/ RouteStatus(r) \/ LoopDone(r)
    \/ RetireBinding(r) \/ RetireRead(r) \/ GuardPool(r) \/ Archive(r)
    \/ CompareArchive(r) \/ Seal(r) \/ FinishGateway(r)

-----------------------------------------------------------------------------
(* The NLBPool controller, by its contract.                                *)

Contracted(step) ==
    /\ step
    /\ stale' = IF <<pool, alloc>>' = <<pool, alloc>> THEN stale ELSE Replicas
    /\ UNCHANGED <<objects, control, dirty>>
Freely(step) == Contracted(step) /\ UNCHANGED <<plan>>

EngineProvision == Freely(Engine!Provision)
EngineEndWork == Freely(Engine!EndWork)
EngineReleasePool == Freely(Engine!ReleasePool)
EngineHold(b) == Freely(Engine!HoldBinding(b))
EngineGrant(b) == Freely(Engine!Grant(b))
EngineRetire(b) == Freely(Engine!Retire(b))
EngineRelease(b) == Freely(Engine!ReleaseBinding(b)) /\ bind'[b].st = "gone"
EngineConfigured(b) == Freely(Engine!Report(b, "True", bind[b].gen))
EngineServe(b) == \/ EngineHold(b) \/ EngineGrant(b) \/ EngineRetire(b)
                  \/ EngineRelease(b) \/ EngineConfigured(b)
EngineStartWork ==
    /\ plan.work > 0 /\ plan' = [plan EXCEPT !.work = @ - 1]
    /\ Contracted(Engine!StartWork)
EngineReport(b) ==
    /\ Disturb("report")
    /\ \E c \in {"True", "False"}, g \in 0..bind[b].gen :
          Contracted(Engine!Report(b, c, g))

Controller ==
    \/ EngineProvision \/ EngineStartWork \/ EngineEndWork
    \/ EngineReleasePool
    \/ \E b \in Bindings :
          \/ EngineHold(b) \/ EngineGrant(b) \/ EngineRetire(b)
          \/ EngineRelease(b) \/ EngineConfigured(b) \/ EngineReport(b)

-----------------------------------------------------------------------------
(* Users, the garbage collector, failures.                                 *)

UserWrites(u, x) ==
    /\ route' = [route EXCEPT ![u] = x]
    /\ dirty' = dirty \cup (Replicas \X {u})
    /\ UNCHANGED <<gate, okay, archive, generated, control>>

CreateRoute(u) ==
    /\ u \in plan.routes /\ route[u].st = "unborn"
    /\ \A v \in plan.routes : v < u => route[v].st # "unborn"
    /\ UserWrites(u, [route[u] EXCEPT !.st = "live"])
    /\ UNCHANGED plan

DeleteRoute(u) ==
    /\ Disturb("delete") /\ route[u].st = "live"
    /\ UserWrites(u, Deleted(route[u]))

(* A user edits the parent, or the allocator attaches a detached route.    *)
Reparent(u) ==
    /\ route[u].st = "live"
    /\ \E to \in (Listeners \cup {Detached, Elsewhere, Unsupported})
                    \ {route[u].to} :
          /\ \/ Disturb("parent")
             \/ Disturb("attach") /\ route[u].to = Detached /\ to \in Listeners
          /\ UserWrites(u, [route[u] EXCEPT !.to = to])

Rebackend(u) ==
    /\ Disturb("backend") /\ route[u].st = "live"
    /\ \E s \in Services \ {route[u].svc} :
          UserWrites(u, [route[u] EXCEPT !.svc = s])

ServiceEvent(s) ==
    /\ Disturb("service")
    /\ okay' = IF s \in okay THEN okay \ {s} ELSE okay \cup {s}
    /\ UNCHANGED <<gate, route, archive, generated, control, dirty>>

(* The Gateway leaves the supported profile, or its class stops matching.  *)
GatewayEvent ==
    /\ Disturb("problem") /\ gate.st = "live"
    /\ \E x \in {"none", "profile", "class"} \ {gate.problem} :
          gate' = [gate EXCEPT !.problem = x]
    /\ UNCHANGED <<route, okay, archive, generated, control, dirty>>

(* "early": also while the NLB is still being provisioned.                 *)
DeleteGateway ==
    /\ "deleteGateway" \in plan.kinds /\ gate.st = "live"
    /\ "early" \in plan.kinds \/ pool.shard = "ip"
    /\ gate' = Deleted(gate)
    /\ UNCHANGED <<route, okay, archive, generated, control, dirty, plan>>

(* Owned objects are deleted after their owner is gone, or already while   *)
(* it waits, when the owner is deleted in the foreground; an operator can  *)
(* delete the pool at any time.                                            *)
Collecting == \/ gate.st = "gone"
              \/ gate.st = "deleting" /\ "foreground" \in plan.kinds
CollectPool ==
    /\ Collecting \/ "deletePool" \in plan.kinds
    /\ Freely(Engine!DeletePool)
CollectBinding(b) ==
    /\ Collecting /\ bind[b].st = "live"
    /\ bind' = [bind EXCEPT ![b] = Deleted(@)]
    /\ UNCHANGED <<objects, pool, alloc, stale, control, dirty, plan>>

Abort(r) ==
    /\ Disturb("abort") /\ pc[r] # "idle"
    /\ EndPass(r)
    /\ UNCHANGED <<objects, generated, dirty>>

ChangeLeader(r) ==
    /\ Disturb("leader") /\ r # leader
    /\ leader' = r
    /\ UNCHANGED <<objects, generated, pc, my, dirty>>

Environment ==
    \/ \E u \in Routes : \/ CreateRoute(u) \/ DeleteRoute(u)
                          \/ Reparent(u) \/ Rebackend(u)
    \/ \E s \in Services : ServiceEvent(s)
    \/ GatewayEvent \/ DeleteGateway \/ CollectPool
    \/ \E b \in Bindings : CollectBinding(b)
    \/ \E r \in Replicas : Abort(r) \/ ChangeLeader(r)

Next == \/ \E r \in Replicas : ListRoutes(r) \/ Step(r)
        \/ Controller
        \/ Environment

Spec == Init /\ [][Next]_vars

(* The adapter is requeued on every return, the NLBPool controller does    *)
(* what its runs show that it eventually does, and OCI ends its work.      *)
Fairness ==
    /\ \A r \in Replicas : WF_vars(Step(r)) /\ WF_vars(ListRoutes(r))
    /\ WF_vars(EngineProvision \/ EngineEndWork \/ EngineReleasePool)
    /\ \A b \in Bindings : WF_vars(EngineServe(b))

FairSpec == Spec /\ Fairness

-----------------------------------------------------------------------------
(* Safety.                                                                 *)

(* "Normal binding finalizers remain the only cloud path": with one leader *)
(* a route does not disappear before its binding has, and its lease is     *)
(* retired.                                                                *)
RouteGuarded ==
    \A u \in Routes : route[u].st = "gone" /\ "leader" \notin plan.kinds =>
        /\ Named(bind, u) = {}
        /\ \A b \in DOMAIN alloc : b[1] = u => alloc[b].tomb

(* With one leader the Gateway goes last: when it is gone so are its       *)
(* bindings and its pool, whether the pool was deleted by the adapter, by  *)
(* the garbage collector or by an operator.                                *)
GatewayLast ==
    gate.st = "gone" /\ "leader" \notin plan.kinds =>
        Absent(pool) /\ \A b \in Bindings : ~Exists(bind[b])

(* A pool of this release is only ever gone with its final ledger          *)
(* archived: the same leases, all retired, and the same NLB.               *)
ArchiveFaithful ==
    pool.st = "gone" /\ ~plan.upgraded =>
        /\ archive = [alloc |-> alloc, shard |-> pool.shard]
        /\ Engine!Active(archive.alloc) = {}

(* "refusing to replace durable port ledger": with one leader, a pool that *)
(* is gone is not created again with an empty ledger.                      *)
LedgerNotReplaced ==
    [][pool.st = "gone" /\ "leader" \notin plan.kinds => pool'.st = "gone"]_vars

(* Towards the NLBPool controller the adapter, the users and the garbage   *)
(* collector do what EngineContract expects of users.                      *)
UsesContract == Engine!ContractSpec

-----------------------------------------------------------------------------
(* Liveness, under FairSpec.                                               *)

Contenders(u) == {v \in Routes : Targets(route[v]) /\ route[v].to = route[u].to}
Leaseholders(port) == {b[1] : b \in {c \in DOMAIN alloc : alloc[c].port = port}}

(* What a route that names the Gateway is to be told, from the state of    *)
(* everything else: the oldest on a listener goes first, and the port of a *)
(* lease is for nobody else, ever.                                         *)
Owed(u) ==
    CASE route[u].to = Unsupported -> "rejected"
      [] route[u].to # Unsupported /\ u # Min(Contenders(u)) -> "conflicted"
      [] route[u].to # Unsupported /\ u = Min(Contenders(u)) ->
           IF route[u].svc \notin okay THEN "unresolved"
           ELSE IF Leaseholders(route[u].to) \subseteq {u} THEN "fine"
           ELSE "leased"
Bound(u, b) == bind[b].spec = [port |-> route[u].to, svc |-> route[u].svc]

RouteSettled(u) ==
    IF Owed(u) # "fine"
    THEN /\ route[u].cond = Owed(u)
         /\ \A b \in Named(bind, u) : bind[b].st = "live" => Suspended(bind[b])
    ELSE \E b \in Named(bind, u) :
            IF Bound(u, b)
            THEN ~Suspended(bind[b]) /\ route[u].cond =
                    (IF b \in Engine!Active(alloc) THEN "programmed" ELSE "accepted")
            ELSE Suspended(bind[b]) /\ route[u].cond = "rejected"

(* After the last event every route that names a supported Gateway comes   *)
(* to tell the truth: it is refused for the reason that now applies, with  *)
(* its binding suspended, or it is forwarding exactly when its binding     *)
(* holds the lease of the port.  A Gateway that has left the supported     *)
(* profile stops forwarding.                                               *)
RoutesSettle ==
    <>[](gate.st = "live" =>
           IF gate.problem # "none"
           THEN \A b \in Bindings : bind[b].st = "live" => Suspended(bind[b])
           ELSE pool.st = "live" /\ ~pool.pending =>
                   \A u \in Routes : Targets(route[u]) => RouteSettled(u))


(* "Gateway did not finish" is an error: retirement completes.             *)
RetirementCompletes == gate.st = "deleting" ~> gate.st = "gone"
=============================================================================
