----------------------- MODULE GatewayPoolPassProofs -----------------------
(***************************************************************************)
(* What a pass of GatewayPool may rely on from one call to the next.  With *)
(* any number of leaders: a copy that is not stale is the pool, a route    *)
(* that was not written since is as it was listed, and an archive is never *)
(* replaced.  With one leader also what a copy says of ledgers, records    *)
(* and Gateways stays true.                                                *)
(***************************************************************************)
EXTENDS GatewayPoolLedgerProofs, TLAPS

IsPool(o) == o \in [st : {o.st}, fin : {o.fin}, frozen : {o.frozen},
                    drift : {o.drift}, gws : {o.gws}, rejected : {o.rejected}]

(* A pass after ListRoutes, and one that serves a live pool at all.        *)
Listed == {"pools", "retire", "scan", "gateways", "save"}
Serving == Listed \cup {"routes"}
Cleaning == {"archive", "delete"}

(* The states of a route in order.                                         *)
RouteStates == {"unborn", "live", "deleting", "gone"}
Later(s, t) == /\ t \in RouteStates
               /\ s # "unborn" => t # "unborn"
               /\ s = "gone" => t = "gone"

(* A lease is of a route that was born, a retired one of one that is gone. *)
Justified(A, rts) == \A u \in DOMAIN A :
    u \in Routes /\ rts[u].st # "unborn" /\ (A[u].tomb => rts[u].st = "gone")

(* The life of a pool: leases only once the spec is frozen under the       *)
(* finalizer.                                                              *)
PoolLife(p) ==
    /\ IsPool(pool[p])
    /\ pool[p].st # "gone" => /\ pool[p].frozen => pool[p].fin
                              /\ ~pool[p].frozen => led[p] = NoLeases
    /\ pool[p].st = "none" => ~pool[p].fin /\ ~pool[p].frozen
    /\ Justified(led[p], route)
    /\ pool[p].st = "gone" /\ pool[p].frozen =>
          archive[p] = [a |-> led[p], gws |-> pool[p].gws,
                        rejected |-> pool[p].rejected]

(* The copy of the pool.                                                   *)
PoolCopy(r) ==
    pc[r] # "idle" =>
       /\ pc[r] \in Serving \cup Cleaning
       /\ IsPool(my[r].obj) /\ my[r].obj.fin
       /\ pc[r] \in Serving => my[r].obj.st = "live" /\ my[r].obj.frozen
       /\ pc[r] \in Cleaning => my[r].obj.st = "deleting"
       /\ r \notin stale =>
             /\ my[r].obj.st = pool[my[r].p].st
             /\ my[r].obj.fin = pool[my[r].p].fin
             /\ my[r].obj.frozen = pool[my[r].p].frozen
             /\ pc[r] # "save" => my[r].obj = pool[my[r].p]
       /\ IsLedger(my[r].a) /\ Justified(my[r].a, route)
       /\ pc[r] = "delete" => archive[my[r].p] = Ledger(my[r])

(* The copies of the routes, and what the loops know of them.              *)
Known(m, t) == \E x \in m.rej : x[1] = t
RouteCopy(r) ==
    /\ pc[r] \in Listed => \A u \in Routes :
          /\ my[r].rts[u].st \in RouteStates
          /\ Later(my[r].rts[u].st, route[u].st)
          /\ <<r, u>> \notin dirty => my[r].rts[u] = route[u]
          /\ u \in DOMAIN my[r].a => my[r].rts[u].st # "unborn"
    /\ pc[r] = "scan" => \A u \in my[r].todo :
          /\ u \in Routes /\ my[r].rts[u].st = "live"
          /\ u \in DOMAIN my[r].a \/ u \notin my[r].others
    /\ pc[r] \in {"scan", "gateways"} => \A u \in DOMAIN my[r].a :
          /\ my[r].a[u].attached /\ my[r].rts[u].st = "live"
          /\ my[r].rts[u].parent = NoParent
          => Known(my[r], u)
    /\ pc[r] = "gateways" => \A k \in my[r].todo :
          \E u \in DOMAIN my[r].a : my[r].a[u].shard = k

(* A Gateway is only ever made for a lease.                                *)
GateLeased(p, k) ==
    gate[p][k].st # "none" \/ gate[p][k].lst # {}
       => \E u \in DOMAIN led[p] : led[p][u].shard = k

PassInv == /\ DOMAIN pool = Pools /\ DOMAIN archive = Pools
           /\ plan \in PlanSet
           /\ \A u \in Routes : route[u].st \in RouteStates
           /\ \A p \in Pools : PoolLife(p)
           /\ \A r \in Replicas : PoolCopy(r) /\ RouteCopy(r)
           /\ \A p \in Pools, k \in Shards : GateLeased(p, k)

(* With one leader: only it is in a pass, the pool it works on is there    *)
(* and nobody else writes its ledger, and the leases about to be saved     *)
(* are in no other ledger.                                                 *)
Sole == "leader" \notin plan.kinds
Apart(A, p) == \A q \in Pools \ {p} :
    Exists(pool[p]) /\ Exists(pool[q]) => DOMAIN A \cap DOMAIN led[q] = {}
SolePass(r) ==
    pc[r] # "idle" =>
       /\ r = leader
       /\ pool[my[r].p].st \in {"live", "deleting"} /\ pool[my[r].p].fin
       /\ pc[r] # "save" => /\ my[r].a = led[my[r].p]
                            /\ my[r].obj.gws = pool[my[r].p].gws
       /\ Apart(my[r].a, my[r].p)
       /\ pc[r] = "scan" => \A q \in Pools \ {my[r].p} :
             Exists(pool[q]) => DOMAIN led[q] \subseteq my[r].others
SoleInv == Sole => /\ \A r \in Replicas : SolePass(r)
                   /\ \A p \in Pools : Apart(led[p], p)

(* And no Gateway comes back once cleanup has seen it gone.                *)
CleanInv ==
    plan.kinds \cap {"leader", "restore"} = {} =>
       /\ \A p \in Pools, k \in Shards : pool[p].st = "gone" => gate[p][k].st = "none"
       /\ \A r \in Replicas : pc[r] = "delete" =>
             \A k \in Shards \ my[r].todo : gate[my[r].p][k].st = "none"

-----------------------------------------------------------------------------
(* What a step does to the copy of a replica.                              *)

SameWorld == UNCHANGED <<pool, led, route, gate, archive>>
SameBase(q) == my'[q].p = my[q].p /\ my'[q].obj = my[q].obj /\ my'[q].a = my[q].a

Stays(q) == my'[q] = my[q] /\ pc'[q] = pc[q] /\ (q \in stale => q \in stale')
Ends(q) == my'[q] = Blank /\ pc'[q] = "idle"
StartsOn(q, p) ==
    /\ SameWorld /\ dirty' = dirty
    /\ pc[q] = "idle" /\ q = leader /\ pool[p].fin
    /\ my'[q].p = p /\ my'[q].obj = pool[p] /\ my'[q].a = led[p]
    /\ \/ pool[p].st = "live" /\ pool[p].frozen /\ pc'[q] = "routes"
       \/ pool[p].st = "deleting" /\ pc'[q] = "archive"
Lists(q) == /\ SameWorld /\ stale' = stale /\ SameBase(q)
            /\ pc[q] = "routes" /\ pc'[q] = "pools" /\ my'[q].rts = route
            /\ dirty \subseteq dirty' \cup ({q} \X Routes)
            /\ dirty' \subseteq dirty
Sorts(q) ==
    /\ pc[q] = "pools" /\ pc'[q] = "scan"
    /\ \A o \in Pools \ {my[q].p} :
          Exists(pool[o]) => DOMAIN led[o] \subseteq my'[q].others
    /\ \A u \in my'[q].todo :
          /\ u \in Routes /\ my[q].rts[u].st = "live"
          /\ u \in DOMAIN my[q].a \/ u \notin my'[q].others
    /\ \A u \in DOMAIN my[q].a :
          /\ my[q].a[u].attached /\ my[q].rts[u].st = "live"
          /\ my[q].rts[u].parent = NoParent
          => Known(my'[q], u)
LooksAt(q) ==
    \/ pc[q] = "pools" /\ pc'[q] = "retire"
    \/ Sorts(q)
    \/ /\ pc[q] = "scan" /\ pc'[q] = "scan" /\ my'[q].others = my[q].others
       /\ my'[q].todo \subseteq my[q].todo /\ my[q].rej \subseteq my'[q].rej
    \/ /\ pc[q] = "scan" /\ pc'[q] = "gateways" /\ my'[q].rej = my[q].rej
       /\ my'[q].todo = {my[q].a[u].shard : u \in DOMAIN my[q].a}
    \/ /\ pc[q] = "gateways" /\ pc'[q] = "gateways" /\ my'[q].rej = my[q].rej
       /\ my'[q].todo \subseteq my[q].todo
    \/ /\ pc[q] = "archive" /\ pc'[q] = "delete"
       /\ archive[my[q].p] = Ledger(my[q])
       /\ \A u \in DOMAIN my[q].a : my[q].a[u].shard \in my'[q].todo
    \/ /\ pc[q] = "delete" /\ pc'[q] = "delete"
       /\ \E k : my'[q].todo = my[q].todo \ {k} /\ gate[my[q].p][k].st = "none"
Looks(q) == /\ SameWorld /\ stale' = stale /\ dirty' = dirty /\ SameBase(q)
            /\ my'[q].rts = my[q].rts /\ LooksAt(q)
Proposes(q) ==
    /\ SameWorld /\ stale' = stale /\ dirty' = dirty
    /\ pc[q] \in {"retire", "scan", "gateways"} /\ pc'[q] = "save"
    /\ my'[q].p = my[q].p /\ my'[q].rts = my[q].rts
    /\ my'[q].obj = my[q].obj
          \/ \E g : my'[q].obj = [my[q].obj EXCEPT !.gws = g]
    /\ \/ my'[q].a = my[q].a
       \/ \E u \in Vanished(my[q]) : my'[q].a = [my[q].a EXCEPT ![u].tomb = TRUE]
       \/ \E u \in DOMAIN my[q].a : my'[q].a = [my[q].a EXCEPT ![u].attached = TRUE]
       \/ /\ pc[q] = "scan"
          /\ \E u \in my[q].todo \ DOMAIN my[q].a : \E s, slot :
                my'[q].a = WithLease(my[q].a, u, NewLease(s, slot))
Moves(q) == \/ Stays(q) \/ Ends(q) \/ (\E p \in Pools : StartsOn(q, p))
            \/ Lists(q) \/ Looks(q) \/ Proposes(q)

(* The pass of one replica moves the copy of no other.                     *)
LEMMA OneMoves ==
    ASSUME Ctl, NEW r \in Replicas, NEW m, NEW l,
           my' = [my EXCEPT ![r] = m],
           pc' = [pc EXCEPT ![r] = l] \/ (pc' = pc /\ l = pc[r]),
           stale \subseteq stale' \cup {r}
    PROVE  /\ my'[r] = m /\ pc'[r] = l
           /\ \A q \in Replicas \ {r} : Stays(q)
<1>1. my'[r] = m /\ pc'[r] = l
  BY DEF Ctl
<1>2. ASSUME NEW q \in Replicas \ {r} PROVE Stays(q)
  BY <1>2 DEF Ctl, Stays
<1> QED BY <1>1, <1>2

(* One replica moves and the others stay.                                  *)
LEMMA MovedOne ==
    ASSUME NEW r \in Replicas, Moves(r), \A q \in Replicas \ {r} : Stays(q)
    PROVE  \A q \in Replicas : Moves(q)
BY DEF Moves

(* The end of a pass, whatever else the step does.                         *)
LEMMA EndMoves ==
    ASSUME Ctl, NEW r \in Replicas, EndPass(r), stale \subseteq stale'
    PROVE  \A q \in Replicas : Moves(q)
<1>1. my' = [my EXCEPT ![r] = Blank] /\ pc' = [pc EXCEPT ![r] = "idle"]
  BY DEF EndPass, Goto
<1>2. Ends(r) /\ \A q \in Replicas \ {r} : Stays(q)
  BY Zenon, <1>1, OneMoves DEF Ends
<1> QED BY <1>2, MovedOne DEF Moves

(* Steps that move nobody.                                                 *)
LEMMA NobodyMoves ==
    ASSUME UNCHANGED ctlVars, stale \subseteq stale'
    PROVE  \A q \in Replicas : Moves(q)
BY DEF ctlVars, Moves, Stays

(* The actions that end a pass.                                            *)
LEMMA EndingMoves ==
    ASSUME Ctl, NEW r \in Replicas,
           \/ save(r) \/ ReleasePool(r) \/ CreateArchive(r) \/ Abort(r)
           \/ \E u \in Routes : AttachRoute(r, u)
           \/ \E k \in Shards : \/ CreateGateway(r, k) \/ GatewayRefused(r, k)
                                \/ UpdateGateway(r, k)
    PROVE  \A q \in Replicas : Moves(q)
<1>1. EndPass(r)
  BY Zenon DEF save, ReleasePool, CreateArchive, Abort, AttachRoute, CreateGateway,
               GatewayRefused, UpdateGateway
<1>2. stale \subseteq stale'
  BY Zenon
     DEF save, ReleasePool, CreateArchive, Abort, AttachRoute, CreateGateway,
               GatewayRefused, UpdateGateway, WritePool, poolVars
<1> QED BY <1>1, <1>2, EndMoves

(* The pass reads its pool.                                                *)
LEMMA StartMoves ==
    ASSUME Ctl, NEW r \in Replicas, NEW p \in Pools, StartPass(r, p)
    PROVE  \A q \in Replicas : Moves(q)
<1> DEFINE m == [my[r] EXCEPT !.p = p, !.obj = pool[p], !.a = led[p]]
<1>1. my' = [my EXCEPT ![r] = m]
  BY Zenon DEF Ctl, IsCopy, StartPass
<1>2. m.p = p /\ m.obj = pool[p] /\ m.a = led[p]
  BY DEF Ctl, IsCopy
<1>3. PICK l : /\ pc' = [pc EXCEPT ![r] = l]
               /\ \/ pool[p].st = "live" /\ pool[p].frozen /\ l = "routes"
                  \/ pool[p].st = "deleting" /\ l = "archive"
  BY Zenon DEF StartPass, Goto
<1>4. /\ SameWorld /\ dirty' = dirty /\ stale \subseteq stale' \cup {r}
      /\ pc[r] = "idle" /\ r = leader /\ pool[p].fin
  BY DEF StartPass, Due, SameWorld, routeVars
<1> HIDE DEF m
<1>5. my'[r] = m /\ pc'[r] = l /\ \A q \in Replicas \ {r} : Stays(q)
  BY Zenon, <1>1, <1>3, <1>4, OneMoves
<1>6. StartsOn(r, p)
  BY Zenon, <1>2, <1>3, <1>4, <1>5 DEF StartsOn
<1> QED BY <1>5, <1>6, MovedOne DEF Moves

(* It lists the routes.                                                    *)
LEMMA ListMoves ==
    ASSUME Ctl, NEW r \in Replicas, ListRoutes(r)
    PROVE  \A q \in Replicas : Moves(q)
<1> DEFINE m == [my[r] EXCEPT !.rts = route]
<1>1. my' = [my EXCEPT ![r] = m] /\ pc' = [pc EXCEPT ![r] = "pools"]
  BY DEF ListRoutes, Goto
<1>2. m.p = my[r].p /\ m.obj = my[r].obj /\ m.a = my[r].a /\ m.rts = route
  BY DEF Ctl, IsCopy
<1>3. /\ SameWorld /\ stale' = stale /\ pc[r] = "routes"
      /\ dirty \subseteq dirty' \cup ({r} \X Routes) /\ dirty' \subseteq dirty
  BY DEF ListRoutes, SameWorld, poolVars
<1> HIDE DEF m
<1>4. my'[r] = m /\ pc'[r] = "pools" /\ \A q \in Replicas \ {r} : Stays(q)
  BY Zenon, <1>1, <1>3, OneMoves
<1>5. Lists(r)
  BY Zenon, <1>2, <1>3, <1>4 DEF Lists, SameBase
<1> QED BY Zenon, <1>4, <1>5, MovedOne DEF Moves

(* What makes a route pass Problem, and what never does.                   *)
LEMMA ProblemFacts ==
    ASSUME NEW m, NEW u
    PROVE  /\ Problem(m, u) = "" /\ u \notin DOMAIN m.a => u \notin m.others
           /\ /\ u \in DOMAIN m.a /\ m.a[u].attached /\ m.rts[u].parent = NoParent
              => Problem(m, u) # ""
<1>1. ASSUME Problem(m, u) = "", u \notin DOMAIN m.a PROVE u \notin m.others
  BY Zenon, <1>1 DEF Problem
<1>2. ASSUME u \in DOMAIN m.a, m.a[u].attached, m.rts[u].parent = NoParent
      PROVE  Problem(m, u) # ""
  BY <1>2 DEF Problem
<1> QED BY Zenon, <1>1, <1>2

(* It lists the pools, and sorts the routes by that.                       *)
LEMMA SortMoves ==
    ASSUME LedgerInv, DurableInv, NEW r \in Replicas, ListPools(r)
    PROVE  \A q \in Replicas : Moves(q)
<1> DEFINE O == UNION {DOMAIN led[q] :
                          q \in {p \in Pools : Exists(pool[p])} \ {my[r].p}}
           m == [my[r] EXCEPT !.others = O]
           mine == {u \in Routes : Relevant(m, u)}
           T == {u \in mine : Problem(m, u) = ""}
           R == {<<u, Problem(m, u)>> : u \in {v \in mine : Problem(m, v) # ""}}
           n == [m EXCEPT !.todo = T, !.rej = R]
<1>1. \/ my' = [my EXCEPT ![r] = m] /\ pc' = [pc EXCEPT ![r] = "retire"]
      \/ my' = [my EXCEPT ![r] = n] /\ pc' = [pc EXCEPT ![r] = "scan"]
  BY Zenon DEF ListPools, Goto
<1>2. /\ SameWorld /\ stale' = stale /\ dirty' = dirty /\ pc[r] = "pools"
      /\ stale \subseteq stale' \cup {r}
  BY DEF ListPools, SameWorld, poolVars, routeVars
<1>3. \A o \in Pools \ {my[r].p} : Exists(pool[o]) => DOMAIN led[o] \subseteq O
  OBVIOUS
<1>4. DOMAIN my[r].a \subseteq Routes
  BY <1>2 DEF LedgerInv, Ctl, IsLedger, DurableInv, CopyOlder, Older
<1> HIDE DEF O
<1>5. /\ m.p = my[r].p /\ m.obj = my[r].obj /\ m.a = my[r].a /\ m.rts = my[r].rts
      /\ m.others = O /\ IsCopy(m)
  BY DEF LedgerInv, Ctl, IsCopy
<1> HIDE DEF m
<1>6. \A u \in T : /\ u \in Routes /\ my[r].rts[u].st = "live"
                   /\ u \in DOMAIN my[r].a \/ u \notin O
  BY Zenon, <1>5, ProblemFacts DEF Relevant
<1>7. \A u \in DOMAIN my[r].a :
          /\ my[r].a[u].attached /\ my[r].rts[u].st = "live"
          /\ my[r].rts[u].parent = NoParent
          => \E x \in R : x[1] = u
  <2> SUFFICES ASSUME NEW u \in DOMAIN my[r].a, my[r].a[u].attached,
                      my[r].rts[u].st = "live", my[r].rts[u].parent = NoParent
               PROVE  \E x \in R : x[1] = u
    BY Zenon
  <2>1. u \in mine /\ Problem(m, u) # ""
    BY Zenon, <1>4, <1>5, ProblemFacts DEF Relevant
  <2>2. <<u, Problem(m, u)>> \in R
    BY Zenon, <2>1
  <2> QED BY Zenon, <2>2
<1> HIDE DEF T, R
<1>8. /\ n.p = my[r].p /\ n.obj = my[r].obj /\ n.a = my[r].a /\ n.rts = my[r].rts
      /\ n.others = O /\ n.todo = T /\ n.rej = R
  BY <1>5 DEF IsCopy
<1> HIDE DEF n
<1>9. Ctl
  BY DEF LedgerInv
<1>10. CASE my' = [my EXCEPT ![r] = m] /\ pc' = [pc EXCEPT ![r] = "retire"]
  <2>1. my'[r] = m /\ pc'[r] = "retire" /\ \A q \in Replicas \ {r} : Stays(q)
    BY Zenon, <1>2, <1>9, <1>10, OneMoves
  <2>2. Looks(r)
    BY Zenon, <1>2, <1>5, <2>1 DEF Looks, LooksAt, SameBase
  <2> QED BY <2>1, <2>2, MovedOne DEF Moves
<1>11. CASE my' = [my EXCEPT ![r] = n] /\ pc' = [pc EXCEPT ![r] = "scan"]
  <2>1. my'[r] = n /\ pc'[r] = "scan" /\ \A q \in Replicas \ {r} : Stays(q)
    BY Zenon, <1>2, <1>9, <1>11, OneMoves
  <2>2. Sorts(r)
    BY Zenon, <1>2, <1>3, <1>6, <1>7, <1>8, <2>1 DEF Sorts, Known
  <2>3. Looks(r)
    BY Zenon, <1>2, <1>8, <2>1, <2>2 DEF Looks, LooksAt, SameBase
  <2> QED BY Zenon, <2>1, <2>3, MovedOne DEF Moves
<1> QED BY <1>1, <1>10, <1>11

(* A route is passed over.                                                 *)
LEMMA PassOverMoves ==
    ASSUME Ctl, NEW r \in Replicas, NEW u, KeepRoute(r, u) \/ ReserveRefused(r, u)
    PROVE  \A q \in Replicas : Moves(q)
<1>1. PICK why : NextRoute(r, u, why)
  BY Zenon DEF KeepRoute, ReserveRefused
<1> DEFINE T == my[r].todo \ {u}
           J == IF why = "" THEN my[r].rej ELSE my[r].rej \cup {<<u, why>>}
           m == [my[r] EXCEPT !.todo = T, !.rej = J]
<1>2. my' = [my EXCEPT ![r] = m]
  BY Zenon, <1>1 DEF NextRoute, Ctl, IsCopy
<1>3. /\ SameWorld /\ stale' = stale /\ dirty' = dirty /\ pc' = pc /\ pc[r] = "scan"
  BY Zenon DEF KeepRoute, ReserveRefused, Turn, SameWorld, poolVars, routeVars
<1>4. T \subseteq my[r].todo /\ my[r].rej \subseteq J
  BY Zenon
<1> HIDE DEF T, J
<1>5. /\ m.p = my[r].p /\ m.obj = my[r].obj /\ m.a = my[r].a /\ m.rts = my[r].rts
      /\ m.others = my[r].others /\ m.todo = T /\ m.rej = J
  BY DEF Ctl, IsCopy
<1> HIDE DEF m
<1>6. my'[r] = m /\ pc'[r] = "scan" /\ \A q \in Replicas \ {r} : Stays(q)
  BY Zenon, <1>2, <1>3, OneMoves
<1>7. Looks(r)
  BY Zenon, <1>3, <1>4, <1>5, <1>6 DEF Looks, LooksAt, SameBase
<1> QED BY Zenon, <1>6, <1>7, MovedOne DEF Moves

(* A step that changes only what the pass has yet to do.                   *)
LEMMA TodoMoves ==
    ASSUME Ctl, NEW r \in Replicas, NEW T, my' = [my EXCEPT ![r].todo = T],
           NEW l, Goto(r, l) \/ (pc' = pc /\ l = pc[r]),
           SameWorld, stale' = stale, dirty' = dirty,
           \/ /\ pc[r] = "scan" /\ l = "gateways"
              /\ T = {my[r].a[u].shard : u \in DOMAIN my[r].a}
           \/ pc[r] = "gateways" /\ l = "gateways" /\ T \subseteq my[r].todo
           \/ /\ pc[r] = "archive" /\ l = "delete" /\ archive[my[r].p] = Ledger(my[r])
              /\ \A u \in DOMAIN my[r].a : my[r].a[u].shard \in T
           \/ /\ pc[r] = "delete" /\ l = "delete"
              /\ \E k : T = my[r].todo \ {k} /\ gate[my[r].p][k].st = "none"
    PROVE  \A q \in Replicas : Moves(q)
<1> DEFINE m == [my[r] EXCEPT !.todo = T]
<1>1. my' = [my EXCEPT ![r] = m]
  BY Zenon
<1>2. /\ m.p = my[r].p /\ m.obj = my[r].obj /\ m.a = my[r].a /\ m.rts = my[r].rts
      /\ m.rej = my[r].rej /\ m.todo = T
  BY DEF Ctl, IsCopy
<1>3. stale \subseteq stale' \cup {r}
  BY Zenon
<1> HIDE DEF m
<1>4. my'[r] = m /\ pc'[r] = l /\ \A q \in Replicas \ {r} : Stays(q)
  BY Zenon, <1>1, <1>3, OneMoves DEF Goto
<1>5. LooksAt(r)
  BY Zenon, <1>2, <1>4 DEF LooksAt
<1>6. Looks(r)
  BY Zenon, <1>2, <1>4, <1>5 DEF Looks, SameBase
<1> QED BY Zenon, <1>4, <1>6, MovedOne DEF Moves

(* The two loops over Gateways, and the archive in between.                *)
LEMMA LoopMoves ==
    ASSUME Ctl, NEW r \in Replicas, NEW k,
           EndScan(r) \/ NextGateway(r, k) \/ CompareArchive(r) \/ DeleteGateway(r, k)
    PROVE  \A q \in Replicas : Moves(q)
<1>1. stale' = stale /\ dirty' = dirty /\ stale \subseteq stale'
  BY Zenon DEF EndScan, NextGateway, CompareArchive, DeleteGateway, poolVars, routeVars
<1>2. CASE EndScan(r)
  BY Zenon, <1>1, <1>2, TodoMoves DEF EndScan, SameWorld, poolVars, routeVars
<1>3. CASE NextGateway(r, k)
  <2>1. my[r].todo \ {k} \subseteq my[r].todo
    BY Zenon
  <2>2. /\ my' = [my EXCEPT ![r].todo = my[r].todo \ {k}] /\ pc' = pc
        /\ pc[r] = "gateways" /\ SameWorld
    BY <1>3 DEF NextGateway, AtGateway, SameWorld, poolVars, routeVars
  <2> QED BY Zenon, <1>1, <2>1, <2>2, TodoMoves
<1>4. CASE CompareArchive(r)
  <2> DEFINE T == {j \in Shards : my[r].obj.gws[j] # 0}
                     \cup {my[r].a[u].shard : u \in DOMAIN my[r].a}
  <2>1. \/ EndPass(r)
        \/ /\ archive[my[r].p] = Ledger(my[r]) /\ Goto(r, "delete")
           /\ my' = [my EXCEPT ![r].todo = T]
    BY Zenon, <1>4 DEF CompareArchive
  <2>2. pc[r] = "archive" /\ SameWorld
    BY Zenon, <1>4 DEF CompareArchive, SameWorld, poolVars, routeVars
  <2>3. \A u \in DOMAIN my[r].a : my[r].a[u].shard \in T
    BY Zenon
  <2> HIDE DEF T
  <2> QED BY Zenon, <1>1, <2>1, <2>2, <2>3, TodoMoves, EndMoves
<1>5. CASE DeleteGateway(r, k)
  <2>1. \/ EndPass(r)
        \/ /\ gate[my[r].p][k].st = "none" /\ pc' = pc /\ gate' = gate
           /\ my' = [my EXCEPT ![r].todo = my[r].todo \ {k}]
    BY Zenon, <1>5 DEF DeleteGateway, Gateway
  <2>2. pc[r] = "delete" /\ (gate' = gate => SameWorld)
    BY Zenon, <1>5 DEF DeleteGateway, SameWorld, poolVars, routeVars
  <2>3. CASE EndPass(r)
    BY <1>1, <2>3, EndMoves
  <2>4. CASE ~EndPass(r)
    <3> DEFINE T == my[r].todo \ {k}
    <3>1. /\ \E j : T = my[r].todo \ {j} /\ gate[my[r].p][j].st = "none"
          /\ my' = [my EXCEPT ![r].todo = T] /\ pc' = pc /\ SameWorld
      BY Zenon, <2>1, <2>2, <2>4
    <3> HIDE DEF T
    <3> QED BY Zenon, <1>1, <2>2, <3>1, TodoMoves
  <2> QED BY <2>3, <2>4
<1> QED BY Zenon, <1>2, <1>3, <1>4, <1>5

(* A save is on its way.                                                   *)
LEMMA ProposeMoves ==
    ASSUME Ctl, NEW r \in Replicas, NEW A, NEW R, ToSave(r, A, R),
           SameWorld, stale' = stale, dirty' = dirty,
           pc[r] \in {"retire", "scan"},
           \/ \E u \in Vanished(my[r]) : A = [my[r].a EXCEPT ![u].tomb = TRUE]
           \/ \E u \in DOMAIN my[r].a : A = [my[r].a EXCEPT ![u].attached = TRUE]
           \/ /\ pc[r] = "scan"
              /\ \E u \in my[r].todo \ DOMAIN my[r].a : \E s, slot :
                    A = WithLease(my[r].a, u, NewLease(s, slot))
    PROVE  \A q \in Replicas : Moves(q)
<1> DEFINE m == [my[r] EXCEPT !.a = A, !.rej = R]
<1>1. my' = [my EXCEPT ![r] = m] /\ pc' = [pc EXCEPT ![r] = "save"]
  BY Zenon DEF ToSave, Goto, Ctl, IsCopy
<1>2. m.p = my[r].p /\ m.obj = my[r].obj /\ m.a = A /\ m.rts = my[r].rts
  BY Zenon DEF Ctl, IsCopy
<1>3. stale \subseteq stale' \cup {r}
  BY Zenon
<1> HIDE DEF m
<1>4. my'[r] = m /\ pc'[r] = "save" /\ \A q \in Replicas \ {r} : Stays(q)
  BY Zenon, <1>1, <1>3, OneMoves
<1>5. /\ my'[r].p = my[r].p /\ my'[r].rts = my[r].rts /\ my'[r].obj = my[r].obj
      /\ my'[r].a = A
  BY Zenon, <1>2, <1>4
<1>6. Proposes(r)
  BY Zenon, <1>4, <1>5 DEF Proposes
<1> QED BY Zenon, <1>4, <1>6, MovedOne DEF Moves

(* The saves with another ledger.                                          *)
LEMMA LedgerMoves ==
    ASSUME Ctl, NEW r \in Replicas,
           \/ RetireLease(r)
           \/ \E u \in Routes : RecordAttached(r, u) \/ Reserve(r, u)
    PROVE  \A q \in Replicas : Moves(q)
<1>1. SameWorld /\ stale' = stale /\ dirty' = dirty
  BY Zenon DEF RetireLease, RecordAttached, Reserve, SameWorld, poolVars, routeVars
<1>2. CASE RetireLease(r)
  <2>1. PICK u \in Vanished(my[r]) :
            ToSave(r, [my[r].a EXCEPT ![u].tomb = TRUE], my[r].obj.rejected)
    BY Zenon, <1>2 DEF RetireLease
  <2>2. pc[r] = "retire"
    BY Zenon, <1>2 DEF RetireLease
  <2> QED BY <1>1, <2>1, <2>2, ProposeMoves
<1>3. ASSUME NEW u \in Routes, RecordAttached(r, u)
      PROVE  \A q \in Replicas : Moves(q)
  <2>1. /\ ToSave(r, [my[r].a EXCEPT ![u].attached = TRUE], SoFar(r, u))
        /\ pc[r] = "scan" /\ u \in DOMAIN my[r].a
    BY Zenon, <1>3 DEF RecordAttached, Turn
  <2> QED BY <1>1, <2>1, ProposeMoves
<1>4. ASSUME NEW u \in Routes, Reserve(r, u)
      PROVE  \A q \in Replicas : Moves(q)
  <2>1. PICK slot \in Slots :
            ToSave(r, WithLease(my[r].a, u, NewLease(Target(r, u), slot)), SoFar(r, u))
    BY Zenon, <1>4 DEF Reserve
  <2>2. pc[r] = "scan" /\ u \in my[r].todo \ DOMAIN my[r].a
    BY Zenon, <1>4 DEF Reserve, Turn
  <2>3. PICK A, s : /\ A = WithLease(my[r].a, u, NewLease(Target(r, u), slot))
                    /\ A = WithLease(my[r].a, u, NewLease(s, slot))
    OBVIOUS
  <2> QED BY Zenon, <1>1, <2>1, <2>2, <2>3, ProposeMoves
<1> QED BY <1>2, <1>3, <1>4

(* The saves of a Gateway's UID, and of the rejections.                    *)
LEMMA StatusMoves ==
    ASSUME Ctl, NEW r \in Replicas,
           FinishPass(r) \/ \E k \in Shards : RecordGateway(r, k)
    PROVE  \A q \in Replicas : Moves(q)
<1>1. /\ SameWorld /\ stale' = stale /\ dirty' = dirty /\ stale \subseteq stale' \cup {r}
      /\ stale \subseteq stale' /\ pc[r] = "gateways"
  BY Zenon DEF FinishPass, AtAttach, RecordGateway, AtGateway, SameWorld, poolVars, routeVars
<1>2. CASE FinishPass(r)
  <2>1. CASE EndPass(r)
    BY <1>1, <2>1, EndMoves
  <2>2. CASE ~EndPass(r)
    <3>1. pc' = [pc EXCEPT ![r] = "save"] /\ my' = my
      BY Zenon, <1>2, <2>2 DEF FinishPass, Goto
    <3>2. pc'[r] = "save" /\ \A q \in Replicas \ {r} : Stays(q)
      BY Zenon, <1>1, <3>1 DEF Ctl, Stays
    <3>3. Proposes(r)
      BY Zenon, <1>1, <3>1, <3>2 DEF Proposes
    <3> QED BY Zenon, <3>2, <3>3, MovedOne DEF Moves
  <2> QED BY <2>1, <2>2
<1>3. ASSUME NEW k \in Shards, RecordGateway(r, k)
      PROVE  \A q \in Replicas : Moves(q)
  <2> DEFINE g == [my[r].obj.gws EXCEPT ![k] = Gateway(r, k).uid]
             O == [my[r].obj EXCEPT !.gws = g]
             m == [my[r] EXCEPT !.obj = O]
  <2>1. my' = [my EXCEPT ![r] = m] /\ pc' = [pc EXCEPT ![r] = "save"]
    BY Zenon, <1>3 DEF RecordGateway, Goto
  <2> HIDE DEF O
  <2>2. m.p = my[r].p /\ m.rts = my[r].rts /\ m.obj = O /\ m.a = my[r].a
    BY Zenon DEF Ctl, IsCopy
  <2> HIDE DEF m
  <2>3. my'[r] = m /\ pc'[r] = "save" /\ \A q \in Replicas \ {r} : Stays(q)
    BY Zenon, <1>1, <2>1, OneMoves
  <2>4. Proposes(r)
    <3>1. \E h : O = [my[r].obj EXCEPT !.gws = h]
      BY Zenon DEF O
    <3> QED BY Zenon, <1>1, <2>2, <2>3, <3>1 DEF Proposes
  <2> QED BY Zenon, <2>3, <2>4, MovedOne DEF Moves
<1> QED BY <1>2, <1>3

(* Every step moves every replica in one of these ways.                    *)
LEMMA StepMoves ==
    ASSUME LedgerInv, DurableInv, [Next]_vars
    PROVE  \A q \in Replicas : Moves(q)
<1> DEFINE Goal == \A q \in Replicas : Moves(q)
<1>1. Ctl
  BY Zenon DEF LedgerInv
<1>2. ASSUME NEW r \in Replicas, Continue(r) PROVE Goal
  <2>1. CASE \/ save(r) \/ ReleasePool(r) \/ CreateArchive(r)
             \/ \E u \in Routes : AttachRoute(r, u)
             \/ \E k \in Shards : \/ CreateGateway(r, k) \/ GatewayRefused(r, k)
                                  \/ UpdateGateway(r, k)
    BY Zenon, <1>1, <2>1, EndingMoves
  <2>2. CASE ListRoutes(r) \/ ListPools(r)
    BY <1>1, <2>2, ListMoves, SortMoves
  <2>3. CASE RetireLease(r) \/ \E u \in Routes : RecordAttached(r, u) \/ Reserve(r, u)
    BY Zenon, <1>1, <2>3, LedgerMoves
  <2>4. CASE \E u \in Routes : KeepRoute(r, u) \/ ReserveRefused(r, u)
    BY Zenon, <1>1, <2>4, PassOverMoves
  <2>5. CASE \/ EndScan(r) \/ CompareArchive(r)
             \/ \E k \in Shards : NextGateway(r, k) \/ DeleteGateway(r, k)
    BY Zenon, <1>1, <2>5, LoopMoves
  <2>6. CASE FinishPass(r) \/ \E k \in Shards : RecordGateway(r, k)
    BY Zenon, <1>1, <2>6, StatusMoves
  <2> HIDE DEF Goal
  <2> QED BY Zenon, <1>2, <2>1, <2>2, <2>3, <2>4, <2>5, <2>6 DEF Continue
<1>3. ASSUME NEW r \in Replicas, NEW p \in Pools, Begin(r, p) PROVE Goal
  <2>1. CASE StartPass(r, p)
    BY Zenon, <1>1, <2>1, StartMoves
  <2>2. CASE AddPoolFinalizer(r, p) \/ FreezeSpec(r, p)
    <3>1. UNCHANGED ctlVars /\ stale \subseteq stale'
      BY Zenon, <2>2 DEF AddPoolFinalizer, FreezeSpec, WritePool
    <3> QED BY Zenon, <3>1, NobodyMoves
  <2> QED BY <1>3, <2>1, <2>2 DEF Begin
<1>4. ASSUME NEW r \in Replicas, Abort(r) PROVE Goal
  BY <1>1, <1>4, EndingMoves
<1>5. ASSUME NEW p \in Pools, CreatePool(p) \/ DeletePool(p) \/ EditSpec(p) PROVE Goal
  <2>1. UNCHANGED ctlVars /\ stale \subseteq stale'
    BY Zenon, <1>5 DEF CreatePool, DeletePool, EditSpec, WritePool
  <2> QED BY <2>1, NobodyMoves
<1>6. CASE \/ \E r \in Replicas : ChangeLeader(r)
           \/ \E p \in Pools, k \in Shards :
                 \/ GatewayEvent(p, k) \/ RestoreGateway(p, k)
                 \/ CollectGateway(p, k) \/ FinishGateway(p, k)
           \/ \E u \in Routes : \/ CreateRoute(u) \/ DeleteRoute(u) \/ Reannotate(u)
                                \/ Retarget(u) \/ EditParent(u) \/ AdapterHold(u)
                                \/ ReleaseRoute(u)
           \/ \E s \in Services : ServiceEvent(s)
  <2>1. UNCHANGED ctlVars /\ UNCHANGED poolVars
    BY Zenon, <1>6 DEF ChangeLeader, GatewayEvent, RestoreGateway, CollectGateway,
         FinishGateway, CreateRoute, DeleteRoute, Reannotate, Retarget, EditParent,
         AdapterHold, ReleaseRoute, ServiceEvent
  <2>2. stale \subseteq stale'
    BY <2>1 DEF poolVars
  <2> QED BY <2>1, <2>2, NobodyMoves
<1>7. CASE UNCHANGED vars
  BY <1>7, NobodyMoves DEF vars, ctlVars, poolVars
<1> HIDE DEF Goal
<1> QED BY Zenon, <1>2, <1>3, <1>4, <1>5, <1>6, <1>7 DEF Next, Goal

-----------------------------------------------------------------------------
(* What a step does to a pool and its archive.                             *)

OnlyPool(p) == /\ DOMAIN pool' = Pools /\ stale \subseteq stale'
               /\ \A o \in Pools \ {p} : pool'[o] = pool[o] /\ led'[o] = led[o]
               /\ \A q \in Replicas : my[q].p = p => q \in stale'
Lives(o, n) ==
    /\ IsPool(n) /\ n.gws = o.gws
    /\ o.fin => n.fin
    /\ o.frozen => n.frozen
    /\ n.frozen => o.frozen \/ n.fin
    /\ \/ n.st = o.st /\ o.st \in {"live", "deleting"}
       \/ o.st = "none" /\ n.st = "live"
       \/ o.st = "live" /\ o.fin /\ n.st = "deleting"
       \/ o.st = "live" /\ ~o.fin /\ n.st = "gone" /\ n.frozen = o.frozen
Stores(r, p) ==
    /\ pc[r] = "save" /\ r \notin stale /\ my[r].p = p /\ pc'[r] = "idle"
    /\ led'[p] = my[r].a
    /\ pool'[p] = [my[r].obj EXCEPT !.rejected = my[r].rej]
Releases(r, p) ==
    /\ pc[r] = "delete" /\ r \notin stale /\ my[r].p = p /\ pc'[r] = "idle"
    /\ my[r].todo = {} /\ led'[p] = my[r].a
    /\ pool'[p] = [my[r].obj EXCEPT !.st = "gone", !.fin = FALSE]
PoolMoves ==
    \/ pool' = pool /\ led' = led
    \/ \E p \in Pools :
          /\ OnlyPool(p) /\ archive' = archive /\ gate' = gate
          /\ \/ Lives(pool[p], pool'[p]) /\ led'[p] = led[p] /\ UNCHANGED ctlVars
             \/ \E r \in Replicas : Stores(r, p) \/ Releases(r, p)

(* A write to a pool changes no other pool.                                *)
LEMMA OnlyOnePool ==
    ASSUME LedgerInv, PassInv, NEW p \in Pools, NEW o, NEW A, WritePool(p, o, A)
    PROVE  OnlyPool(p) /\ pool'[p] = o /\ led'[p] = A
BY Zenon DEF LedgerInv, Ctl, PassInv, WritePool, OnlyPool

(* Users and the early steps of a pass.                                    *)
LEMMA LifeMoves ==
    ASSUME LedgerInv, PassInv, NEW p \in Pools,
           \/ CreatePool(p) \/ DeletePool(p) \/ EditSpec(p)
           \/ \E r \in Replicas : AddPoolFinalizer(r, p) \/ FreezeSpec(r, p)
    PROVE  PoolMoves
<1>1. IsPool(pool[p])
  BY Zenon DEF PassInv, PoolLife
<1>2. UNCHANGED ctlVars /\ archive' = archive /\ gate' = gate
  BY Zenon DEF CreatePool, DeletePool, EditSpec, AddPoolFinalizer, FreezeSpec
<1>3. ASSUME NEW o, WritePool(p, o, led[p]), Lives(pool[p], o) PROVE PoolMoves
  BY Zenon, <1>2, <1>3, OnlyOnePool DEF PoolMoves
<1>4. CASE CreatePool(p)
  <2>1. Lives(pool[p], [pool[p] EXCEPT !.st = "live"])
    BY Zenon, <1>1, <1>4 DEF CreatePool, Lives, IsPool
  <2> QED BY Zenon, <1>3, <1>4, <2>1 DEF CreatePool
<1>5. CASE DeletePool(p)
  <2>1. Lives(pool[p], Deleted(pool[p]))
    BY Zenon, <1>1, <1>5 DEF DeletePool, Lives, IsPool, Deleted
  <2> QED BY Zenon, <1>3, <1>5, <2>1 DEF DeletePool
<1>6. CASE EditSpec(p)
  <2>1. PICK d : WritePool(p, [pool[p] EXCEPT !.drift = d], led[p])
    BY Zenon, <1>6 DEF EditSpec
  <2>2. Lives(pool[p], [pool[p] EXCEPT !.drift = d])
    BY Zenon, <1>1, <1>6 DEF EditSpec, Exists, Lives, IsPool
  <2> QED BY <1>3, <2>1, <2>2
<1>7. ASSUME NEW r \in Replicas, AddPoolFinalizer(r, p) PROVE PoolMoves
  <2>1. Lives(pool[p], [pool[p] EXCEPT !.fin = TRUE])
    BY Zenon, <1>1, <1>7 DEF AddPoolFinalizer, Lives, IsPool
  <2> QED BY Zenon, <1>3, <1>7, <2>1 DEF AddPoolFinalizer
<1>8. ASSUME NEW r \in Replicas, FreezeSpec(r, p) PROVE PoolMoves
  <2>1. Lives(pool[p], [pool[p] EXCEPT !.frozen = TRUE, !.rejected = {}])
    BY Zenon, <1>1, <1>8 DEF FreezeSpec, Lives, IsPool
  <2> QED BY Zenon, <1>3, <1>8, <2>1 DEF FreezeSpec
<1> QED BY <1>4, <1>5, <1>6, <1>7, <1>8

(* A pass that saves, or lets the pool go.                                 *)
LEMMA StoreMoves ==
    ASSUME LedgerInv, PassInv, NEW r \in Replicas, save(r) \/ ReleasePool(r)
    PROVE  PoolMoves
<1>1. /\ EndPass(r) /\ archive' = archive /\ gate' = gate
      /\ pc[r] # "idle"
  BY Zenon DEF save, ReleasePool
<1>2. my[r].p \in Pools /\ pc'[r] = "idle"
  BY <1>1 DEF LedgerInv, Ctl, EndPass, Goto
<1>3. CASE r \in stale
  <2>1. UNCHANGED poolVars
    BY Zenon, <1>3 DEF save, ReleasePool
  <2> QED BY <2>1 DEF PoolMoves, poolVars
<1>4. CASE r \notin stale /\ save(r)
  <2>1. WritePool(my[r].p, [my[r].obj EXCEPT !.rejected = my[r].rej], my[r].a)
    BY Zenon, <1>4 DEF save
  <2>2. Stores(r, my[r].p) /\ OnlyPool(my[r].p)
    BY <1>2, <1>4, <2>1, OnlyOnePool DEF Stores, save
  <2> QED BY Zenon, <1>1, <1>2, <2>2 DEF PoolMoves
<1>5. CASE r \notin stale /\ ReleasePool(r)
  <2>1. WritePool(my[r].p, [my[r].obj EXCEPT !.st = "gone", !.fin = FALSE], my[r].a)
    BY Zenon, <1>5 DEF ReleasePool
  <2>2. Releases(r, my[r].p) /\ OnlyPool(my[r].p)
    BY <1>2, <1>5, <2>1, OnlyOnePool DEF Releases, ReleasePool
  <2> QED BY Zenon, <1>1, <1>2, <2>2 DEF PoolMoves
<1> QED BY Zenon, <1>3, <1>4, <1>5

(* The steps that write no pool.                                           *)
PassOnly(r) ==
    \/ ListRoutes(r) \/ ListPools(r) \/ RetireLease(r) \/ EndScan(r)
    \/ FinishPass(r) \/ CreateArchive(r) \/ CompareArchive(r) \/ Abort(r)
    \/ ChangeLeader(r) \/ (\E p \in Pools : StartPass(r, p))
    \/ \E u \in Routes : \/ KeepRoute(r, u) \/ RecordAttached(r, u) \/ Reserve(r, u)
                         \/ ReserveRefused(r, u) \/ AttachRoute(r, u)
    \/ \E k \in Shards : \/ CreateGateway(r, k) \/ GatewayRefused(r, k)
                         \/ RecordGateway(r, k) \/ UpdateGateway(r, k)
                         \/ NextGateway(r, k) \/ DeleteGateway(r, k)
WorldOnly ==
    \/ \E p \in Pools, k \in Shards :
          \/ GatewayEvent(p, k) \/ RestoreGateway(p, k)
          \/ CollectGateway(p, k) \/ FinishGateway(p, k)
    \/ \E u \in Routes : \/ CreateRoute(u) \/ DeleteRoute(u) \/ Reannotate(u)
                         \/ Retarget(u) \/ EditParent(u) \/ AdapterHold(u)
                         \/ ReleaseRoute(u)
    \/ \E s \in Services : ServiceEvent(s)
PoolOnly ==
    \/ \E p \in Pools :
          \/ CreatePool(p) \/ DeletePool(p) \/ EditSpec(p)
          \/ \E r \in Replicas : AddPoolFinalizer(r, p) \/ FreezeSpec(r, p)
    \/ \E r \in Replicas : save(r) \/ ReleasePool(r)

(* A step is of a pass alone, of the world alone or of a pool.             *)
LEMMA StepKinds ==
    ASSUME [Next]_vars
    PROVE  \/ (\E r \in Replicas : PassOnly(r)) \/ WorldOnly \/ PoolOnly
           \/ UNCHANGED vars
<1>1. ASSUME NEW r \in Replicas, Continue(r)
      PROVE  PassOnly(r) \/ save(r) \/ ReleasePool(r)
  BY Zenon, <1>1 DEF Continue, PassOnly
<1>2. ASSUME NEW r \in Replicas, NEW p \in Pools, Begin(r, p)
      PROVE  PassOnly(r) \/ AddPoolFinalizer(r, p) \/ FreezeSpec(r, p)
  BY Zenon, <1>2 DEF Begin, PassOnly
<1>3. ASSUME NEW r \in Replicas, Abort(r) \/ ChangeLeader(r) PROVE PassOnly(r)
  BY Zenon, <1>3 DEF PassOnly
<1> QED BY Zenon, <1>1, <1>2, <1>3 DEF Next, WorldOnly, PoolOnly

(* What a step may do to the pools.                                        *)
LEMMA StepPools ==
    ASSUME LedgerInv, PassInv, [Next]_vars
    PROVE  PoolMoves
<1>1. ASSUME NEW r \in Replicas, PassOnly(r) PROVE pool' = pool /\ led' = led
  BY Zenon, <1>1 DEF PassOnly, ListRoutes, ListPools, RetireLease, EndScan, FinishPass,
     CreateArchive, CompareArchive, Abort, ChangeLeader, StartPass, KeepRoute,
     RecordAttached, Reserve, ReserveRefused, AttachRoute, CreateGateway,
     GatewayRefused, RecordGateway, UpdateGateway, NextGateway, DeleteGateway, poolVars
<1>2. ASSUME WorldOnly PROVE pool' = pool /\ led' = led
  BY Zenon, <1>2 DEF WorldOnly, GatewayEvent, RestoreGateway, CollectGateway,
     FinishGateway, CreateRoute, DeleteRoute, Reannotate, Retarget, EditParent,
     AdapterHold, ReleaseRoute, ServiceEvent, poolVars
<1>3. UNCHANGED vars => pool' = pool /\ led' = led
  BY Zenon DEF vars, poolVars
<1>4. PoolOnly => PoolMoves
  BY Zenon, LifeMoves, StoreMoves DEF PoolOnly
<1> QED BY Zenon, <1>1, <1>2, <1>3, <1>4, StepKinds DEF PoolMoves

(* An archive is written once.                                             *)
ArchiveMoves == /\ DOMAIN archive' = Pools
                /\ \A p \in Pools : archive'[p] = archive[p] \/ archive[p] = NoArchive
(* What a step may do to the archives.                                     *)
LEMMA StepArchive ==
    ASSUME LedgerInv, PassInv, [Next]_vars
    PROVE  ArchiveMoves
<1>1. archive' = archive \/ \E r \in Replicas : CreateArchive(r)
  <2>1. ASSUME NEW r \in Replicas, PassOnly(r), ~CreateArchive(r) PROVE archive' = archive
    BY Zenon, <2>1 DEF PassOnly, ListRoutes, ListPools, RetireLease, EndScan, FinishPass,
       CompareArchive, Abort, ChangeLeader, StartPass, KeepRoute, RecordAttached,
       Reserve, ReserveRefused, AttachRoute, CreateGateway, GatewayRefused,
       RecordGateway, UpdateGateway, NextGateway, DeleteGateway
  <2>2. ASSUME WorldOnly \/ PoolOnly PROVE archive' = archive
    BY Zenon, <2>2 DEF WorldOnly, GatewayEvent, RestoreGateway, CollectGateway,
       FinishGateway, CreateRoute, DeleteRoute, Reannotate, Retarget, EditParent,
       AdapterHold, ReleaseRoute, ServiceEvent, PoolOnly, CreatePool, DeletePool,
       EditSpec, AddPoolFinalizer, FreezeSpec, save, ReleasePool
  <2> QED BY Zenon, <2>1, <2>2, StepKinds DEF vars
<1>2. CASE archive' = archive
  BY Zenon, <1>2 DEF ArchiveMoves, PassInv
<1>3. ASSUME NEW r \in Replicas, CreateArchive(r) PROVE ArchiveMoves
  BY Zenon, <1>3 DEF CreateArchive, ArchiveMoves, PassInv
<1> QED BY Zenon, <1>1, <1>2, <1>3

(* The kinds of the plan stay, and only one of them changes the leader.    *)
PlanMoves == /\ plan' \in PlanSet /\ plan'.kinds = plan.kinds
             /\ Sole => leader' = leader
(* A step spends the plan and leaves its kinds as they are.                *)
LEMMA StepPlan ==
    ASSUME PassInv, [Next]_vars
    PROVE  PlanMoves
<1>0. plan \in PlanSet
  BY Zenon DEF PassInv
<1>1. ASSUME UNCHANGED <<plan, leader>> PROVE PlanMoves
  BY <1>0, <1>1 DEF PlanMoves
<1>2. ASSUME NEW kind, Disturb(kind), UNCHANGED leader PROVE PlanMoves
  BY <1>0, <1>2 DEF Disturb, PlanSet, PlanMoves
<1>3. ASSUME NEW r, ChangeLeader(r) PROVE PlanMoves
  BY <1>0, <1>3 DEF ChangeLeader, Disturb, PlanSet, Sole, PlanMoves
<1>4. ASSUME NEW r \in Replicas, PassOnly(r) PROVE PlanMoves
  <2>1. CASE Abort(r)
    BY Zenon, <1>2, <2>1 DEF Abort
  <2>2. CASE ~Abort(r) /\ ~ChangeLeader(r)
    <3>1. UNCHANGED <<plan, leader>>
      BY Zenon, <1>4, <2>2 DEF PassOnly, ListRoutes, ListPools, RetireLease, EndScan,
       FinishPass, CreateArchive, CompareArchive, StartPass, KeepRoute, RecordAttached,
       Reserve, ReserveRefused, AttachRoute, CreateGateway, GatewayRefused,
       RecordGateway, UpdateGateway, NextGateway, DeleteGateway
    <3> QED BY <1>1, <3>1
  <2> QED BY <1>3, <2>1, <2>2
<1>5. ASSUME WorldOnly \/ PoolOnly PROVE PlanMoves
  <2>1. UNCHANGED leader
    BY Zenon, <1>5 DEF WorldOnly, GatewayEvent, RestoreGateway, CollectGateway,
       FinishGateway, CreateRoute, DeleteRoute, Reannotate, Retarget, EditParent,
       AdapterHold, ReleaseRoute, ServiceEvent, PoolOnly, CreatePool, DeletePool,
       EditSpec, AddPoolFinalizer, FreezeSpec, save, ReleasePool
  <2>2. UNCHANGED plan \/ \E kind : Disturb(kind)
    BY Zenon, <1>5 DEF WorldOnly, GatewayEvent, RestoreGateway, CollectGateway,
       FinishGateway, CreateRoute, DeleteRoute, Reannotate, Retarget, EditParent,
       AdapterHold, ReleaseRoute, ServiceEvent, PoolOnly, CreatePool, DeletePool,
       EditSpec, AddPoolFinalizer, FreezeSpec, save, ReleasePool
  <2> QED BY Zenon, <1>1, <1>2, <2>1, <2>2
<1> QED BY Zenon, <1>1, <1>4, <1>5, StepKinds DEF vars

-----------------------------------------------------------------------------
(* What a step does to the routes: their states go forward, and who listed *)
(* a route that is written knows it.                                       *)

RouteMoves ==
    /\ \A u \in Routes : Later(route[u].st, route'[u].st)
    /\ \A q \in Replicas, u \in Routes :
          /\ route'[u] = route[u] \/ my[q].p = 0 \/ <<q, u>> \in dirty'
          /\ <<q, u>> \in dirty /\ pc[q] # "routes" => <<q, u>> \in dirty'

(* A write to one route, in the order of a route's life.                   *)
LEMMA WriteRouteMoves ==
    ASSUME DurableInv, PassInv, NEW u \in Routes, NEW t, WriteRoute(u, t),
           Later(route[u].st, t.st)
    PROVE  RouteMoves
BY Zenon DEF DurableInv, PassInv, WriteRoute, RouteMoves, Later

(* A step that leaves the routes alone moves none.                         *)
LEMMA SameRouteMoves ==
    ASSUME PassInv, UNCHANGED routeVars PROVE RouteMoves
BY DEF PassInv, routeVars, RouteMoves, Later

(* An attachment writes the route as it was listed, or nothing.            *)
LEMMA AttachMoves ==
    ASSUME DurableInv, PassInv, NEW r \in Replicas, NEW u \in Routes, AttachRoute(r, u)
    PROVE  RouteMoves
<1>1. CASE UNCHANGED routeVars
  BY <1>1, SameRouteMoves
<1>2. CASE ~UNCHANGED routeVars
  <2> DEFINE t == [my[r].rts[u] EXCEPT !.parent = <<my[r].p, my[r].a[u].shard>>,
                                       !.fin = TRUE]
  <2>1. WriteRoute(u, t) /\ <<r, u>> \notin dirty /\ pc[r] = "gateways"
    BY Zenon, <1>2 DEF AttachRoute, AtAttach
  <2>2. my[r].rts[u] = route[u]
    BY Zenon, <2>1 DEF PassInv, RouteCopy, Listed
  <2>3. IsRoute(my[r].rts[u])
    BY Zenon DEF DurableInv, CopyOlder
  <2>4. t.st = route[u].st
    BY <2>2, <2>3 DEF IsRoute
  <2> HIDE DEF t
  <2> QED BY Zenon, <2>1, <2>4, WriteRouteMoves DEF Later, PassInv
<1> QED BY <1>1, <1>2

(* Users and the adapter.                                                  *)
LEMMA EditMoves ==
    ASSUME DurableInv, PassInv, NEW u \in Routes,
           \/ CreateRoute(u) \/ DeleteRoute(u) \/ Reannotate(u) \/ Retarget(u)
           \/ EditParent(u) \/ AdapterHold(u) \/ ReleaseRoute(u)
    PROVE  RouteMoves
<1>1. IsRoute(route[u])
  BY Zenon DEF DurableInv, RouteDurable
<1>2. ASSUME NEW t, WriteRoute(u, t), t.st = route[u].st PROVE RouteMoves
  BY Zenon, <1>2, WriteRouteMoves DEF Later, PassInv
<1>3. CASE CreateRoute(u)
  <2>1. PICK n : WriteRoute(u, [route[u] EXCEPT !.st = "live", !.ann = n])
    BY Zenon, <1>3 DEF CreateRoute
  <2>2. Later(route[u].st, [route[u] EXCEPT !.st = "live", !.ann = n].st)
    BY Zenon, <1>1, <1>3 DEF CreateRoute, IsRoute, Later, RouteStates
  <2> QED BY Zenon, <2>1, <2>2, WriteRouteMoves
<1>4. CASE DeleteRoute(u)
  <2>1. Later(route[u].st, Deleted(route[u]).st)
    BY Zenon, <1>1, <1>4 DEF DeleteRoute, IsRoute, Later, RouteStates, Deleted
  <2> QED BY Zenon, <1>4, <2>1, WriteRouteMoves DEF DeleteRoute
<1>5. CASE Reannotate(u)
  <2>1. PICK n : WriteRoute(u, [route[u] EXCEPT !.ann = n])
    BY Zenon, <1>5 DEF Reannotate
  <2>2. [route[u] EXCEPT !.ann = n].st = route[u].st
    BY <1>1 DEF IsRoute
  <2> QED BY Zenon, <1>2, <2>1, <2>2
<1>6. CASE Retarget(u)
  <2>1. PICK s : WriteRoute(u, [route[u] EXCEPT !.svc = s])
    BY Zenon, <1>6 DEF Retarget
  <2>2. [route[u] EXCEPT !.svc = s].st = route[u].st
    BY <1>1 DEF IsRoute
  <2> QED BY Zenon, <1>2, <2>1, <2>2
<1>7. CASE EditParent(u)
  <2>1. PICK x : WriteRoute(u, [route[u] EXCEPT !.parent = x])
    BY Zenon, <1>7 DEF EditParent
  <2>2. [route[u] EXCEPT !.parent = x].st = route[u].st
    BY <1>1 DEF IsRoute
  <2> QED BY Zenon, <1>2, <2>1, <2>2
<1>8. CASE AdapterHold(u)
  <2>1. PICK x : WriteRoute(u, [route[u] EXCEPT !.fin = x])
    BY Zenon, <1>8 DEF AdapterHold
  <2>2. [route[u] EXCEPT !.fin = x].st = route[u].st
    BY <1>1 DEF IsRoute
  <2> QED BY Zenon, <1>2, <2>1, <2>2
<1>9. CASE ReleaseRoute(u)
  <2>1. Later(route[u].st, [route[u] EXCEPT !.st = "gone", !.fin = FALSE].st)
    BY Zenon, <1>1 DEF IsRoute, Later, RouteStates
  <2> QED BY Zenon, <1>9, <2>1, WriteRouteMoves DEF ReleaseRoute
<1> QED BY Zenon, <1>3, <1>4, <1>5, <1>6, <1>7, <1>8, <1>9

(* What a step may do to the routes.                                       *)
LEMMA StepRoutes ==
    ASSUME LedgerInv, DurableInv, PassInv, [Next]_vars
    PROVE  RouteMoves
<1>1. ASSUME NEW r \in Replicas, PassOnly(r) PROVE RouteMoves
  <2>1. CASE \E u \in Routes : AttachRoute(r, u)
    BY Zenon, <2>1, AttachMoves
  <2>2. CASE ListRoutes(r)
    BY Zenon, <2>2 DEF PassInv, ListRoutes, RouteMoves, Later
  <2>3. CASE ~ListRoutes(r) /\ ~ \E u \in Routes : AttachRoute(r, u)
    <3>1. UNCHANGED routeVars
      BY Zenon, <1>1, <2>3 DEF PassOnly, ListPools, RetireLease, EndScan, FinishPass,
         CreateArchive, CompareArchive, Abort, ChangeLeader, StartPass, KeepRoute,
         RecordAttached, Reserve, ReserveRefused, CreateGateway, GatewayRefused,
         RecordGateway, UpdateGateway, NextGateway, DeleteGateway
    <3> QED BY <3>1, SameRouteMoves
  <2> QED BY Zenon, <2>1, <2>2, <2>3
<1>2. ASSUME WorldOnly PROVE RouteMoves
  <2>1. \/ \E u \in Routes : \/ CreateRoute(u) \/ DeleteRoute(u) \/ Reannotate(u)
                             \/ Retarget(u) \/ EditParent(u) \/ AdapterHold(u)
                             \/ ReleaseRoute(u)
        \/ UNCHANGED routeVars
    BY Zenon, <1>2 DEF WorldOnly, GatewayEvent, RestoreGateway, CollectGateway,
       FinishGateway, ServiceEvent
  <2> QED BY Zenon, <2>1, EditMoves, SameRouteMoves
<1>3. PoolOnly => UNCHANGED routeVars
  BY Zenon DEF PoolOnly, CreatePool, DeletePool, EditSpec, AddPoolFinalizer,
       FreezeSpec, save, ReleasePool
<1> QED BY <1>1, <1>2, <1>3, StepKinds, SameRouteMoves DEF vars

-----------------------------------------------------------------------------
(* What a step does to a Gateway: it comes to be in a pass for a lease, or *)
(* out of a backup.                                                        *)

MadeBy(r, p, k) == /\ pc[r] = "gateways" /\ my[r].p = p
                   /\ k \in my[r].todo /\ my[r].obj.gws[k] = 0
Touched(g) == g.st # "none" \/ g.lst # {}
GateMoves(p, k) ==
    \/ \E r \in Replicas : MadeBy(r, p, k)
    \/ /\ Touched(gate'[p][k]) => Touched(gate[p][k])
       /\ gate[p][k].st = "none" /\ gate'[p][k].st # "none" =>
             "restore" \in plan.kinds /\ my' = my

(* A write to one Gateway, by a pass that holds a lease for it or by the   *)
(* world.                                                                  *)
LEMMA OneGateMoves ==
    ASSUME DurableInv, NEW p \in Pools, NEW k \in Shards, NEW g,
           gate' = [gate EXCEPT ![p][k] = g],
           \/ \E r \in Replicas : MadeBy(r, p, k)
           \/ /\ Touched(gate[p][k])
              /\ gate[p][k].st = "none" => "restore" \in plan.kinds /\ my' = my
    PROVE  \A q \in Pools, j \in Shards : GateMoves(q, j)
<1> SUFFICES ASSUME NEW q \in Pools, NEW j \in Shards PROVE GateMoves(q, j)
  OBVIOUS
<1>1. CASE q = p /\ j = k
  BY <1>1 DEF GateMoves
<1>2. CASE ~(q = p /\ j = k)
  <2>1. gate'[q][j] = gate[q][j]
    BY <1>2 DEF DurableInv
  <2> QED BY <2>1 DEF GateMoves
<1> QED BY <1>1, <1>2

(* A step that leaves the Gateways alone moves none.                       *)
LEMMA SameGateMoves ==
    ASSUME UNCHANGED gate PROVE \A q \in Pools, j \in Shards : GateMoves(q, j)
BY DEF GateMoves

(* The three writes of a pass to a Gateway.                                *)
LEMMA PassGateMoves ==
    ASSUME LedgerInv, DurableInv, NEW r \in Replicas, NEW k \in Shards,
           CreateGateway(r, k) \/ UpdateGateway(r, k) \/ DeleteGateway(r, k)
    PROVE  \A q \in Pools, j \in Shards : GateMoves(q, j)
<1> DEFINE p == my[r].p
<1>1. p \in Pools
  BY Zenon
     DEF CreateGateway, UpdateGateway, DeleteGateway, AtGateway, LedgerInv, Ctl
<1>2. CASE CreateGateway(r, k)
  <2>1. MadeBy(r, p, k)
    BY Zenon, <1>2 DEF CreateGateway, AtGateway, Recorded, MadeBy
  <2>2. PICK g : gate' = [gate EXCEPT ![p][k] = g]
    BY Zenon, <1>2 DEF CreateGateway
  <2> QED BY Zenon, <1>1, <2>1, <2>2, OneGateMoves
<1>3. CASE UpdateGateway(r, k)
  <2>1. gate[p][k].st = "live"
    BY Zenon, <1>3 DEF UpdateGateway, Sound, Gateway
  <2>2. PICK g : gate' = [gate EXCEPT ![p][k] = g]
    BY Zenon, <1>3 DEF UpdateGateway
  <2> QED BY Zenon, <1>1, <2>1, <2>2, OneGateMoves DEF Touched
<1>4. CASE DeleteGateway(r, k)
  <2>1. gate[p][k].st # "none" \/ gate' = gate
    BY Zenon, <1>4 DEF DeleteGateway, Gateway
  <2>2. gate' = gate \/ \E g : gate' = [gate EXCEPT ![p][k] = g]
    BY Zenon, <1>4 DEF DeleteGateway
  <2> QED BY Zenon, <1>1, <2>1, <2>2, OneGateMoves, SameGateMoves DEF Touched
<1> QED BY <1>2, <1>3, <1>4

(* What users, backups, the adapter and the collector do to a Gateway.     *)
LEMMA WorldGateMoves ==
    ASSUME DurableInv, NEW p \in Pools, NEW k \in Shards,
           \/ GatewayEvent(p, k) \/ RestoreGateway(p, k)
           \/ CollectGateway(p, k) \/ FinishGateway(p, k)
    PROVE  \A q \in Pools, j \in Shards : GateMoves(q, j)
<1>1. CASE RestoreGateway(p, k)
  <2> DEFINE g == [gate[p][k] EXCEPT !.st = "live", !.uid = gate[p][k].uid + 1]
  <2>1. IsGate(gate[p][k])
    BY Zenon DEF DurableInv, GateDurable
  <2>2. gate' = [gate EXCEPT ![p][k] = g]
    BY Zenon, <1>1, <2>1 DEF RestoreGateway, DurableInv, IsGate
  <2>3. gate[p][k].lst # {} /\ "restore" \in plan.kinds /\ my' = my
    BY Zenon, <1>1 DEF RestoreGateway, Disturb, ctlVars
  <2> HIDE DEF g
  <2> QED BY Zenon, <2>2, <2>3, OneGateMoves DEF Touched
<1>2. CASE GatewayEvent(p, k) \/ CollectGateway(p, k) \/ FinishGateway(p, k)
  <2>1. gate[p][k].st # "none"
    BY Zenon, <1>2 DEF GatewayEvent, CollectGateway, FinishGateway
  <2>2. \E g : gate' = [gate EXCEPT ![p][k] = g]
    BY Zenon, <1>2 DEF GatewayEvent, CollectGateway, FinishGateway
  <2> QED BY Zenon, <2>1, <2>2, OneGateMoves DEF Touched
<1> QED BY <1>1, <1>2

(* What a step may do to the Gateways.                                     *)
LEMMA StepGates ==
    ASSUME LedgerInv, DurableInv, [Next]_vars
    PROVE  \A q \in Pools, j \in Shards : GateMoves(q, j)
<1> DEFINE Goal == \A q \in Pools, j \in Shards : GateMoves(q, j)
<1>1. ASSUME NEW r \in Replicas, PassOnly(r)
      PROVE  \/ UNCHANGED gate
             \/ \E k \in Shards : \/ CreateGateway(r, k) \/ UpdateGateway(r, k)
                                  \/ DeleteGateway(r, k)
  BY Zenon, <1>1 DEF PassOnly, ListRoutes, ListPools, RetireLease, EndScan, FinishPass,
     CreateArchive, CompareArchive, Abort, ChangeLeader, StartPass, KeepRoute,
     RecordAttached, Reserve, ReserveRefused, AttachRoute, GatewayRefused,
     RecordGateway, NextGateway
<1>2. ASSUME WorldOnly
      PROVE  \/ UNCHANGED gate
             \/ \E p \in Pools, k \in Shards :
                   \/ GatewayEvent(p, k) \/ RestoreGateway(p, k)
                   \/ CollectGateway(p, k) \/ FinishGateway(p, k)
  BY Zenon, <1>2 DEF WorldOnly, CreateRoute, DeleteRoute, Reannotate, Retarget,
     EditParent, AdapterHold, ReleaseRoute, ServiceEvent
<1>3. PoolOnly => UNCHANGED gate
  BY Zenon DEF PoolOnly, CreatePool, DeletePool, EditSpec, AddPoolFinalizer,
       FreezeSpec, save, ReleasePool
<1>4. UNCHANGED vars => UNCHANGED gate
  BY DEF vars
<1>5. UNCHANGED gate => Goal
  BY SameGateMoves
<1>6. ASSUME NEW r \in Replicas, NEW k \in Shards,
             CreateGateway(r, k) \/ UpdateGateway(r, k) \/ DeleteGateway(r, k)
      PROVE  Goal
  BY <1>6, PassGateMoves
<1>7. ASSUME NEW p \in Pools, NEW k \in Shards,
             \/ GatewayEvent(p, k) \/ RestoreGateway(p, k)
             \/ CollectGateway(p, k) \/ FinishGateway(p, k)
      PROVE  Goal
  BY Zenon, <1>7, WorldGateMoves
<1> HIDE DEF Goal
<1>8. Goal
  BY Zenon, <1>1, <1>2, <1>3, <1>4, <1>5, <1>6, <1>7, StepKinds
<1> QED BY <1>8 DEF Goal

-----------------------------------------------------------------------------
(* PassInv is inductive.                                                   *)

(* A route that is gone stays gone, so that a retirement stays right.      *)
LEMMA JustifiedKept ==
    ASSUME NEW A, Justified(A, route), RouteMoves
    PROVE  Justified(A, route')
BY Zenon DEF Justified, RouteMoves, Later

(* A ledger is never mistaken for no archive.                              *)
LEMMA LedgerIsArchive ==
    ASSUME NEW x, NEW y, NEW z
    PROVE  [a |-> x, gws |-> y, rejected |-> z] # NoArchive
<1>1. "a" \in DOMAIN [a |-> x, gws |-> y, rejected |-> z]
  OBVIOUS
<1>2. "a" \notin DOMAIN NoArchive
  BY DEF NoArchive
<1> QED BY <1>1, <1>2

(* A pool that goes has left its last ledger in the archive.               *)
LEMMA PoolLifeStep ==
    ASSUME LedgerInv, PassInv, PoolMoves, ArchiveMoves, RouteMoves, NEW p \in Pools
    PROVE  PoolLife(p)'
<1>1. PoolLife(p)
  BY Zenon DEF PassInv
<1>2. CASE pool'[p] = pool[p] /\ led'[p] = led[p]
  <2>1. Justified(led'[p], route')
    BY Zenon, <1>1, <1>2, JustifiedKept DEF PoolLife
  <2>2. pool[p].st = "gone" /\ pool[p].frozen => archive'[p] = archive[p]
    BY Zenon, <1>1, LedgerIsArchive DEF PoolLife, ArchiveMoves
  <2> QED BY <1>1, <1>2, <2>1, <2>2 DEF PoolLife
<1>3. CASE Lives(pool[p], pool'[p]) /\ led'[p] = led[p]
  <2>1. Justified(led'[p], route')
    BY Zenon, <1>1, <1>3, JustifiedKept DEF PoolLife
  <2> QED BY Zenon, <1>1, <1>3, <2>1 DEF PoolLife, Lives
<1>4. ASSUME NEW r \in Replicas, Stores(r, p) PROVE PoolLife(p)'
  <2>1. PoolCopy(r) /\ pc[r] = "save"
    BY Zenon, <1>4 DEF PassInv, Stores
  <2>2. /\ IsPool(my[r].obj) /\ my[r].obj.fin /\ my[r].obj.frozen
        /\ my[r].obj.st = "live" /\ Justified(my[r].a, route)
    BY Zenon, <2>1 DEF PoolCopy, Serving, Listed
  <2>3. IsPool(pool'[p]) /\ pool'[p].fin /\ pool'[p].frozen /\ pool'[p].st = "live"
    BY Zenon, <1>4, <2>2 DEF Stores, IsPool
  <2>4. Justified(led'[p], route')
    BY Zenon, <1>4, <2>2, JustifiedKept DEF Stores
  <2> QED BY Zenon, <2>3, <2>4 DEF PoolLife
<1>5. ASSUME NEW r \in Replicas, Releases(r, p), archive' = archive PROVE PoolLife(p)'
  <2>1. PoolCopy(r) /\ pc[r] = "delete" /\ my[r].p = p /\ led'[p] = my[r].a
    BY Zenon, <1>5 DEF PassInv, Releases
  <2>2. /\ IsPool(my[r].obj) /\ Justified(my[r].a, route)
        /\ archive[p] = Ledger(my[r])
    BY Zenon, <2>1 DEF PoolCopy
  <2>3. /\ IsPool(pool'[p]) /\ pool'[p].st = "gone" /\ pool'[p].gws = my[r].obj.gws
        /\ pool'[p].rejected = my[r].obj.rejected
    BY Zenon, <1>5, <2>2 DEF Releases, IsPool
  <2>4. Justified(led'[p], route')
    BY Zenon, <2>1, <2>2, JustifiedKept
  <2> QED BY Zenon, <1>5, <2>1, <2>2, <2>3, <2>4 DEF PoolLife, Ledger
<1> QED BY <1>2, <1>3, <1>4, <1>5 DEF PoolMoves, OnlyPool

(* A copy that stays and is not marked stale is of a pool that stays.      *)
LEMMA StaysFresh ==
    ASSUME PoolMoves, NEW q \in Replicas, my[q].p \in Pools, q \notin stale'
    PROVE  pool'[my[q].p] = pool[my[q].p] /\ led'[my[q].p] = led[my[q].p]
BY Zenon DEF PoolMoves, OnlyPool

(* A pass that proposes a ledger has a reason for every lease in it.       *)
LEMMA ProposalJustified ==
    ASSUME PassInv, NEW q \in Replicas, Proposes(q)
    PROVE  Justified(my'[q].a, route)
<1>1. /\ Justified(my[q].a, route) /\ pc[q] \in Listed /\ RouteCopy(q)
      /\ IsLedger(my[q].a)
  BY Zenon DEF Proposes, PassInv, PoolCopy, Listed
<1> DEFINE A == my[q].a
           B == my'[q].a
<1>2. CASE B = A
  BY Zenon, <1>1, <1>2
<1>3. ASSUME NEW u \in Vanished(my[q]), B = [A EXCEPT ![u].tomb = TRUE]
      PROVE  Justified(B, route)
  <2>1. u \in DOMAIN A /\ ~Exists(my[q].rts[u])
    BY Zenon DEF Vanished
  <2>2. route[u].st = "gone"
    BY Zenon, <1>1, <2>1 DEF Justified, RouteCopy, Exists, RouteStates, Later
  <2>3. DOMAIN B = DOMAIN A /\ \A v \in DOMAIN A \ {u} : B[v] = A[v]
    BY Zenon, <1>3
  <2> QED BY Zenon, <1>1, <2>1, <2>2, <2>3 DEF Justified
<1>4. ASSUME NEW u \in DOMAIN A, B = [A EXCEPT ![u].attached = TRUE]
      PROVE  Justified(B, route)
  <2>1. DOMAIN B = DOMAIN A /\ \A v \in DOMAIN A : B[v].tomb = A[v].tomb
    <3>1. PICK x : x = [A[u] EXCEPT !.attached = TRUE]
      BY Zenon
    <3>2. x.tomb = A[u].tomb
      BY <1>1, <3>1 DEF IsLedger, IsLease
    <3>3. B = [A EXCEPT ![u] = x]
      BY Zenon, <1>4, <3>1
    <3> QED BY Zenon, <3>2, <3>3
  <2> QED BY Zenon, <1>1, <2>1 DEF Justified
<1>5. ASSUME pc[q] = "scan", NEW u \in my[q].todo \ DOMAIN A, NEW s, NEW slot,
             B = WithLease(A, u, NewLease(s, slot))
      PROVE  Justified(B, route)
  <2>1. u \in Routes /\ route[u].st # "unborn"
    BY Zenon, <1>1, <1>5 DEF RouteCopy, Later
  <2>2. DOMAIN B = DOMAIN A \cup {u} /\ ~B[u].tomb /\ \A v \in DOMAIN A : B[v] = A[v]
    BY <1>5 DEF WithLease, NewLease
  <2> QED BY Zenon, <1>1, <2>1, <2>2 DEF Justified
<1>6. \/ B = A
      \/ \E u \in Vanished(my[q]) : B = [A EXCEPT ![u].tomb = TRUE]
      \/ \E u \in DOMAIN A : B = [A EXCEPT ![u].attached = TRUE]
      \/ /\ pc[q] = "scan"
         /\ \E u \in my[q].todo \ DOMAIN A : \E s, slot :
               B = WithLease(A, u, NewLease(s, slot))
  BY Zenon DEF Proposes
<1>7. CASE pc[q] = "scan" /\ \E u \in my[q].todo \ DOMAIN A : \E s, slot :
                               B = WithLease(A, u, NewLease(s, slot))
  <2>1. PICK u \in my[q].todo \ DOMAIN A :
            \E s, slot : B = WithLease(A, u, NewLease(s, slot))
    BY Zenon, <1>7
  <2>2. PICK s, slot : B = WithLease(A, u, NewLease(s, slot))
    BY Zenon, <2>1
  <2> QED BY Zenon, <1>5, <1>7, <2>2
<1> QED BY Zenon, <1>2, <1>3, <1>4, <1>6, <1>7

(* A copy of the pool that is not outdated is the pool, but for what the   *)
(* pass is about to save.                                                  *)
LEMMA PoolCopyStep ==
    ASSUME LedgerInv, Shape, PassInv, PoolMoves, ArchiveMoves, RouteMoves,
           NEW q \in Replicas, Moves(q)
    PROVE  PoolCopy(q)'
<1>1. PoolCopy(q) /\ (pc[q] # "idle" => my[q].p \in Pools)
  BY Zenon DEF PassInv, LedgerInv, Ctl
<1>2. CASE Ends(q)
  BY Zenon, <1>2 DEF Ends, PoolCopy
<1>3. CASE Stays(q) /\ pc[q] # "idle"
  <2>1. my'[q] = my[q] /\ pc'[q] = pc[q] /\ my[q].p \in Pools
    BY Zenon, <1>1, <1>3 DEF Stays
  <2>2. q \notin stale' => q \notin stale /\ pool'[my[q].p] = pool[my[q].p]
    BY Zenon, <1>3, <2>1, StaysFresh DEF Stays
  <2>3. Justified(my[q].a, route')
    BY Zenon, <1>1, <1>3, JustifiedKept DEF PoolCopy
  <2>4. pc[q] = "delete" => archive'[my[q].p] = archive[my[q].p]
    <3>1. pc[q] = "delete" => archive[my[q].p] = Ledger(my[q])
      BY Zenon, <1>1, <1>3 DEF PoolCopy
    <3>2. Ledger(my[q]) # NoArchive
      BY Zenon, LedgerIsArchive DEF Ledger
    <3>3. archive'[my[q].p] = archive[my[q].p] \/ archive[my[q].p] = NoArchive
      BY Zenon, <2>1 DEF ArchiveMoves
    <3> QED BY Zenon, <3>1, <3>2, <3>3
  <2> QED BY Zenon, <1>1, <1>3, <2>1, <2>2, <2>3, <2>4 DEF PoolCopy, Ledger
<1>4. ASSUME NEW p \in Pools, StartsOn(q, p) PROVE PoolCopy(q)'
  <2>1. PoolLife(p) /\ IsLedger(led[p])
    BY Zenon DEF PassInv, LedgerInv
  <2>2. /\ pool'[p] = pool[p] /\ route' = route /\ my'[q].p = p
        /\ my'[q].obj = pool[p] /\ my'[q].a = led[p] /\ pool[p].fin
        /\ \/ pool[p].st = "live" /\ pool[p].frozen /\ pc'[q] = "routes"
           \/ pool[p].st = "deleting" /\ pc'[q] = "archive"
    BY Zenon, <1>4 DEF StartsOn, SameWorld
  <2> QED BY Zenon,
      <2>1, <2>2 DEF PoolCopy, PoolLife, Serving, Listed, Cleaning
<1>5. CASE Lists(q) \/ Looks(q)
  <2>1. /\ SameWorld /\ stale' = stale /\ SameBase(q) /\ pc[q] # "idle"
        /\ pc[q] # "save" /\ pc'[q] # "save" /\ pc'[q] \in Serving \cup Cleaning
        /\ pc'[q] \in Serving <=> pc[q] \in Serving
        /\ pc'[q] \in Cleaning <=> pc[q] \in Cleaning
        /\ pc'[q] = "delete" => pc[q] = "delete" \/ archive[my[q].p] = Ledger(my[q])
    BY Zenon, <1>5 DEF Lists, Looks, LooksAt, Sorts, Serving, Listed, Cleaning
  <2>2. PICK m, n : m = my[q] /\ n = my'[q]
    BY Zenon
  <2>3. n.p = m.p /\ n.obj = m.obj /\ n.a = m.a
    BY Zenon, <2>1, <2>2 DEF SameBase
  <2> QED BY Zenon, <1>1, <2>1, <2>2, <2>3 DEF PoolCopy, SameWorld, Ledger
<1>6. CASE Proposes(q)
  <2>1. Justified(my'[q].a, route)
    BY Zenon, <1>6, ProposalJustified
  <2>2. /\ SameWorld /\ stale' = stale /\ my'[q].p = my[q].p /\ pc'[q] = "save"
        /\ pc[q] \in Serving /\ pc[q] \notin {"idle", "save"}
    BY Zenon, <1>6 DEF Proposes, Serving, Listed
  <2>3. /\ IsPool(my[q].obj) /\ my[q].obj.fin /\ my[q].obj.st = "live"
        /\ my[q].obj.frozen /\ IsLedger(my[q].a)
        /\ q \notin stale => my[q].obj = pool[my[q].p]
    BY Zenon, <1>1, <2>2 DEF PoolCopy
  <2>4. /\ IsPool(my'[q].obj) /\ my'[q].obj.st = my[q].obj.st
        /\ my'[q].obj.fin = my[q].obj.fin /\ my'[q].obj.frozen = my[q].obj.frozen
    BY Zenon, <1>6, <2>3 DEF Proposes, IsPool
  <2>5. IsLedger(my'[q].a)
    <3>1. CopyShape(q) /\ led' = led
      BY Zenon, <2>2 DEF Shape, SameWorld
    <3>2. CASE Works(q)
      BY Zenon, <2>2, <2>3, <3>2, StepIsLedger DEF Works
    <3>3. CASE Reads(q)
      BY Zenon, <2>2, <3>3 DEF Reads
    <3> QED BY Zenon, <2>2, <3>1, <3>2, <3>3 DEF CopyShape
  <2> QED BY Zenon,
      <2>1, <2>2, <2>3, <2>4, <2>5 DEF PoolCopy, SameWorld, Serving, Listed,
                                              Cleaning
<1>7. CASE Stays(q) /\ pc[q] = "idle"
  BY Zenon, <1>7 DEF Stays, PoolCopy
<1> QED BY Zenon, <1>2, <1>3, <1>4, <1>5, <1>6, <1>7 DEF Moves

(* A copy of a route that is not outdated is the route.                    *)
LEMMA RouteCopyStep ==
    ASSUME LedgerInv, PassInv, RouteMoves, NEW q \in Replicas, Moves(q)
    PROVE  RouteCopy(q)'
<1>1. RouteCopy(q) /\ PoolCopy(q) /\ (pc[q] # "idle" => my[q].p \in Pools)
  BY Zenon DEF PassInv, LedgerInv, Ctl
<1>2. CASE Ends(q)
  BY Zenon, <1>2 DEF Ends, RouteCopy, Listed
<1>3. CASE Stays(q)
  <2>1. my'[q] = my[q] /\ pc'[q] = pc[q]
    BY Zenon, <1>3 DEF Stays
  <2>2. ASSUME pc[q] \in Listed, NEW u \in Routes
        PROVE  /\ Later(my[q].rts[u].st, route'[u].st)
               /\ <<q, u>> \notin dirty' => my[q].rts[u] = route'[u]
    <3>1. pc[q] # "routes" /\ pc[q] # "idle"
      BY Zenon, <2>2 DEF Listed
    <3>2. my[q].p # 0
      BY Zenon, <1>1, <3>1, GatewayPoolValid
    <3> QED BY Zenon, <1>1, <2>2, <3>1, <3>2 DEF RouteCopy, RouteMoves, Later
  <2> QED BY Zenon, <1>1, <2>1, <2>2 DEF RouteCopy
<1>4. ASSUME NEW p \in Pools, StartsOn(q, p) PROVE RouteCopy(q)'
  BY Zenon, <1>4 DEF StartsOn, RouteCopy, Listed
<1>5. CASE Lists(q)
  <2>1. /\ my'[q].a = my[q].a /\ my'[q].rts = route /\ route' = route
        /\ pc[q] = "routes" /\ pc'[q] = "pools"
    BY Zenon, <1>5 DEF Lists, SameBase, SameWorld
  <2>2. Justified(my[q].a, route)
    BY Zenon, <1>1, <2>1 DEF PoolCopy
  <2>3. \A u \in Routes : route[u].st \in RouteStates
    BY Zenon DEF PassInv
  <2> QED BY Zenon, <2>1, <2>2, <2>3 DEF RouteCopy, Later, Justified
<1>6. CASE Looks(q)
  <2>1. /\ SameWorld /\ dirty' = dirty /\ my'[q].a = my[q].a /\ my'[q].rts = my[q].rts
        /\ LooksAt(q)
    BY Zenon, <1>6 DEF Looks, SameBase
  <2>2. pc'[q] \in Listed => pc[q] \in Listed
    BY ZenonT(30), <2>1 DEF LooksAt, Sorts, Listed
  <2>3. pc'[q] = "scan" => \A u \in my'[q].todo :
          /\ u \in Routes /\ my[q].rts[u].st = "live"
          /\ u \in DOMAIN my[q].a \/ u \notin my'[q].others
    BY ZenonT(30), <1>1, <2>1 DEF LooksAt, Sorts, RouteCopy
  <2>4. pc'[q] \in {"scan", "gateways"} => \A u \in DOMAIN my[q].a :
          /\ my[q].a[u].attached /\ my[q].rts[u].st = "live"
          /\ my[q].rts[u].parent = NoParent
          => Known(my'[q], u)
    BY ZenonT(30), <1>1, <2>1 DEF LooksAt, Sorts, RouteCopy, Known
  <2>5. pc'[q] = "gateways" => \A k \in my'[q].todo :
          \E u \in DOMAIN my[q].a : my[q].a[u].shard = k
    <3>1. CASE my'[q].todo = {my[q].a[u].shard : u \in DOMAIN my[q].a}
      BY Zenon, <3>1
    <3>2. CASE pc[q] = "gateways" /\ my'[q].todo \subseteq my[q].todo
      BY Zenon, <1>1, <3>2 DEF RouteCopy
    <3>3. pc'[q] = "gateways" =>
            \/ my'[q].todo = {my[q].a[u].shard : u \in DOMAIN my[q].a}
            \/ pc[q] = "gateways" /\ my'[q].todo \subseteq my[q].todo
      BY Zenon, <2>1 DEF LooksAt, Sorts
    <3> QED BY Zenon, <3>1, <3>2, <3>3
  <2> QED BY ZenonT(30),
      <1>1, <2>1, <2>2, <2>3, <2>4, <2>5 DEF RouteCopy, SameWorld
<1>7. CASE Proposes(q)
  <2>1. /\ SameWorld /\ dirty' = dirty /\ my'[q].rts = my[q].rts
        /\ pc[q] \in Listed /\ pc'[q] = "save"
    BY Zenon, <1>7 DEF Proposes, Listed
  <2>2. \A u \in DOMAIN my'[q].a : my[q].rts[u].st # "unborn"
    <3>1. \A u \in DOMAIN my[q].a : my[q].rts[u].st # "unborn"
      <4>1. DOMAIN my[q].a \subseteq Routes
        BY Zenon, <1>1, <2>1 DEF PoolCopy, Listed, Justified
      <4> QED BY Zenon, <1>1, <2>1, <4>1 DEF RouteCopy
    <3>2. CASE DOMAIN my'[q].a = DOMAIN my[q].a
      BY Zenon, <3>1, <3>2
    <3>3. ASSUME pc[q] = "scan", NEW u \in my[q].todo,
                 DOMAIN my'[q].a = DOMAIN my[q].a \cup {u}
          PROVE  \A v \in DOMAIN my'[q].a : my[q].rts[v].st # "unborn"
      BY Zenon, <1>1, <3>1, <3>3 DEF RouteCopy
    <3> QED BY Zenon, <1>7, <3>2, <3>3 DEF Proposes, WithLease
  <2> QED BY Zenon, <1>1, <2>1, <2>2 DEF RouteCopy, SameWorld
<1> QED BY Zenon, <1>2, <1>3, <1>4, <1>5, <1>6, <1>7 DEF Moves

(* A Gateway stays one of a shard that has a lease.                        *)
LEMMA GateLeasedStep ==
    ASSUME LedgerInv, Shape, DurableInv, PassInv, NEW p \in Pools, NEW k \in Shards,
           GateMoves(p, k)
    PROVE  GateLeased(p, k)'
<1>1. Older(led[p], led'[p])
  BY Zenon, LedgerGrows
<1>2. ASSUME Touched(gate'[p][k]) PROVE \E u \in DOMAIN led[p] : led[p][u].shard = k
  <2>1. CASE Touched(gate[p][k])
    BY Zenon, <2>1 DEF PassInv, GateLeased, Touched
  <2>2. ASSUME NEW r \in Replicas, MadeBy(r, p, k)
        PROVE  \E u \in DOMAIN led[p] : led[p][u].shard = k
    <3>1. pc[r] = "gateways" /\ my[r].p = p /\ k \in my[r].todo
      BY Zenon, <2>2 DEF MadeBy
    <3>2. \E u \in DOMAIN my[r].a : my[r].a[u].shard = k
      BY Zenon, <3>1 DEF PassInv, RouteCopy
    <3>3. Older(my[r].a, led[p])
      BY Zenon, <3>1 DEF DurableInv, CopyOlder
    <3> QED BY Zenon, <3>2, <3>3 DEF Older
  <2> QED BY Zenon, <1>2, <2>1, <2>2 DEF GateMoves
<1> QED BY Zenon, <1>1, <1>2 DEF GateLeased, Touched, Older

(* PassInv holds at the start.                                             *)
LEMMA PassInvInit == Init => PassInv
<1> SUFFICES ASSUME Init PROVE PassInv
  BY Zenon
<1>1. /\ DOMAIN pool = Pools /\ DOMAIN archive = Pools
      /\ \A p \in Pools : pool[p] = NewPool /\ led[p] = NoLeases
  BY Zenon DEF Init
<1>2. plan \in PlanSet
  BY Zenon, GatewayPoolValid DEF Init
<1>3. \A u \in Routes : route[u].st \in RouteStates
  BY Zenon DEF Init, Unborn, RouteStates
<1>4. IsPool(NewPool) /\ NewPool.st = "none" /\ ~NewPool.fin /\ ~NewPool.frozen
  BY Zenon DEF NewPool, IsPool
<1>5. Justified(NoLeases, route)
  BY Zenon DEF Justified, NoLeases
<1>6. \A p \in Pools : PoolLife(p)
  BY Zenon, <1>1, <1>4, <1>5 DEF PoolLife
<1>7. \A r \in Replicas : PoolCopy(r) /\ RouteCopy(r)
  BY ZenonT(30) DEF Init, PoolCopy, RouteCopy, Listed
<1>8. \A p \in Pools, k \in Shards : GateLeased(p, k)
  <2>1. \A p \in Pools, k \in Shards :
           gate[p][k] = [st |-> "none", uid |-> 0, lst |-> {}]
    BY Zenon DEF Init
  <2> QED BY <2>1 DEF GateLeased
<1> QED BY Zenon, <1>1, <1>2, <1>3, <1>6, <1>7, <1>8 DEF PassInv

(* PassInv is inductive, however many replicas are in a pass.              *)
LEMMA PassInvStep ==
    ASSUME LedgerInv, DurableInv, PassInv, [Next]_vars
    PROVE  PassInv'
<1>1. Shape /\ \A q \in Replicas : Moves(q)
  BY Zenon, LedgerInvStep, StepMoves
<1>2. PoolMoves /\ ArchiveMoves /\ PlanMoves /\ RouteMoves
  BY Zenon, StepPools, StepArchive, StepPlan, StepRoutes
<1>3. \A p \in Pools, k \in Shards : GateMoves(p, k)
  BY Zenon, StepGates
<1>4. \A p \in Pools : PoolLife(p)'
  BY Zenon, <1>2, PoolLifeStep
<1>5. \A r \in Replicas : PoolCopy(r)' /\ RouteCopy(r)'
  BY <1>1, <1>2, PoolCopyStep, RouteCopyStep
<1>6. \A p \in Pools, k \in Shards : GateLeased(p, k)'
  BY Zenon, <1>1, <1>3, GateLeasedStep
<1>7. DOMAIN pool' = Pools /\ DOMAIN archive' = Pools /\ plan' \in PlanSet
  BY Zenon, <1>2 DEF PassInv, PoolMoves, OnlyPool, ArchiveMoves, PlanMoves
<1>8. \A u \in Routes : route'[u].st \in RouteStates
  BY Zenon, <1>2 DEF RouteMoves, Later
<1> QED BY Zenon, <1>4, <1>5, <1>6, <1>7, <1>8 DEF PassInv

(* When cleanup has let a pool go, its archive is its last ledger, however *)
(* many leaders overlapped on the way: the archive is compared with the    *)
(* copy that is then written, and a copy that is not refused is the pool.  *)
THEOREM ArchivesAreFaithful == Spec => []ArchiveFaithful
<1>1. LedgerInv /\ DurableInv /\ [Next]_vars => DurableInv'
  BY Zenon, DurableInvStep
<1>2. LedgerInv /\ DurableInv /\ PassInv /\ [Next]_vars => PassInv'
  BY Zenon, PassInvStep
<1>3. PassInv => ArchiveFaithful
  BY Zenon DEF PassInv, PoolLife, ArchiveFaithful
<1> QED BY <1>1, <1>2, <1>3, LedgerInvInit, LedgerInvStep, DurableInvInit, PassInvInit,
           PTL DEF Spec

(* A pass that takes a listener away does so for a retired lease.          *)
LEMMA RetiredListener ==
    ASSUME NEW A, NEW k, NEW L, L \subseteq Listeners(A, LeasesOn(A, k)),
           NEW l \in L \ desiredGateway(A, k)
    PROVE  l[1] \in DOMAIN A /\ A[l[1]].tomb
<1>1. PICK u \in LeasesOn(A, k) : l = <<u, A[u].port>>
  BY Zenon DEF Listeners
<1>2. ASSUME ~A[u].tomb PROVE FALSE
  <2> DEFINE active == {v \in LeasesOn(A, k) : ~A[v].tomb}
  <2>1. u \in active
    BY Zenon, <1>1, <1>2
  <2>2. desiredGateway(A, k) = Listeners(A, active)
    BY Zenon, <2>1 DEF desiredGateway
  <2> QED BY Zenon, <1>1, <2>1, <2>2 DEF Listeners
<1>3. l[1] = u /\ u \in DOMAIN A
  BY Zenon, <1>1 DEF LeasesOn
<1> QED BY Zenon, <1>2, <1>3

(* A pass that updates a Gateway takes no listener from a route that       *)
(* exists, though the ledger it works from may be old: what that ledger    *)
(* does not know stops it, and what it has retired belongs to a route that *)
(* is gone.                                                                *)
LEMMA ListenerStep ==
    ASSUME LedgerInv, DurableInv, PassInv, [Next]_vars, my' # my,
           NEW p \in Pools, NEW k \in Shards,
           gate[p][k].st = "live", gate'[p][k].st = "live",
           NEW l \in gate[p][k].lst \ gate'[p][k].lst
    PROVE  ~Exists(route[l[1]])
<1>1. PICK r \in Replicas, j \in Shards : \/ CreateGateway(r, j) \/ UpdateGateway(r, j)
                                          \/ DeleteGateway(r, j)
  <2>1. gate' # gate
    BY Zenon
  <2>2. ASSUME NEW r \in Replicas, PassOnly(r)
        PROVE  \E j \in Shards : \/ CreateGateway(r, j) \/ UpdateGateway(r, j)
                                 \/ DeleteGateway(r, j)
    BY Zenon, <2>1, <2>2 DEF PassOnly, ListRoutes, ListPools, RetireLease, EndScan,
       FinishPass, CreateArchive, CompareArchive, Abort, ChangeLeader, StartPass,
       KeepRoute, RecordAttached, Reserve, ReserveRefused, AttachRoute,
       GatewayRefused, RecordGateway, NextGateway
  <2>3. ~WorldOnly
    BY Zenon DEF WorldOnly, GatewayEvent, RestoreGateway, CollectGateway,
       FinishGateway, CreateRoute, DeleteRoute, Reannotate, Retarget, EditParent,
       AdapterHold, ReleaseRoute, ServiceEvent, ctlVars
  <2>4. ~PoolOnly
    BY Zenon, <2>1 DEF PoolOnly, CreatePool, DeletePool, EditSpec, AddPoolFinalizer,
       FreezeSpec, save, ReleasePool
  <2>5. ~UNCHANGED vars
    BY Zenon, <2>1 DEF vars
  <2> QED BY Zenon, <2>2, <2>3, <2>4, <2>5, StepKinds
<1>2. my[r].p \in Pools /\ pc[r] # "idle"
  BY Zenon,
     <1>1 DEF CreateGateway, UpdateGateway, DeleteGateway, AtGateway, LedgerInv, Ctl
<1>3. DOMAIN gate = Pools /\ \A q \in Pools : DOMAIN gate[q] = Shards
  BY Zenon DEF DurableInv
<1>4. CASE CreateGateway(r, j)
  <2>1. gate[my[r].p][j].st = "none"
    BY Zenon, <1>4 DEF CreateGateway, Gateway
  <2>2. PICK g : gate' = [gate EXCEPT ![my[r].p][j] = g]
    BY Zenon, <1>4 DEF CreateGateway
  <2> QED BY Zenon, <1>2, <1>3, <2>1, <2>2
<1>5. CASE DeleteGateway(r, j)
  <2>1. gate' = gate \/ gate' = [gate EXCEPT ![my[r].p][j].st = "deleting"]
    BY Zenon, <1>5 DEF DeleteGateway
  <2>2. IsGate(gate[my[r].p][j])
    BY Zenon, <1>2 DEF DurableInv, GateDurable
  <2> QED BY <1>2, <1>3, <2>1, <2>2 DEF IsGate
<1>6. CASE UpdateGateway(r, j)
  <2> DEFINE d == desiredGateway(my[r].a, j)
  <2>1. gate' = [gate EXCEPT ![my[r].p][j].lst = d]
    BY Zenon, <1>6 DEF UpdateGateway
  <2>2. gate[my[r].p][j].lst \subseteq Listeners(my[r].a, LeasesOn(my[r].a, j))
    BY Zenon, <1>6 DEF UpdateGateway, Sound, Gateway, compatibleGateway
  <2>3. IsGate(gate[my[r].p][j])
    BY Zenon, <1>2 DEF DurableInv, GateDurable
  <2> HIDE DEF d
  <2>4. p = my[r].p /\ k = j /\ gate'[p][k].lst = d
    BY Zenon, <1>2, <1>3, <2>1, <2>3 DEF IsGate
  <2>5. l[1] \in DOMAIN my[r].a /\ my[r].a[l[1]].tomb
    BY Zenon, <2>2, <2>4, RetiredListener DEF d
  <2>6. Justified(my[r].a, route)
    BY Zenon, <1>2 DEF PassInv, PoolCopy
  <2> QED BY Zenon, <2>5, <2>6 DEF Justified, Exists
<1> QED BY Zenon, <1>1, <1>4, <1>5, <1>6

(* A pass that updates a Gateway takes away no listener of a route that    *)
(* still exists, for any number of replicas with copies of any age:        *)
(* compatibleGateway refuses what an old ledger does not know.             *)
THEOREM ListenersAreKept == Spec => ListenerKept
<1> DEFINE Kept == my' # my => \A p \in Pools, k \in Shards :
              gate[p][k].st = "live" /\ gate'[p][k].st = "live" =>
                 \A l \in gate[p][k].lst \ gate'[p][k].lst : ~Exists(route[l[1]])
<1>1. LedgerInv /\ DurableInv /\ PassInv /\ [Next]_vars => Kept
  BY Zenon, ListenerStep
<1>2. LedgerInv /\ DurableInv /\ PassInv /\ [Next]_vars => PassInv'
  BY PassInvStep
<1>3. LedgerInv /\ DurableInv /\ PassInv /\ [Next]_vars => [Kept]_vars
  BY Zenon, <1>1
<1> HIDE DEF Kept
<1>4. Spec => [][Kept]_vars
  BY <1>2, <1>3, LedgerInvInit, LedgerInvStep, DurableInvInit, DurableInvStep,
     PassInvInit, PTL DEF Spec
<1> QED BY Zenon, <1>4 DEF ListenerKept, Kept

-----------------------------------------------------------------------------
(* One leader at a time.                                                   *)

(* While a pass is under way, nobody else writes a ledger or a record: the *)
(* pools it works on change only as users and the early steps change them. *)
Undisturbed ==
    /\ DOMAIN pool' = Pools
    /\ \A p \in Pools : /\ led'[p] = led[p]
                        /\ pool'[p] = pool[p] \/ Lives(pool[p], pool'[p])
(* With one leader, nobody else writes a ledger while it is in its pass.   *)
LEMMA OnlyTheLeader ==
    ASSUME LedgerInv, PassInv, SoleInv, Sole, PoolMoves,
           NEW q \in Replicas, pc[q] # "idle", pc'[q] # "idle"
    PROVE  Undisturbed
<1>1. ASSUME NEW r \in Replicas, NEW p \in Pools, Stores(r, p) \/ Releases(r, p)
      PROVE  FALSE
  <2>1. pc[r] # "idle" /\ pc'[r] = "idle"
    BY Zenon, <1>1 DEF Stores, Releases
  <2>2. r = leader /\ q = leader
    BY Zenon, <2>1 DEF SoleInv, SolePass
  <2> QED BY Zenon, <2>1, <2>2
<1>2. CASE pool' = pool /\ led' = led
  BY Zenon, <1>2 DEF Undisturbed, PassInv
<1>3. ASSUME NEW p \in Pools, OnlyPool(p), Lives(pool[p], pool'[p]), led'[p] = led[p]
      PROVE  Undisturbed
  BY Zenon, <1>3 DEF Undisturbed, OnlyPool
<1> QED BY Zenon, <1>1, <1>2, <1>3 DEF PoolMoves

(* A pool that comes to exist has no leases.                               *)
LEMMA NewPoolEmpty ==
    ASSUME PassInv, NEW p \in Pools,
           pool'[p] = pool[p] \/ Lives(pool[p], pool'[p]), Exists(pool'[p])
    PROVE  Exists(pool[p]) \/ led[p] = NoLeases
BY Zenon DEF PassInv, PoolLife, Lives, Exists

(* Hence the ledgers of other pools that it has listed get no new owner.   *)
LEMMA ApartKept ==
    ASSUME PassInv, Undisturbed, NEW A, NEW p \in Pools, Exists(pool[p]), Apart(A, p)
    PROVE  \A q \in Pools \ {p} : Exists(pool'[q]) => DOMAIN A \cap DOMAIN led'[q] = {}
<1> SUFFICES ASSUME NEW q \in Pools \ {p}, Exists(pool'[q])
             PROVE  DOMAIN A \cap DOMAIN led[q] = {}
  BY Zenon DEF Undisturbed
<1>1. Exists(pool[q]) \/ led[q] = NoLeases
  BY Zenon, NewPoolEmpty DEF Undisturbed
<1>2. DOMAIN NoLeases = {}
  BY Zenon DEF NoLeases
<1> QED BY Zenon, <1>1, <1>2 DEF Apart

(* What is proposed is in no other ledger.                                 *)
LEMMA ProposalApart ==
    ASSUME PassInv, SoleInv, Sole, NEW q \in Replicas, Proposes(q),
           Exists(pool[my[q].p])
    PROVE  Apart(my'[q].a, my[q].p)
<1>1. pc[q] # "idle"
  BY Zenon DEF Proposes
<1>2. SolePass(q) /\ RouteCopy(q)
  BY Zenon DEF SoleInv, PassInv
<1>3. Apart(my[q].a, my[q].p)
  BY Zenon, <1>1, <1>2 DEF SolePass
<1>4. CASE DOMAIN my'[q].a = DOMAIN my[q].a
  BY Zenon, <1>3, <1>4 DEF Apart
<1>5. ASSUME pc[q] = "scan", NEW u \in my[q].todo \ DOMAIN my[q].a,
             DOMAIN my'[q].a = DOMAIN my[q].a \cup {u}
      PROVE  Apart(my'[q].a, my[q].p)
  <2>1. u \notin my[q].others
    BY Zenon, <1>2, <1>5 DEF RouteCopy
  <2>2. \A o \in Pools \ {my[q].p} : Exists(pool[o]) => u \notin DOMAIN led[o]
    BY Zenon, <1>1, <1>2, <1>5, <2>1 DEF SolePass
  <2> QED BY Zenon, <1>3, <1>5, <2>2 DEF Apart
<1>6. \/ DOMAIN my'[q].a = DOMAIN my[q].a
      \/ pc[q] = "scan" /\ \E u \in my[q].todo \ DOMAIN my[q].a :
                              DOMAIN my'[q].a = DOMAIN my[q].a \cup {u}
  BY Zenon DEF Proposes, WithLease
<1> QED BY Zenon, <1>4, <1>5, <1>6

(* What the only leader knows of the world stays true to the end of its    *)
(* pass.                                                                   *)
LEMMA SolePassStep ==
    ASSUME LedgerInv, PassInv, SoleInv, Sole, PoolMoves, PlanMoves,
           NEW q \in Replicas, Moves(q), pc'[q] # "idle"
    PROVE  SolePass(q)'
<1>1. leader' = leader
  BY Zenon DEF PlanMoves
<1>2. pc[q] # "idle" => SolePass(q) /\ Undisturbed /\ my[q].p \in Pools
  BY Zenon, OnlyTheLeader DEF SoleInv, LedgerInv, Ctl
<1>3. ASSUME NEW p \in Pools, StartsOn(q, p) PROVE SolePass(q)'
  <2>1. Apart(led[p], p)
    BY Zenon DEF SoleInv
  <2>2. PICK m : m = my'[q]
    OBVIOUS
  <2>3. /\ q = leader /\ m.p = p /\ m.obj = pool[p] /\ m.a = led[p] /\ pool[p].fin
        /\ pool[p].st \in {"live", "deleting"} /\ pool' = pool /\ led' = led
        /\ pc'[q] \in {"routes", "archive"}
    BY Zenon, <1>3, <2>2 DEF StartsOn, SameWorld
  <2> QED BY Zenon, <1>1, <2>1, <2>2, <2>3 DEF SolePass, Apart
<1>4. CASE Stays(q)
  <2>1. my'[q] = my[q] /\ pc'[q] = pc[q] /\ pc[q] # "idle"
    BY Zenon, <1>4 DEF Stays
  <2> DEFINE p == my[q].p
  <2>2. /\ SolePass(q) /\ Undisturbed /\ p \in Pools
        /\ q = leader /\ pool[p].st \in {"live", "deleting"} /\ pool[p].fin
    BY Zenon, <1>2, <2>1 DEF SolePass
  <2>3. /\ pool'[p].st \in {"live", "deleting"} /\ pool'[p].fin
        /\ pool'[p].gws = pool[p].gws /\ led'[p] = led[p]
    BY Zenon, <2>2 DEF Undisturbed, Lives
  <2>4. \A o \in Pools \ {p} : Exists(pool'[o]) => DOMAIN my[q].a \cap DOMAIN led'[o] = {}
    <3>1. Exists(pool[p]) /\ Apart(my[q].a, p)
      BY ZenonT(30), <2>1, <2>2 DEF Exists, SolePass
    <3> QED BY ZenonT(30), <2>2, <3>1, ApartKept
  <2>5. pc[q] = "scan" => \A o \in Pools \ {p} :
             Exists(pool'[o]) => DOMAIN led'[o] \subseteq my[q].others
    <3> SUFFICES ASSUME pc[q] = "scan", NEW o \in Pools \ {p}, Exists(pool'[o])
                 PROVE  DOMAIN led[o] \subseteq my[q].others
      BY Zenon, <2>2 DEF Undisturbed
    <3>1. Exists(pool[o]) \/ led[o] = NoLeases
      BY Zenon, <2>2, NewPoolEmpty DEF Undisturbed
    <3>2. DOMAIN NoLeases = {}
      BY Zenon DEF NoLeases
    <3> QED BY Zenon, <2>1, <2>2, <3>1, <3>2 DEF SolePass
  <2> QED BY ZenonT(30), <1>1, <2>1, <2>2, <2>3, <2>4, <2>5 DEF SolePass, Apart
<1>5. CASE Lists(q) \/ Looks(q)
  <2>1. PICK m, n : m = my[q] /\ n = my'[q]
    BY Zenon
  <2>2. /\ SameWorld /\ n.p = m.p /\ n.a = m.a /\ n.obj = m.obj
        /\ pc[q] \notin {"idle", "save"} /\ pc'[q] # "save"
    BY ZenonT(30), <1>5, <2>1 DEF Lists, Looks, LooksAt, Sorts, SameBase
  <2>3. SolePass(q)
    BY ZenonT(30), <1>2, <2>2
  <2>4. pc'[q] = "scan" => \A o \in Pools \ {m.p} :
             Exists(pool[o]) => DOMAIN led[o] \subseteq n.others
    BY ZenonT(30),
       <1>5, <2>1, <2>2, <2>3 DEF Lists, Looks, LooksAt, Sorts, SolePass
  <2> QED BY ZenonT(30),
      <1>1, <2>1, <2>2, <2>3, <2>4 DEF SolePass, SameWorld, Apart
<1>6. CASE Proposes(q)
  <2>1. /\ SameWorld /\ my'[q].p = my[q].p /\ pc[q] # "idle" /\ pc'[q] = "save"
    BY Zenon, <1>6 DEF Proposes
  <2>2. SolePass(q) /\ Exists(pool[my[q].p])
    BY Zenon, <1>2, <2>1 DEF SolePass, Exists
  <2>3. Apart(my'[q].a, my[q].p)
    BY Zenon, <1>6, <2>2, ProposalApart
  <2> QED BY Zenon, <1>1, <2>1, <2>2, <2>3 DEF SolePass, SameWorld, Apart
<1> QED BY Zenon, <1>3, <1>4, <1>5, <1>6 DEF Moves, Ends

(* Whatever is written, the ledgers of the pools that exist stay apart.    *)
LEMMA LedgersApart ==
    ASSUME LedgerInv, PassInv, SoleInv, Sole, PoolMoves,
           NEW p \in Pools, NEW q \in Pools \ {p}, Exists(pool'[p]), Exists(pool'[q])
    PROVE  DOMAIN led'[p] \cap DOMAIN led'[q] = {}
<1>0. DOMAIN NoLeases = {}
  BY Zenon DEF NoLeases
<1>1. ASSUME \A o \in Pools : /\ led'[o] = led[o]
                              /\ pool'[o] = pool[o] \/ Lives(pool[o], pool'[o])
      PROVE  DOMAIN led'[p] \cap DOMAIN led'[q] = {}
  <2>1. \A o \in {p, q} : Exists(pool[o]) \/ led[o] = NoLeases
    BY Zenon, <1>1, NewPoolEmpty
  <2>2. Apart(led[p], p)
    BY Zenon DEF SoleInv
  <2> QED BY Zenon, <1>0, <1>1, <2>1, <2>2 DEF Apart
<1>2. ASSUME NEW o \in Pools, OnlyPool(o), NEW r \in Replicas, Stores(r, o)
      PROVE  DOMAIN led'[p] \cap DOMAIN led'[q] = {}
  <2>1. SolePass(r) /\ pc[r] # "idle" /\ my[r].p = o /\ led'[o] = my[r].a
    BY Zenon, <1>2 DEF Stores, SoleInv
  <2>2. Apart(my[r].a, o) /\ Exists(pool[o]) /\ Apart(led[p], p)
    BY Zenon, <2>1 DEF SolePass, Exists, SoleInv
  <2>3. \A x \in Pools \ {o} : pool'[x] = pool[x] /\ led'[x] = led[x]
    BY Zenon, <1>2 DEF OnlyPool
  <2>4. CASE p = o
    BY Zenon, <2>1, <2>2, <2>3, <2>4 DEF Apart
  <2>5. CASE q = o
    BY Zenon, <2>1, <2>2, <2>3, <2>5 DEF Apart
  <2>6. CASE p # o /\ q # o
    BY Zenon, <2>2, <2>3, <2>6 DEF Apart
  <2> QED BY Zenon, <2>4, <2>5, <2>6
<1>3. ASSUME NEW o \in Pools, OnlyPool(o), NEW r \in Replicas, Releases(r, o)
      PROVE  DOMAIN led'[p] \cap DOMAIN led'[q] = {}
  <2>1. PoolCopy(r) /\ pc[r] = "delete"
    BY Zenon, <1>3 DEF PassInv, Releases
  <2>2. IsPool(my[r].obj)
    BY Zenon, <2>1 DEF PoolCopy
  <2>3. pool'[o].st = "gone"
    BY Zenon, <1>3, <2>2 DEF Releases, IsPool
  <2>4. p # o /\ q # o
    BY Zenon, <2>3 DEF Exists
  <2>5. Apart(led[p], p)
    BY Zenon DEF SoleInv
  <2> QED BY Zenon, <1>3, <2>4, <2>5 DEF OnlyPool, Apart
<1>4. CASE pool' = pool /\ led' = led
  BY Zenon, <1>1, <1>4
<1>5. ASSUME NEW o \in Pools, OnlyPool(o), Lives(pool[o], pool'[o]), led'[o] = led[o]
      PROVE  DOMAIN led'[p] \cap DOMAIN led'[q] = {}
  BY Zenon, <1>1, <1>5 DEF OnlyPool
<1> QED BY Zenon, <1>2, <1>3, <1>4, <1>5 DEF PoolMoves

(* SoleInv is inductive.                                                   *)
LEMMA SoleInvStep ==
    ASSUME LedgerInv, DurableInv, PassInv, SoleInv, [Next]_vars
    PROVE  SoleInv'
<1>1. PoolMoves /\ PlanMoves /\ \A q \in Replicas : Moves(q)
  BY Zenon, StepPools, StepPlan, StepMoves
<1> SUFFICES ASSUME Sole
             PROVE  /\ \A r \in Replicas : SolePass(r)'
                    /\ \A p \in Pools : Apart(led[p], p)'
  BY Zenon, <1>1 DEF SoleInv, Sole, PlanMoves
<1>2. \A r \in Replicas : SolePass(r)'
  <2>1. ASSUME NEW r \in Replicas, pc'[r] = "idle" PROVE SolePass(r)'
    BY Zenon, <2>1 DEF SolePass
  <2> QED BY Zenon, <1>1, <2>1, SolePassStep
<1>3. \A p \in Pools : Apart(led[p], p)'
  BY Zenon, <1>1, LedgersApart DEF Apart
<1> QED BY Zenon, <1>2, <1>3

(* SoleInv holds at the start.                                             *)
LEMMA SoleInvInit == Init => SoleInv
<1> SUFFICES ASSUME Init PROVE SoleInv
  BY Zenon
<1>1. \A r \in Replicas : pc[r] = "idle"
  BY Zenon DEF Init
<1>2. \A p \in Pools : pool[p] = NewPool
  BY Zenon DEF Init
<1>3. ~Exists(NewPool)
  BY Zenon DEF Exists, NewPool
<1> QED BY Zenon, <1>1, <1>2, <1>3 DEF SoleInv, SolePass, Apart

(* The invariants together.                                                *)
AllPassInv == LedgerInv /\ DurableInv /\ PassInv /\ SoleInv
(* The invariants of the allocator, in every reachable state.              *)
LEMMA AllPassInvHolds == Spec => []AllPassInv
<1>1. Init => AllPassInv
  BY Zenon,
     LedgerInvInit, DurableInvInit, PassInvInit, SoleInvInit DEF AllPassInv
<1>2. AllPassInv /\ [Next]_vars => AllPassInv'
  BY Zenon,
     LedgerInvStep, DurableInvStep, PassInvStep, SoleInvStep DEF AllPassInv
<1> QED BY <1>1, <1>2, PTL DEF Spec

(* With one leader a route has a lease in one pool only: the pass that     *)
(* reserves has listed the ledgers of the other pools, and until its save  *)
(* nobody adds to them.                                                    *)
THEOREM RoutesHaveOnePool == Spec => []OnePoolPerRoute
<1>1. AllPassInv => OnePoolPerRoute
  BY Zenon DEF AllPassInv, SoleInv, Sole, Apart, OnePoolPerRoute
<1> QED BY <1>1, AllPassInvHolds, PTL

(* A Gateway that cleanup has seen gone stays gone.                        *)
NoBackups == plan.kinds \cap {"leader", "restore"} = {}
(* With one leader and no backups, a Gateway that is gone comes back only  *)
(* by a pass that holds a lease for it.                                    *)
LEMMA GoneStays ==
    ASSUME SoleInv, NoBackups, NEW p \in Pools, NEW k \in Shards, GateMoves(p, k),
           gate[p][k].st = "none", \A r \in Replicas : ~MadeBy(r, p, k)
    PROVE  gate'[p][k].st = "none"
BY Zenon DEF GateMoves, NoBackups

(* CleanInv is inductive: cleanup leaves a shard only when its Gateway is  *)
(* gone.                                                                   *)
LEMMA CleanInvStep ==
    ASSUME AllPassInv, CleanInv, [Next]_vars
    PROVE  CleanInv'
<1>0. LedgerInv /\ DurableInv /\ PassInv /\ SoleInv
  BY Zenon DEF AllPassInv
<1>1. /\ PoolMoves /\ PlanMoves /\ \A q \in Replicas : Moves(q)
      /\ \A p \in Pools, k \in Shards : GateMoves(p, k)
  BY <1>0, StepPools, StepPlan, StepMoves, StepGates
<1> SUFFICES ASSUME NoBackups
             PROVE  /\ \A p \in Pools, k \in Shards :
                          pool'[p].st = "gone" => gate'[p][k].st = "none"
                    /\ \A r \in Replicas : pc'[r] = "delete" =>
                          \A k \in Shards \ my'[r].todo : gate'[my'[r].p][k].st = "none"
  BY Zenon, <1>1 DEF CleanInv, NoBackups, PlanMoves
<1>2. Sole
  BY Zenon DEF NoBackups, Sole
<1>3. ASSUME NEW r \in Replicas, NEW p, NEW k, MadeBy(r, p, k)
      PROVE  r = leader /\ pool[p].st \in {"live", "deleting"} /\ pc[r] = "gateways"
  BY Zenon, <1>0, <1>2, <1>3 DEF SoleInv, SolePass, MadeBy
<1>4. ASSUME NEW p \in Pools, NEW k \in Shards, pool'[p].st = "gone"
      PROVE  gate'[p][k].st = "none"
  <2>1. CASE pool[p].st = "gone"
    <3>1. gate[p][k].st = "none"
      BY Zenon, <2>1 DEF CleanInv, NoBackups
    <3>2. \A r \in Replicas : ~MadeBy(r, p, k)
      BY Zenon, <1>3, <2>1
    <3> QED BY Zenon, <1>0, <1>1, <3>1, <3>2, GoneStays
  <2>2. CASE pool[p].st # "gone" /\ Lives(pool[p], pool'[p]) /\ gate' = gate
    <3>1. ~pool[p].fin
      BY Zenon, <1>4, <2>2 DEF Lives
    <3>2. PoolLife(p) /\ GateLeased(p, k)
      BY Zenon, <1>0 DEF PassInv
    <3>3. led[p] = NoLeases
      BY Zenon, <2>2, <3>1, <3>2 DEF PoolLife
    <3>4. DOMAIN NoLeases = {}
      BY Zenon DEF NoLeases
    <3> QED BY Zenon, <2>2, <3>2, <3>3, <3>4 DEF GateLeased
  <2>3. ASSUME NEW r \in Replicas, Stores(r, p) PROVE FALSE
    <3>1. PoolCopy(r) /\ pc[r] = "save"
      BY Zenon, <1>0, <2>3 DEF PassInv, Stores
    <3>2. IsPool(my[r].obj) /\ my[r].obj.st = "live"
      BY Zenon, <3>1 DEF PoolCopy, Serving, Listed
    <3>3. pool'[p].st = my[r].obj.st
      BY Zenon, <2>3, <3>2 DEF Stores, IsPool
    <3> QED BY Zenon, <1>4, <3>2, <3>3
  <2>4. ASSUME NEW r \in Replicas, Releases(r, p), gate' = gate
        PROVE  gate'[p][k].st = "none"
    BY Zenon, <2>4 DEF Releases, CleanInv, NoBackups
  <2> QED BY <1>1, <1>4, <2>1, <2>2, <2>3, <2>4 DEF PoolMoves, OnlyPool
<1>5. ASSUME NEW r \in Replicas, pc'[r] = "delete", NEW k \in Shards \ my'[r].todo
      PROVE  gate'[my'[r].p][k].st = "none"
  <2>1. CASE Stays(r)
    <3>1. /\ my'[r] = my[r] /\ pc[r] = "delete" /\ my[r].p \in Pools
          /\ gate[my[r].p][k].st = "none"
      BY ZenonT(30),
         <1>0, <1>5, <2>1 DEF Stays, LedgerInv, Ctl, CleanInv, NoBackups
    <3>2. r = leader
      BY ZenonT(30), <1>0, <1>2, <3>1 DEF SoleInv, SolePass
    <3>3. \A q \in Replicas : ~MadeBy(q, my[r].p, k)
      BY ZenonT(30), <1>3, <3>1, <3>2
    <3> QED BY Zenon, <1>0, <1>1, <3>1, <3>3, GoneStays
  <2>2. CASE Looks(r)
    <3>1. /\ gate' = gate /\ my'[r].p = my[r].p /\ pc[r] \in {"archive", "delete"}
          /\ LooksAt(r)
      BY ZenonT(30), <1>5, <2>2 DEF Looks, LooksAt, Sorts, SameWorld, SameBase
    <3>2. my[r].p \in Pools /\ my[r].a = led[my[r].p]
      BY ZenonT(30), <1>0, <1>2, <3>1 DEF LedgerInv, Ctl, SoleInv, SolePass
    <3>3. CASE pc[r] = "archive"
      <4>1. \A u \in DOMAIN my[r].a : my[r].a[u].shard \in my'[r].todo
        BY ZenonT(30), <3>1, <3>3 DEF LooksAt, Sorts
      <4>2. ~ \E u \in DOMAIN led[my[r].p] : led[my[r].p][u].shard = k
        BY Zenon, <3>2, <4>1
      <4>3. GateLeased(my[r].p, k)
        BY ZenonT(30), <1>0, <3>2 DEF PassInv
      <4> QED BY ZenonT(30), <3>1, <4>2, <4>3 DEF GateLeased
    <3>4. CASE pc[r] = "delete"
      <4>1. PICK j : my'[r].todo = my[r].todo \ {j} /\ gate[my[r].p][j].st = "none"
        BY Zenon, <3>1, <3>4 DEF LooksAt, Sorts
      <4> QED BY ZenonT(30), <3>1, <3>4, <4>1 DEF CleanInv, NoBackups
    <3> QED BY Zenon, <3>1, <3>3, <3>4
  <2>3. ~Ends(r) /\ ~Lists(r) /\ ~Proposes(r) /\ \A p \in Pools : ~StartsOn(r, p)
    BY Zenon, <1>5 DEF Ends, Lists, Proposes, StartsOn
  <2> QED BY ZenonT(30), <1>1, <2>1, <2>2, <2>3 DEF Moves
<1> QED BY Zenon, <1>4, <1>5

(* With one leader, and no Gateway restored from a backup, a pool that is  *)
(* gone has left no Gateway behind: cleanup goes through every shard that  *)
(* has a lease or a record, and a Gateway is only ever made for a lease.   *)
THEOREM PoolsOutliveGateways == Spec => []PoolOutlivesGateways
<1>1. Init => CleanInv
  <2> SUFFICES ASSUME Init PROVE CleanInv
    BY Zenon
  <2>1. /\ \A r \in Replicas : pc[r] = "idle"
        /\ \A p \in Pools : pool[p] = NewPool
    BY Zenon DEF Init
  <2>2. NewPool.st # "gone"
    BY Zenon DEF NewPool
  <2> QED BY Zenon, <2>1, <2>2 DEF CleanInv
<1>2. AllPassInv /\ CleanInv /\ [Next]_vars => CleanInv'
  BY CleanInvStep
<1>3. CleanInv => PoolOutlivesGateways
  BY Zenon DEF CleanInv, PoolOutlivesGateways
<1> QED BY <1>1, <1>2, <1>3, AllPassInvHolds, PTL DEF Spec

(* Of the steps of a pass only AttachRoute writes a route.                 *)
LEMMA WhoAttaches ==
    ASSUME [Next]_vars, my' # my, route' # route
    PROVE  \E r \in Replicas, u \in Routes : AttachRoute(r, u)
<1>1. ASSUME NEW r \in Replicas, PassOnly(r) PROVE \E u \in Routes : AttachRoute(r, u)
  BY Zenon, <1>1 DEF PassOnly, ListRoutes, ListPools, RetireLease, EndScan, FinishPass,
     CreateArchive, CompareArchive, Abort, ChangeLeader, StartPass, KeepRoute,
     RecordAttached, Reserve, ReserveRefused, CreateGateway, GatewayRefused,
     RecordGateway, UpdateGateway, NextGateway, DeleteGateway, routeVars
<1>2. ~WorldOnly
  BY Zenon DEF WorldOnly, GatewayEvent, RestoreGateway, CollectGateway,
     FinishGateway, CreateRoute, DeleteRoute, Reannotate, Retarget, EditParent,
     AdapterHold, ReleaseRoute, ServiceEvent, ctlVars
<1>3. ~PoolOnly
  BY Zenon DEF PoolOnly, CreatePool, DeletePool, EditSpec, AddPoolFinalizer,
     FreezeSpec, save, ReleasePool, routeVars
<1>4. ~UNCHANGED vars
  BY Zenon DEF vars, routeVars
<1> QED BY <1>1, <1>2, <1>3, <1>4, StepKinds

(* A pass of the only leader attaches no route on record as attached ...   *)
LEMMA NoReattachment ==
    ASSUME AllPassInv, Sole, [Next]_vars, my' # my, NEW p \in Pools,
           NEW u \in DOMAIN led[p], route[u].parent = NoParent,
           route'[u].parent = <<p, led[p][u].shard>>
    PROVE  ~led[p][u].attached
<1>0. LedgerInv /\ DurableInv /\ PassInv /\ SoleInv
  BY Zenon DEF AllPassInv
<1>1. u \in Routes /\ route'[u] # route[u]
  BY <1>0 DEF LedgerInv, IsLedger, NoParent
<1>2. PICK r \in Replicas, v \in Routes : AttachRoute(r, v)
  BY Zenon, <1>1, WhoAttaches
<1> DEFINE t == [my[r].rts[v] EXCEPT !.parent = <<my[r].p, my[r].a[v].shard>>,
                                     !.fin = TRUE]
<1>3. route' = route \/ route' = [route EXCEPT ![v] = t]
  BY Zenon, <1>2 DEF AttachRoute, WriteRoute, routeVars
<1>4. IsRoute(my[r].rts[v]) /\ DOMAIN route = Routes
  BY Zenon, <1>0 DEF DurableInv, CopyOlder
<1>5. t.parent = <<my[r].p, my[r].a[v].shard>>
  BY Zenon, <1>4 DEF IsRoute
<1> HIDE DEF t
<1>6. v = u /\ my[r].p = p
  BY <1>1, <1>3, <1>4, <1>5
<1>7. pc[r] = "gateways" /\ u \in Unattached(my[r])
  BY Zenon, <1>2, <1>6 DEF AttachRoute, AtAttach
<1>8. ~my[r].a[u].attached
  BY ZenonT(30), <1>0, <1>7 DEF Unattached, PassInv, RouteCopy, Known
<1>9. my[r].a = led[p]
  BY ZenonT(30), <1>0, <1>6, <1>7 DEF SoleInv, SolePass
<1> QED BY Zenon, <1>8, <1>9

(* ... and makes no Gateway in the place of one on record.                 *)
LEMMA NoReplacement ==
    ASSUME AllPassInv, Sole, [Next]_vars, my' # my, NEW p \in Pools, NEW k \in Shards,
           gate[p][k].st = "none", gate'[p][k].st = "live"
    PROVE  pool[p].gws[k] = 0
<1>0. LedgerInv /\ DurableInv /\ PassInv /\ SoleInv
  BY Zenon DEF AllPassInv
<1>1. GateMoves(p, k)
  BY Zenon, <1>0, StepGates
<1>2. PICK r \in Replicas : MadeBy(r, p, k)
  BY Zenon, <1>1 DEF GateMoves
<1> QED BY Zenon, <1>0, <1>2 DEF MadeBy, SoleInv, SolePass

(* "refusing silent reattachment", "refusing silent VIP replacement": the  *)
(* two lemmas above, for every behaviour with one leader.                  *)
THEOREM NothingIsSilentlyRepaired == Spec => NoSilentRepair
<1> DEFINE Honest == my' # my /\ "leader" \notin plan.kinds =>
              \A p \in Pools :
                 /\ \A u \in DOMAIN led[p] :
                       /\ route[u].parent = NoParent
                       /\ route'[u].parent = <<p, led[p][u].shard>>
                       => ~led[p][u].attached
                 /\ \A k \in Shards :
                       gate[p][k].st = "none" /\ gate'[p][k].st = "live"
                       => pool[p].gws[k] = 0
<1>1. AllPassInv /\ [Next]_vars => Honest
  BY Zenon, NoReattachment, NoReplacement DEF Sole
<1>2. AllPassInv /\ [Next]_vars => [Honest]_vars
  BY Zenon, <1>1
<1> HIDE DEF Honest
<1>3. Spec => [][Honest]_vars
  BY <1>2, AllPassInvHolds, PTL DEF Spec
<1> QED BY Zenon, <1>3 DEF NoSilentRepair, Honest
=============================================================================
