--------------------------- MODULE AdmissionProofs ---------------------------
(***************************************************************************)
(* Proofs about what allocator, adapter and engine let in.  RouteAdmission:*)
(* a route the allocator takes is one that adapter and engine take, on     *)
(* every Service the Kubernetes API lets exist; and the node port of a     *)
(* cluster lease is the one its backends had.  Capacity: the limits of the *)
(* three fit together, and the backends fit the NLB, for every spec of a   *)
(* GatewayPool.                                                            *)
(***************************************************************************)
EXTENDS RouteAdmission, Capacity, FiniteSetTheorems, TLAPS

-----------------------------------------------------------------------------
(* The validators.                                                         *)

(* serviceTypeOK accepts three modes.                                      *)
LEMMA Modes ==
    ASSUME NEW s, NEW mode, serviceTypeOK(s, mode)
    PROVE  mode \in {"PodIP", "NodePortCluster", "NodePortLocal"}
BY DEF serviceTypeOK

(* The UDP port of a number, or of a name, is one port of the Service.     *)
LEMMA OneSelected ==
    ASSUME NEW r, NEW s, ValidService(s), NEW p \in UDP(s), p.port = r.port
    PROVE  Selected(r, s) = {p}
BY DEF ValidService, Selected, UDP

(* A Service has one UDP port of a name, so that the engine finds the one  *)
(* the adapter meant.                                                      *)
LEMMA OneNamed ==
    ASSUME NEW b, NEW s, ValidService(s), NEW p \in UDP(s), b.portName = p.name
    PROVE  NamedUDP(b, s) = {p}
BY DEF ValidService, NamedUDP, UDP

(* The health port of a local node port is one port of the Service.        *)
LEMMA OneHealth ==
    ASSUME NEW r, NEW s, ValidService(s), r.mode = "NodePortLocal",
           Cardinality({p \in TCP(s) : p.port = health(r) /\ nodePort(s, p) # 0}) = 1
    PROVE  \E p \in TCP(s) : /\ p.port = health(r) /\ nodePort(s, p) # 0
                             /\ HealthPorts(r, s) = {p}
<1>1. {p \in TCP(s) : p.port = health(r) /\ nodePort(s, p) # 0} # {}
  BY FS_EmptySet
<1>2. PICK p \in TCP(s) : p.port = health(r) /\ nodePort(s, p) # 0
  BY <1>1
<1>3. \A q \in TCP(s) : q.port = health(r) => q = p
  BY <1>2 DEF ValidService, TCP
<1>4. HealthPorts(r, s) = {q \in TCP(s) : q.port = health(r)}
  BY DEF HealthPorts
<1>5. HealthPorts(r, s) = {p}
  BY <1>2, <1>3, <1>4
<1> QED
  BY <1>2, <1>5

(* What routeService accepts, desiredBinding binds, the engine leases, and *)
(* the resolvers resolve, unless it depends on the Pod.                    *)
LEMMA Agree ==
    ASSUME NEW r, NEW s, ValidService(s), routeService(r, s)
    PROVE  /\ Bindable(r, s)
           /\ Leasable(desiredBinding(r, s), s)
           /\ \/ Resolvable(desiredBinding(r, s), s)
              \/ \E p \in TCP(s) : p.target = Named
<1> DEFINE b == desiredBinding(r, s)
<1>1. /\ r.shape /\ healthOK(r) /\ serviceTypeOK(s, r.mode)
      /\ s.live /\ ~s.publish /\ s.selector
  BY DEF routeService
<1>2. PICK p \in UDP(s) : /\ p.port = r.port /\ p.name # ""
                          /\ r.mode # "PodIP" => nodePort(s, p) # 0
  BY DEF routeService
<1>3. Selected(r, s) = {p}
  BY <1>2, OneSelected
<1>4. (CHOOSE q \in Selected(r, s) : TRUE) = p
  BY <1>3
<1>5. b.portName = p.name /\ b.off = FALSE
  BY <1>4 DEF desiredBinding
<1>6. NamedUDP(b, s) = {p}
  BY <1>5, OneNamed
<1>7. Cardinality(Selected(r, s)) = 1 /\ Cardinality(NamedUDP(b, s)) = 1
  BY <1>3, <1>6, FS_Singleton
<1>8. CASE r.mode = "NodePortLocal"
  <2>1. PICK h \in TCP(s) : /\ h.port = health(r) /\ nodePort(s, h) # 0
                            /\ HealthPorts(r, s) = {h}
    BY <1>8, OneHealth DEF routeService
  <2>2. Cardinality(HealthPorts(r, s)) = 1
    BY <2>1, FS_Singleton
  <2>3. b.mode = "NodePort" /\ b.health = nodePort(s, h)
    BY <1>8, <2>1 DEF desiredBinding
  <2>4. s.type = "NodePort" /\ s.policy = "Local"
    BY <1>1, <1>8 DEF serviceTypeOK
  <2> HIDE DEF b
  <2>5. Bindable(r, s)
    BY <1>1, <1>2, <1>3, <1>7, <1>8, <2>1, <2>2 DEF Bindable
  <2>6. Leasable(b, s)
    BY <2>3, <2>4 DEF Leasable, validateBindingService
  <2>7. Resolvable(b, s)
    BY <1>1, <1>2, <1>6, <1>8, <2>1, <2>3, <2>4 DEF Resolvable
  <2> QED
    BY <2>5, <2>6, <2>7 DEF b
<1>9. CASE r.mode = "PodIP"
  <2>1. PICK h \in TCP(s) : h.target = Named \/ Target(h) = health(r)
    BY <1>9 DEF routeService
  <2>2. HealthPorts(r, s) # {}
    BY <1>9, <2>1 DEF HealthPorts
  <2>3. b.mode = "PodIP" /\ b.health = health(r)
    BY <1>9 DEF desiredBinding
  <2>4. s.type = "ClusterIP"
    BY <1>1, <1>9 DEF serviceTypeOK
  <2> HIDE DEF b
  <2>5. Bindable(r, s)
    BY <1>1, <1>2, <1>3, <1>7, <1>9, <2>2 DEF Bindable
  <2>6. Leasable(b, s) /\ validateBindingService(b, s)
    BY <1>1, <2>3, <2>4 DEF Leasable, validateBindingService
  <2>7. h.target # Named => podTargetPort(h) = b.health
    BY <2>1, <2>3 DEF podTargetPort
  <2>8. h.target # Named => Resolvable(b, s)
    BY <1>1, <1>7, <2>3, <2>6, <2>7 DEF Resolvable
  <2> QED
    BY <2>1, <2>5, <2>6, <2>8 DEF b
<1>10. CASE r.mode = "NodePortCluster"
  <2>1. HealthPorts(r, s) = {}
    BY <1>10 DEF HealthPorts
  <2>2. b.mode = "NodePortCluster" /\ b.health = WorkerHealth
    BY <1>10 DEF desiredBinding, health
  <2>3. s.type = "NodePort" /\ s.policy = "Cluster"
    BY <1>1, <1>10 DEF serviceTypeOK
  <2> HIDE DEF b
  <2>4. Bindable(r, s)
    BY <1>1, <1>2, <1>3, <1>7, <1>10, <2>1 DEF Bindable
  <2>5. validateBindingService(b, s)
    BY <1>1, <2>2, <2>3 DEF validateBindingService
  <2>6. clusterServicePort(b, s)
    BY <1>2, <1>6, <1>7, <1>10, <2>5 DEF clusterServicePort
  <2> QED
    BY <2>2, <2>4, <2>5, <2>6 DEF b, Leasable, Resolvable
<1> QED
  BY <1>1, <1>8, <1>9, <1>10, Modes

(* NoWastedLease, for every route and every Service that can exist:        *)
(* routeService spends no permanent lease on a route that desiredBinding   *)
(* or the engine refuses.                                                  *)
THEOREM LeasesAreUseful == Spec => NoWastedLease
<1> DEFINE Useful == ~lease /\ lease' =>
              /\ Bindable(route, svc)
              /\ LET b == desiredBinding(route, svc)
                 IN  /\ Leasable(b, svc)
                     /\ \/ Resolvable(b, svc)
                        \/ \E p \in TCP(svc) : p.target = Named
<1>1. Init => ValidService(svc)
  BY AdmissionConstants DEF Init
<1>2. ValidService(svc) /\ [Next]_vars => ValidService(svc)'
  <2> SUFFICES ASSUME ValidService(svc), [Next]_vars PROVE ValidService(svc')
    BY DEF ValidService
  <2>1. svc' = svc \/ svc' \in Services
    BY DEF Next, Admit, Bind, Allocate, Migrate, Program, EditService, vars
  <2> QED
    BY <2>1, AdmissionConstants
<1>3. ValidService(svc) /\ [Next]_vars => [Useful]_vars
  <2> SUFFICES ASSUME ValidService(svc), [Next]_vars, ~lease, lease'
               PROVE  Useful
    BY DEF Useful
  <2>1. routeService(route, svc)
    BY DEF Next, Admit, Bind, Allocate, Migrate, Program, EditService, vars
  <2> QED
    BY <2>1, Agree
<1> QED
  BY <1>1, <1>2, <1>3, PTL DEF Spec, NoWastedLease

-----------------------------------------------------------------------------
(* The node port of a cluster lease.                                       *)

ModeOf(r) == IF r.mode = "NodePortLocal" THEN "NodePort" ELSE r.mode
IsBinding(b) == b \in [mode : {b.mode}, portName : {b.portName},
                       health : {b.health}, off : {b.off}]

(* A binding keeps its mode; nothing is programmed without a lease; and    *)
(* while the lease of a cluster has no node port, what is programmed is    *)
(* what the older release left, or nothing.                                *)
PortInv ==
    /\ \/ binding = NoBinding /\ alloc.uid = 0
       \/ IsBinding(binding) /\ binding.mode = ModeOf(route)
    /\ alloc \in [uid : {alloc.uid}, nodePort : {alloc.nodePort}]
    /\ alloc.uid = 0 => out = Nothing /\ before = 0
    /\ before # 0 => /\ binding.mode = "NodePortCluster"
                     /\ alloc.nodePort \in {0, before}
    /\ binding.mode = "NodePortCluster" =>
          /\ alloc.nodePort = 0 => out.to \in {0, before}
          /\ out.ok => out.to \in {before, alloc.nodePort}

(* What desiredBinding makes is a binding, in the mode of its Gateway.     *)
LEMMA Desires ==
    ASSUME NEW r, NEW s
    PROVE  /\ IsBinding(desiredBinding(r, s))
           /\ desiredBinding(r, s).mode = ModeOf(r)
BY DEF desiredBinding, IsBinding, ModeOf

(* PortInv holds at the start.                                             *)
LEMMA PortInit == Init => PortInv
<1> SUFFICES ASSUME Init PROVE PortInv
  OBVIOUS
<1>1. CASE Fresh
  BY <1>1 DEF Fresh, PortInv, NoBinding, Nothing
<1>2. CASE Inherited
  <2>1. IsBinding(binding) /\ binding.mode = ModeOf(route) /\ route.mode = "NodePortCluster"
    BY <1>2, Desires DEF Inherited
  <2>2. alloc = [uid |-> 1, nodePort |-> 0] /\ out.to = before
    BY <1>2 DEF Inherited
  <2> QED
    BY <2>1, <2>2 DEF PortInv, ModeOf
<1> QED
  BY <1>1, <1>2 DEF Init

(* PortInv is inductive.                                                   *)
LEMMA PortNext == PortInv /\ [Next]_vars => PortInv'
<1> SUFFICES ASSUME PortInv, [Next]_vars PROVE PortInv'
  OBVIOUS
<1>1. CASE Admit \/ EditService \/ UNCHANGED vars
  <2>1. UNCHANGED <<binding, route, alloc, out, before>>
    BY <1>1 DEF Admit, EditService, vars
  <2> QED
    BY <2>1 DEF PortInv
<1>2. CASE Bind
  <2>1. UNCHANGED <<route, alloc, out, before>>
    BY <1>2 DEF Bind
  <2> DEFINE want == desiredBinding(route, svc)
  <2>2. /\ binding' # binding
        /\ \/ binding' = want /\ (binding # NoBinding => binding.mode = want.mode)
           \/ binding # NoBinding /\ binding' = [binding EXCEPT !.off = TRUE]
           \/ binding' = NoBinding /\ binding = NoBinding
    BY <1>2 DEF Bind, SameTarget
  <2>3. IsBinding(want) /\ want.mode = ModeOf(route)
    BY Desires
  <2> HIDE DEF want
  <2>4. /\ IsBinding(binding') /\ binding'.mode = ModeOf(route)
        /\ binding # NoBinding => binding'.mode = binding.mode
    <3>1. CASE binding' = want
      BY <2>2, <2>3, <3>1 DEF PortInv
    <3>2. CASE binding # NoBinding /\ binding' = [binding EXCEPT !.off = TRUE]
      BY Zenon, <3>2 DEF PortInv, IsBinding
    <3> QED
      BY <2>2, <3>1, <3>2
  <2>5. CASE binding = NoBinding
    <3>1. out = Nothing /\ before = 0
      BY <2>5 DEF PortInv, IsBinding, NoBinding
    <3> QED
      BY <2>1, <2>4, <3>1 DEF PortInv, Nothing
  <2>6. CASE binding # NoBinding
    BY <2>1, <2>4, <2>6 DEF PortInv
  <2> QED
    BY <2>5, <2>6
<1>3. CASE Allocate
  <2>1. /\ UNCHANGED <<binding, route, out, before>> /\ alloc.uid = 0
        /\ binding # NoBinding
        /\ alloc' \in [uid : {alloc'.uid}, nodePort : {alloc'.nodePort}]
    BY <1>3 DEF Allocate
  <2> QED
    BY <2>1 DEF PortInv, Nothing
<1>4. CASE Migrate
  <2>1. /\ UNCHANGED <<binding, route, out, before>>
        /\ alloc.nodePort = 0 /\ binding.mode = "NodePortCluster"
        /\ out.to # 0 /\ alloc' = [alloc EXCEPT !.nodePort = out.to]
    BY <1>4 DEF Migrate, Migratable, verifyLegacyNodePort
  <2>2. out.to = before
    BY <2>1 DEF PortInv
  <2>3. alloc'.uid = alloc.uid /\ alloc'.nodePort = before
        /\ alloc' \in [uid : {alloc'.uid}, nodePort : {alloc'.nodePort}]
    BY <2>1, <2>2 DEF PortInv
  <2> QED
    BY <2>1, <2>2, <2>3 DEF PortInv
<1>5. CASE Program
  <2>1. /\ UNCHANGED <<binding, route, alloc, before>> /\ alloc.uid # 0
        /\ \/ out' = Nothing
           \/ binding.mode = "NodePortCluster" =>
                 alloc.nodePort # 0 /\ out'.to = alloc.nodePort
    BY <1>5 DEF Program
  <2> QED
    BY <2>1 DEF PortInv, Nothing
<1> QED
  BY <1>1, <1>2, <1>3, <1>4, <1>5 DEF Next

(* PortProved, for every Service, every edit and every older binding: the  *)
(* engine gives a cluster lease no node port but the one its backends had  *)
(* (verifyLegacyNodePort), and forwards to no other.                       *)
THEOREM PortsAreProved == Spec => []PortProved
<1>1. Init => PortInv
  BY PortInit
<1>2. PortInv /\ [Next]_vars => PortInv'
  BY PortNext
<1>3. PortInv => PortProved
  BY DEF PortInv, PortProved
<1> QED
  BY <1>1, <1>2, <1>3, PTL DEF Spec

-----------------------------------------------------------------------------
(* The limits along the chain of one shard (Capacity).                     *)

(* The quotient gatewayWorkers computes, by what division means.           *)
LEMMA Quotient ==
    ASSUME NEW w \in 1..512
    PROVE  LET q == Budget \div w
           IN q \in Nat /\ w * q <= Budget /\ Budget < w * (q + 1)
BY SMT DEF Budget

(* Factors compare as their products do.                                   *)
LEMMA Factor ==
    ASSUME NEW w \in 1..512, NEW a \in Int, NEW q \in Nat, w * a < w * (q + 1)
    PROVE  a <= q
BY SMT

(* Products of numbers that are not negative grow with their factors.      *)
LEMMA Grow ==
    ASSUME NEW a \in Int, NEW b \in Int, NEW w \in Nat, a <= b
    PROVE  a * w <= b * w
<1>1. b - a \in Nat
  OBVIOUS
<1>2. (b - a) * w \in Nat
  BY <1>1
<1>3. (b - a) * w = b * w - a * w
  BY SMTT(30)
<1>4. a * w \in Int /\ b * w \in Int
  OBVIOUS
<1> QED
  BY <1>2, <1>3, <1>4

SpecType == [occ : Int, gateways : Int, start : Int, workers : Int]

(* A GatewayPool spec that Validate accepts is within the capacity that    *)
(* gatewayWorkers derives, and that capacity makes a valid NLBPool.        *)
LEMMA Fits ==
    ASSUME NEW s \in SpecType, Validate(s)
    PROVE  /\ s.workers \in 0..512
           /\ capacity(s.workers) \in 1..50 /\ s.occ \in 1..capacity(s.workers)
           /\ capacity(s.workers) * workerLimit(s.workers) <= Budget
<1> DEFINE w == workerLimit(s.workers)
           q == Budget \div w
<1>1. s.workers \in Int /\ s.occ \in 1..50 /\ w \in 1..512 /\ s.occ * w <= Budget
  BY DEF Validate, SpecType
<1>2. s.workers \in 0..512
  BY <1>1 DEF workerLimit
<1>3. q \in Nat /\ w * q <= Budget /\ Budget < w * (q + 1)
  BY Zenon, <1>1, Quotient
<1>4. capacity(s.workers) = MinOf(50, q)
  BY DEF capacity
<1> HIDE DEF w, q
<1>5. Budget \in Int
  BY DEF Budget
<1>6. w * s.occ < w * (q + 1)
  BY <1>1, <1>3, <1>5
<1>7. s.occ <= q
  <2>1. s.occ \in Int
    BY <1>1
  <2> QED
    BY <1>1, <1>3, <1>6, <2>1, Factor, Zenon
<1>8. MinOf(50, q) \in 1..50 /\ s.occ \in 1..MinOf(50, q) /\ MinOf(50, q) <= q
  BY <1>1, <1>3, <1>7 DEF MinOf
<1>9. MinOf(50, q) * w <= q * w
  <2>1. MinOf(50, q) \in Int /\ q \in Int /\ w \in Nat
    BY <1>1, <1>3, <1>8
  <2> QED
    BY <1>8, <2>1, Grow, Zenon
<1>10. MinOf(50, q) * w <= Budget
  BY <1>1, <1>3, <1>5, <1>8, <1>9
<1> QED
  BY <1>2, <1>4, <1>8, <1>10 DEF w

(* The inductive invariant: everything was made from one valid spec, and   *)
(* no step makes more of it than the spec allows.                          *)
ChainInv ==
    /\ spec \in SpecType
    /\ leased \in Nat /\ retired \in Nat /\ listeners \in Nat /\ retired <= leased
    /\ leased > 0 => Validate(spec) /\ leased <= spec.occ
    /\ listeners > 0 => Validate(spec) /\ listeners <= spec.occ
    /\ \/ pool = [occ |-> 0, workers |-> 0]
       \/ Validate(spec) /\ pool = [occ |-> capacity(spec.workers), workers |-> spec.workers]

(* ChainInv holds at the start.                                            *)
LEMMA ChainInit == CapacityInit => ChainInv
BY CapacityConstants DEF CapacityInit, ChainInv, SpecType

(* ChainInv is inductive.                                                  *)
LEMMA ChainNext == ChainInv /\ [CapacityNext]_capacityVars => ChainInv'
<1> SUFFICES ASSUME ChainInv, [CapacityNext]_capacityVars PROVE ChainInv'
  OBVIOUS
<1> USE DEF ChainInv
<1>1. CASE Reserve
  <2>1. leased + 1 <= spec.occ
    BY <1>1 DEF Reserve, Validate, SpecType
  <2> QED
    BY <1>1, <2>1 DEF Reserve
<1>2. CASE Retire
  BY <1>2 DEF Retire
<1>3. CASE WriteGateway
  <2>1. leased > 0 /\ Validate(spec) /\ leased <= spec.occ /\ spec.occ \in Int
    BY <1>3 DEF WriteGateway, SpecType
  <2>2. listeners' \in Nat /\ listeners' <= spec.occ
    BY <1>3, <2>1 DEF WriteGateway
  <2> QED
    BY <1>3, <2>1, <2>2 DEF WriteGateway
<1>4. CASE ensurePool
  BY <1>4 DEF ensurePool
<1>5. CASE AllocatePort \/ Observe \/ PinWorkers \/ \E i \in DOMAIN sets : StepBackends(i)
  BY <1>5 DEF AllocatePort, Observe, PinWorkers, StepBackends
<1>6. CASE UNCHANGED capacityVars
  BY <1>6 DEF capacityVars
<1> QED
  BY <1>1, <1>2, <1>3, <1>4, <1>5, <1>6 DEF CapacityNext

(* ChainInv implies NeverRefused.                                          *)
LEMMA ChainSafe == ChainInv => NeverRefused
<1> SUFFICES ASSUME ChainInv PROVE NeverRefused
  OBVIOUS
<1>1. ASSUME listeners > 0 PROVE validateGateway(listeners, spec.workers)
  BY <1>1, Fits DEF ChainInv, validateGateway
<1>2. ASSUME pool.occ > 0 PROVE ValidatePool(pool) /\ leased <= pool.occ
  <2>1. Validate(spec) /\ pool = [occ |-> capacity(spec.workers), workers |-> spec.workers]
    BY <1>2 DEF ChainInv
  <2>2. /\ spec.workers \in 0..512 /\ capacity(spec.workers) \in 1..50
        /\ spec.occ \in 1..capacity(spec.workers)
        /\ capacity(spec.workers) * workerLimit(spec.workers) <= Budget
    BY <2>1, Fits DEF ChainInv
  <2>3. ValidatePool(pool)
    BY <2>1, <2>2 DEF ValidatePool
  <2>4. leased <= pool.occ
    BY <2>1, <2>2 DEF ChainInv
  <2> QED
    BY <2>3, <2>4
<1> QED
  BY <1>1, <1>2 DEF NeverRefused

(* For every GatewayPool spec: the adapter accepts the allocator's Gateway,*)
(* the engine the adapter's NLBPool, and the NLBPool has a port for every  *)
(* lease of the allocator (Validate, gatewayWorkers, ValidatePool).        *)
THEOREM LimitsFit == CapacitySpec => []NeverRefused
<1>1. CapacityInit => ChainInv
  BY ChainInit
<1>2. ChainInv /\ [CapacityNext]_capacityVars => ChainInv'
  BY ChainNext
<1>3. ChainInv => NeverRefused
  BY ChainSafe
<1> QED
  BY <1>1, <1>2, <1>3, PTL DEF CapacitySpec

(* The backends of all sets but one, of at most L each, are no more than   *)
(* as many times L as there are other sets.                                *)
LEMMA TotalBound ==
    ASSUME sets \in Seq(Nat), NEW i \in DOMAIN sets, NEW L \in Nat,
           \A j \in DOMAIN sets : sets[j] <= L
    PROVE  /\ Len(sets) \in Nat
           /\ Total(DOMAIN sets \ {i}) \in Nat
           /\ Total(DOMAIN sets \ {i}) <= (Len(sets) - 1) * L
<1> DEFINE others == DOMAIN sets \ {i}
           grid == others \X (1..L)
           backends == UNION {{j} \X (1..sets[j]) : j \in others}
<1>1. Len(sets) \in Nat /\ DOMAIN sets = 1..Len(sets)
  OBVIOUS
<1>2. IsFiniteSet(DOMAIN sets) /\ Cardinality(DOMAIN sets) = Len(sets)
  <2>1. ASSUME NEW n \in Nat PROVE IsFiniteSet(1..n) /\ Cardinality(1..n) = n
    BY FS_Interval
  <2> QED BY Zenon, <1>1, <2>1
<1>3. IsFiniteSet(others) /\ Cardinality(others) = Len(sets) - 1
  BY Zenon, <1>2, FS_RemoveElement
<1>4. IsFiniteSet(1..L) /\ Cardinality(1..L) = L
  BY FS_Interval
<1>5. IsFiniteSet(grid) /\ Cardinality(grid) = (Len(sets) - 1) * L
  BY ZenonT(20), <1>3, <1>4, FS_Product
<1>6. backends \in SUBSET grid
  <2>1. ASSUME NEW j \in others PROVE {j} \X (1..sets[j]) \subseteq grid
    BY <2>1
  <2> HIDE DEF grid, others
  <2> QED BY <2>1
<1>7. IsFiniteSet(backends) /\ Cardinality(backends) <= Cardinality(grid)
  BY <1>5, <1>6, FS_Subset
<1>8. Cardinality(backends) \in Nat
  BY <1>7, FS_CardinalityType
<1> QED BY <1>1, <1>5, <1>7, <1>8 DEF Total

(* The inductive invariant for the backends: a pool has at most one set    *)
(* for each of its ports, and neither the recorded workers nor the         *)
(* backends of a set, whichever inventory they are of, exceed the limit.   *)
FillInv ==
    /\ ChainInv
    /\ nodes \in Nat /\ pinned \in Nat /\ sets \in Seq(Nat)
    /\ pool.occ = 0 => pinned = 0 /\ sets = <<>>
    /\ pinned <= workerLimit(pool.workers)
    /\ Len(sets) <= pool.occ
    /\ \A j \in DOMAIN sets : sets[j] <= workerLimit(pool.workers)

(* FillInv holds at the start.                                             *)
LEMMA FillInit == CapacityInit => FillInv
BY ChainInit, CapacityConstants DEF CapacityInit, FillInv, workerLimit

(* FillInv is inductive.                                                   *)
LEMMA FillNext == FillInv /\ [CapacityNext]_capacityVars => FillInv'
<1> SUFFICES ASSUME FillInv, [CapacityNext]_capacityVars PROVE FillInv'
  OBVIOUS
<1>0. ChainInv /\ ChainInv'
  BY ChainNext DEF FillInv
<1>1. CASE Reserve \/ Retire \/ WriteGateway \/ Observe
  BY Zenon, <1>0, <1>1, CapacityConstants DEF Reserve, Retire, WriteGateway, Observe, FillInv
<1>2. CASE ensurePool
  <2>1. pinned = 0 /\ sets = <<>> /\ pinned' = 0 /\ sets' = <<>> /\ nodes' = nodes
    BY <1>2 DEF ensurePool, FillInv
  <2>2. pool'.occ \in Nat /\ workerLimit(pool'.workers) \in Nat
    <3>1. /\ pool' = [occ |-> capacity(spec.workers), workers |-> spec.workers]
          /\ Validate(spec) /\ spec \in SpecType
      BY <1>0, <1>2 DEF ensurePool, ChainInv
    <3>2. capacity(spec.workers) \in 1..50 /\ spec.workers \in 0..512
      BY <3>1, Fits
    <3> QED BY <3>1, <3>2 DEF workerLimit
  <2> QED BY <1>0, <2>1, <2>2 DEF FillInv
<1>3. CASE AllocatePort
  <2>1. /\ pool.occ > 0 /\ Len(sets) < pool.occ /\ sets' = Append(sets, 0)
        /\ pool' = pool /\ pinned' = pinned /\ nodes' = nodes
    BY <1>3 DEF AllocatePort
  <2>2. pool.occ \in Nat /\ workerLimit(pool.workers) \in Nat
    <3>1. pool.workers \in 0..512
      BY <1>3 DEF AllocatePort, ValidatePool
    <3>2. pool.occ \in 1..50
      BY <1>3 DEF AllocatePort, ValidatePool
    <3> QED BY <3>1, <3>2 DEF workerLimit
  <2>3. sets' \in Seq(Nat) /\ Len(sets') = Len(sets) + 1
    BY <2>1 DEF FillInv
  <2>4. \A j \in DOMAIN sets' : sets'[j] = 0 \/ (j \in DOMAIN sets /\ sets'[j] = sets[j])
    BY <2>1 DEF FillInv
  <2> QED BY <1>0, <2>1, <2>2, <2>3, <2>4 DEF FillInv
<1>4. CASE PinWorkers
  <2>1. nodes \in Nat
    BY DEF FillInv
  <2> QED BY <1>0, <1>4, <2>1 DEF PinWorkers, FillInv
<1>5. ASSUME NEW i \in DOMAIN sets, StepBackends(i) PROVE FillInv'
  <2>1. PICK n \in Nat : n <= workerLimit(pool.workers) /\ sets' = [sets EXCEPT ![i] = n]
    BY Zenon, <1>5, CapacityConstants DEF StepBackends
  <2>2. pool' = pool /\ pinned' = pinned /\ nodes' = nodes
    BY <1>5 DEF StepBackends
  <2>3. sets # <<>>
    BY <1>5
  <2>4. sets' \in Seq(Nat) /\ Len(sets') = Len(sets) /\ DOMAIN sets' = DOMAIN sets
    BY <2>1 DEF FillInv
  <2>5. \A j \in DOMAIN sets' : sets'[j] = n \/ sets'[j] = sets[j]
    BY <2>1, <2>4 DEF FillInv
  <2> QED BY <1>0, <2>1, <2>2, <2>3, <2>4, <2>5 DEF FillInv
<1>6. CASE UNCHANGED capacityVars
  BY <1>0, <1>6 DEF capacityVars, FillInv
<1> QED BY <1>1, <1>2, <1>3, <1>4, <1>5, <1>6 DEF CapacityNext

(* FillInv implies BudgetNeverHit.                                         *)
LEMMA FillSafe == FillInv => BudgetNeverHit
<1> SUFFICES ASSUME FillInv, NEW i \in DOMAIN sets
             PROVE  validateBackendBudget(i, pinned)
  BY DEF BudgetNeverHit
<1> DEFINE L == workerLimit(pool.workers)
           n == Len(sets)
           T == Total(DOMAIN sets \ {i})
<1>1. pool.occ # 0
  <2>1. sets # <<>>
    OBVIOUS
  <2> QED BY <2>1 DEF FillInv
<1>2. /\ Validate(spec) /\ spec \in SpecType
      /\ pool = [occ |-> capacity(spec.workers), workers |-> spec.workers]
  BY <1>1 DEF FillInv, ChainInv
<1>3. /\ pool.occ \in Nat /\ L \in 1..512 /\ pool.occ * L <= Budget
  <2>1. /\ capacity(spec.workers) \in 1..50 /\ spec.workers \in 0..512
        /\ capacity(spec.workers) * workerLimit(spec.workers) <= Budget
    BY <1>2, Fits
  <2> QED BY <1>2, <2>1 DEF workerLimit
<1>4. pinned \in Nat /\ pinned <= L /\ sets \in Seq(Nat) /\ n <= pool.occ
  BY DEF FillInv
<1>5. \A j \in DOMAIN sets : sets[j] <= L
  BY DEF FillInv
<1>6. L \in Nat
  BY <1>3
<1> HIDE DEF L
<1>7. n \in Nat /\ T \in Nat /\ T <= (n - 1) * L
  BY <1>4, <1>5, <1>6, TotalBound
<1> HIDE DEF n, T
<1>8. n * L <= pool.occ * L
  <2>1. n \in Int /\ pool.occ \in Int
    BY <1>3, <1>7
  <2> QED BY Zenon, <1>4, <1>6, <2>1, Grow
<1>9. (n - 1) * L = n * L - L
  BY <1>6, <1>7
<1>10. n * L \in Int /\ pool.occ * L \in Int /\ Budget \in Int
  BY <1>3, <1>6, <1>7 DEF Budget
<1>11. pinned <= 512
  <2>1. L \in Int /\ L <= 512
    BY <1>3
  <2> QED BY <1>4, <2>1
<1>12. pinned + T <= Budget
  <2>1. ASSUME NEW a \in Int, NEW b \in Int, a <= b, b <= Budget, T <= a - L
        PROVE  pinned + T <= Budget
    BY <1>4, <1>6, <1>7, <1>10, <2>1
  <2>2. T <= n * L - L
    BY Zenon, <1>7, <1>9
  <2> QED BY Zenon, <1>3, <1>8, <1>10, <2>1, <2>2
<1> QED BY <1>11, <1>12 DEF validateBackendBudget, T

(* For every GatewayPool spec and every inventory: the check against 1024  *)
(* backends (validateBackendBudget) never refuses the recorded workers,    *)
(* whichever backend sets still have the workers of an earlier inventory.  *)
THEOREM BackendsFit == CapacitySpec => []BudgetNeverHit
<1>1. CapacityInit => FillInv
  BY FillInit
<1>2. FillInv /\ [CapacityNext]_capacityVars => FillInv'
  BY FillNext
<1>3. FillInv => BudgetNeverHit
  BY FillSafe
<1> QED
  BY <1>1, <1>2, <1>3, PTL DEF CapacitySpec
=============================================================================
