--------------------------- MODULE RouteAdmission ---------------------------
(***************************************************************************)
(* One UDPRoute and its Service on their way through the three validators: *)
(* the GatewayPool allocator (routeService), which spends a permanent      *)
(* lease, the Gateway adapter (desiredBinding), which writes the binding,  *)
(* and the engine, which spends the NLB lease and picks the ports that     *)
(* traffic and health probes go to.  The Service is edited meanwhile.      *)
(***************************************************************************)
EXTENDS Integers, FiniteSets

CONSTANTS
    Plans,      \* the starts, each with
                \*   routes: [mode, health, port, shape], the annotations, the
                \*     backend port, and whether rules and backendRef are the
                \*     ones allowed;
                \*   services: [uid, type, policy, publish, selector, live,
                \*     base, ports];
                \*   legacy: with a cluster binding of a release that did not
                \*     record node ports in its leases;
                \*   edits: bound on the number of edits of the Service
    Services,   \* what the Service may be edited into
    PodPorts    \* what a named target port may be in the Pod's containers

(* What the Kubernetes API makes sure of: the ports of a Service differ in *)
(* protocol or number, and in their names.                                 *)
ValidService(s) ==
    \A p, q \in s.ports :
        (p.proto = q.proto /\ p.port = q.port) \/ p.name = q.name => p = q

ASSUME AdmissionConstants ==
    /\ \A p \in Plans : /\ p.legacy \in BOOLEAN /\ p.edits \in Nat
                        /\ \A s \in p.services : ValidService(s)
    /\ \A s \in Services : ValidService(s)

Named == -1        \* targetPort is a name; 0: it is the Service port
WorkerHealth == 10256
NoBinding == [mode |-> "none"]

VARIABLES
    route, svc,   \* the UDPRoute and its Service
    podPort,      \* the container port behind a named target port
    lease,        \* the allocator has spent a permanent lease on the route
    binding,      \* spec of the TunnelBinding [mode, portName, health, off]
    alloc,        \* the engine's lease: [uid, nodePort], uid 0 for none
    out,          \* what the engine programmed: [ok, udp, to, probe], with
                  \* the node port of the backends, 0 for a Pod's
    before,       \* node port in use at the start, 0 without a legacy binding
    edits         \* edits of the Service still to come

vars == <<route, svc, podPort, lease, binding, alloc, out, before, edits>>

Nothing == [ok |-> FALSE, udp |-> 0, to |-> 0, probe |-> 0]

-----------------------------------------------------------------------------
UDP(s) == {p \in s.ports : p.proto = "UDP"}
TCP(s) == {p \in s.ports : p.proto = "TCP"}
nodePort(s, p) == IF s.base = 0 THEN 0 ELSE s.base + p.port
Target(p) == IF p.target = 0 THEN p.port ELSE p.target
podTargetPort(p) == IF p.target = Named THEN podPort ELSE Target(p)

(* The Service type and traffic policy a mode asks for.                    *)
serviceTypeOK(s, mode) ==
    CASE mode = "PodIP" -> s.type = "ClusterIP"
      [] mode = "NodePortCluster" -> s.type = "NodePort" /\ s.policy = "Cluster"
      [] mode = "NodePortLocal" -> s.type = "NodePort" /\ s.policy = "Local"
      [] OTHER -> FALSE

(* The health port: fixed for a cluster, where an annotation may only      *)
(* repeat it; 0 for an annotation that is missing or no port.              *)
health(r) == IF r.mode = "NodePortCluster" THEN WorkerHealth ELSE r.health
healthOK(r) == IF r.mode = "NodePortCluster" THEN r.health \in {0, WorkerHealth}
                                             ELSE r.health # 0

(* Mutant: the health port is not looked at.                               *)
routeServiceNoHealth(r, s) ==
    /\ r.shape /\ healthOK(r) /\ serviceTypeOK(s, r.mode)
    /\ s.live /\ ~s.publish /\ s.selector
    /\ \E p \in UDP(s) : /\ p.port = r.port /\ p.name # ""
                         /\ r.mode # "PodIP" => nodePort(s, p) # 0

(* routeService: the route may have a lease.  A named health target is     *)
(* left to the engine, which sees the Pod.                                 *)
routeService(r, s) ==
    /\ r.shape /\ healthOK(r) /\ serviceTypeOK(s, r.mode)
    /\ s.live /\ ~s.publish /\ s.selector
    /\ CASE r.mode = "NodePortLocal" ->
              Cardinality({p \in TCP(s) : p.port = health(r) /\ nodePort(s, p) # 0}) = 1
         [] r.mode = "PodIP" ->
              \E p \in TCP(s) : p.target = Named \/ Target(p) = health(r)
         [] OTHER -> TRUE
    /\ \E p \in UDP(s) : /\ p.port = r.port /\ p.name # ""
                         /\ r.mode # "PodIP" => nodePort(s, p) # 0

(* The UDP ports, and the TCP health ports, that desiredBinding counts.    *)
Selected(r, s) == {p \in UDP(s) : p.port = r.port}
HealthPorts(r, s) ==
    CASE r.mode = "NodePortLocal" -> {p \in TCP(s) : p.port = health(r)}
      [] r.mode = "PodIP" -> {p \in TCP(s) : p.target = Named \/ Target(p) = health(r)}
      [] OTHER -> {}

(* backendService and desiredBinding: whether the route can be bound ...   *)
Bindable(r, s) ==
    /\ r.shape /\ healthOK(r) /\ serviceTypeOK(s, r.mode)
    /\ s.live /\ s.selector /\ ~s.publish
    /\ Cardinality(Selected(r, s)) = 1 /\ \A p \in Selected(r, s) : p.name # ""
    /\ r.mode # "PodIP" => \A p \in Selected(r, s) \cup HealthPorts(r, s) : nodePort(s, p) # 0
    /\ r.mode = "PodIP" => HealthPorts(r, s) # {}
    /\ r.mode = "NodePortLocal" => Cardinality(HealthPorts(r, s)) = 1

(* ... and its binding: a local node port is probed on the node port of    *)
(* the TCP port that the annotation names.                                 *)
desiredBinding(r, s) ==
    [mode |-> IF r.mode = "NodePortLocal" THEN "NodePort" ELSE r.mode,
     portName |-> (CHOOSE p \in Selected(r, s) : TRUE).name,
     health |-> IF r.mode = "NodePortLocal"
                THEN nodePort(s, CHOOSE p \in HealthPorts(r, s) : TRUE) ELSE health(r),
     off |-> FALSE]

(* The start: a new route, or a binding an older release has served.       *)
Fresh == /\ lease = FALSE /\ binding = NoBinding /\ before = 0
         /\ alloc = [uid |-> 0, nodePort |-> 0] /\ out = Nothing
Inherited ==
    /\ route.mode = "NodePortCluster" /\ Bindable(route, svc) /\ svc.uid = 1
    /\ lease = TRUE /\ binding = desiredBinding(route, svc)
    /\ alloc = [uid |-> 1, nodePort |-> 0]
    /\ before = nodePort(svc, CHOOSE p \in Selected(route, svc) : TRUE)
    /\ out = [ok |-> TRUE, udp |-> route.port, to |-> before, probe |-> WorkerHealth]

Init == \E p \in Plans :
    /\ route \in p.routes /\ svc \in p.services /\ podPort \in PodPorts
    /\ edits = p.edits
    /\ IF p.legacy THEN Inherited ELSE Fresh

-----------------------------------------------------------------------------
(* The engine.                                                             *)

validateBindingService(b, s) ==
    CASE b.mode = "NodePortCluster" ->
           /\ b.health = WorkerHealth /\ s.type = "NodePort" /\ s.policy = "Cluster"
           /\ s.selector /\ ~s.publish
      [] b.mode = "NodePort" -> s.type = "NodePort"
      [] OTHER -> s.type = "ClusterIP" /\ s.selector

NamedUDP(b, s) == {p \in UDP(s) : p.name = b.portName}

(* clusterServicePort: one UDP port of that name, with a node port.        *)
clusterServicePort(b, s) ==
    /\ validateBindingService(b, s) /\ Cardinality(NamedUDP(b, s)) = 1
    /\ \A p \in NamedUDP(b, s) : nodePort(s, p) # 0

(* What is asked before a lease is spent.                                  *)
Leasable(b, s) == /\ validateBindingService(b, s)
                  /\ b.mode = "NodePortCluster" => clusterServicePort(b, s)

(* The part of Resolve, resolvePodIP and resolveCluster that looks at the  *)
(* Service and at the Pod's ports, with one ready Pod.                     *)
Resolvable(b, s) ==
    CASE b.mode = "NodePort" ->
           /\ s.type = "NodePort" /\ s.policy = "Local" /\ ~s.publish
           /\ \E p \in TCP(s) : nodePort(s, p) = b.health
           /\ \E p \in NamedUDP(b, s) : nodePort(s, p) # 0
      [] b.mode = "NodePortCluster" -> clusterServicePort(b, s)
      [] OTHER -> /\ validateBindingService(b, s) /\ ~s.publish
                  /\ Cardinality(NamedUDP(b, s)) = 1
                  /\ \E p \in TCP(s) : podTargetPort(p) = b.health

-----------------------------------------------------------------------------
(* The steps.                                                              *)

(* The allocator spends a lease on the route.                              *)
Admit == /\ ~lease /\ routeService(route, svc) /\ lease' = TRUE
         /\ UNCHANGED <<route, svc, podPort, binding, alloc, out, before, edits>>

(* sameBindingTarget                                                       *)
SameTarget(b, c) == b.mode = c.mode /\ b.portName = c.portName

(* Mutant: a binding is never changed.                                     *)
BindOnce == /\ lease /\ binding = NoBinding /\ Bindable(route, svc)
            /\ binding' = desiredBinding(route, svc)
            /\ UNCHANGED <<route, svc, podPort, lease, alloc, out, before, edits>>

(* The adapter creates or updates the binding, or suspends the one it has. *)
Bind == /\ lease
        /\ LET want == desiredBinding(route, svc)
               have == binding # NoBinding
           IN  binding' = IF Bindable(route, svc) /\ (have => SameTarget(binding, want))
                          THEN want
                          ELSE IF have THEN [binding EXCEPT !.off = TRUE] ELSE NoBinding
        /\ binding' # binding
        /\ UNCHANGED <<route, svc, podPort, lease, alloc, out, before, edits>>

(* The engine spends a lease on the binding: the Service UID, and in a     *)
(* cluster the node port, are part of it.                                  *)
Allocate ==
    /\ alloc.uid = 0 /\ binding # NoBinding /\ ~binding.off /\ Leasable(binding, svc)
    /\ alloc' = [uid |-> svc.uid, nodePort |->
                   IF binding.mode = "NodePortCluster"
                   THEN nodePort(svc, CHOOSE p \in NamedUDP(binding, svc) : TRUE) ELSE 0]
    /\ UNCHANGED <<route, svc, podPort, lease, binding, out, before, edits>>

(* Mutant: backends are not needed to prove the port.                      *)
verifyLegacyNodePortEmpty(port) == out.to \in {0, port}

(* The backends are there, and all use the Service's node port of today.   *)
verifyLegacyNodePort(port) == out.to # 0 /\ out.to = port

Udp == CHOOSE p \in NamedUDP(binding, svc) : TRUE
Current == ~binding.off /\ svc.uid = alloc.uid /\ svc.live

Migratable == /\ alloc.uid # 0 /\ alloc.nodePort = 0 /\ binding.mode = "NodePortCluster"
              /\ Current /\ clusterServicePort(binding, svc)
              /\ verifyLegacyNodePort(nodePort(svc, Udp))

(* An older lease gets its node port, before anything else is done.        *)
Migrate == /\ Migratable /\ alloc' = [alloc EXCEPT !.nodePort = nodePort(svc, Udp)]
           /\ UNCHANGED <<route, svc, podPort, lease, binding, out, before, edits>>

(* The engine resolves the binding and programs or clears its backend set. *)
Program ==
    LET good == /\ Current /\ Resolvable(binding, svc)
                /\ binding.mode = "NodePortCluster" =>
                      alloc.nodePort # 0 /\ nodePort(svc, Udp) = alloc.nodePort
    IN  /\ alloc.uid # 0 /\ ~Migratable
        /\ out' = IF good
                  THEN [ok |-> TRUE, udp |-> Udp.port, probe |-> binding.health,
                        to |-> IF binding.mode = "PodIP" THEN 0 ELSE nodePort(svc, Udp)]
                  ELSE Nothing
        /\ out' # out
        /\ UNCHANGED <<route, svc, podPort, lease, binding, alloc, before, edits>>

(* The Service is edited, or deleted and created again.                    *)
EditService == /\ edits > 0 /\ edits' = edits - 1
               /\ svc' \in Services \ {svc}
               /\ UNCHANGED <<route, podPort, lease, binding, alloc, out, before>>

Next == Admit \/ Bind \/ Allocate \/ Migrate \/ Program \/ EditService
Spec == Init /\ [][Next]_vars

(* Every reconciler is called again until it has nothing left to do.       *)
FairSpec == /\ Spec /\ WF_vars(Admit) /\ WF_vars(Bind) /\ WF_vars(Allocate)
            /\ WF_vars(Migrate) /\ WF_vars(Program)

-----------------------------------------------------------------------------
(* Properties.                                                             *)

(* The allocator spends a permanent lease only on a route that the adapter *)
(* binds and the engine leases and resolves, on the same Service: the three*)
(* validators agree.  A named health target is the one thing it cannot see.*)
NoWastedLease ==
    [][~lease /\ lease' =>
         /\ Bindable(route, svc)
         /\ LET b == desiredBinding(route, svc)
            IN  /\ Leasable(b, svc)
                /\ \/ Resolvable(b, svc)
                   \/ \E p \in TCP(svc) : p.target = Named]_vars

(* A probe that reaches what the route's annotation names.                 *)
ProbeRight ==
    CASE route.mode = "NodePortCluster" -> out.probe = 10256
      [] route.mode = "NodePortLocal" ->
           \E p \in TCP(svc) : p.port = route.health /\ out.probe = nodePort(svc, p)
      [] OTHER -> /\ out.probe = route.health
                  /\ \E p \in TCP(svc) : podTargetPort(p) = out.probe

(* Nothing that became permanent keeps the route from its valid Service:   *)
(* the port name of the binding, the Service UID and the cluster node port *)
(* of the lease, or a Pod without the health port.                         *)
Servable ==
    LET b == desiredBinding(route, svc)
    IN  /\ routeService(route, svc)
        /\ binding = NoBinding \/ SameTarget(binding, b)
        /\ alloc.uid \in {0, svc.uid}
        /\ b.mode = "NodePortCluster" /\ alloc.uid # 0 =>
              \A p \in Selected(route, svc) : nodePort(svc, p) = alloc.nodePort
        /\ b.mode = "PodIP" => Resolvable(b, svc)

(* Whatever edits of the Service came between the steps, in the end traffic*)
(* goes only to the UDP port the route names, and probes to the TCP port   *)
(* its annotation names: a binding made from an older Service is corrected *)
(* or suspended.  And a route that can be served is.                       *)
ServedRight ==
    <>[](/\ out.ok => out.udp = route.port /\ ProbeRight
         /\ Servable => out.ok)

(* A cluster lease of an older release gets the node port its backends had,*)
(* or none: no edit of the Service, between an upgrade and the migration   *)
(* or after a clearing, makes the engine adopt another port.  And traffic  *)
(* of a cluster binding goes to no other node port than the lease's.       *)
PortProved ==
    /\ before # 0 => alloc.nodePort \in {0, before}
    /\ out.ok /\ binding.mode = "NodePortCluster" => out.to \in {before, alloc.nodePort}
=============================================================================
