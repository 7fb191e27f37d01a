-------------------------- MODULE MCRouteAdmission --------------------------
(* Instances of RouteAdmission for TLC.  Ports 1 and 2 are UDP, 8 and 9    *)
(* TCP; as in the Kubernetes API (ValidService) a Service with several     *)
(* ports names them all, and only a node port Service has node ports.      *)
EXTENDS RouteAdmission

Port(name, proto, port, target) ==
    [name |-> name, proto |-> proto, port |-> port, target |-> target]

UDPSets == {{Port("u", "UDP", 1, 0)}, {Port("u", "UDP", 1, 0), Port("v", "UDP", 2, 0)},
            {Port("v", "UDP", 1, 0), Port("u", "UDP", 2, 0)}}
TCPSets == {{}, {Port("h", "TCP", 8, 0)}, {Port("h", "TCP", 8, 9)},
            {Port("h", "TCP", 8, Named)},
            {Port("h", "TCP", 8, 9), Port("i", "TCP", 9, 8)}}
PortSets == {u \cup t : u \in UDPSets, t \in TCPSets} \cup {{Port("", "UDP", 1, 0)}}

Kinds == {<<"ClusterIP", "", 0>>, <<"NodePort", "Cluster", 30>>,
          <<"NodePort", "Local", 30>>, <<"NodePort", "Local", 31>>,
          <<"NodePort", "Cluster", 31>>, <<"LoadBalancer", "Local", 0>>}
Service(uid, k, ports, publish, selector, live) ==
    [uid |-> uid, type |-> k[1], policy |-> k[2], base |-> k[3], ports |-> ports,
     publish |-> publish, selector |-> selector, live |-> live]

AllServices == {Service(1, k, ports, pub, sel, live) :
                  k \in Kinds, ports \in PortSets, pub \in BOOLEAN,
                  sel \in BOOLEAN, live \in BOOLEAN}
AllRoutes == [mode : {"PodIP", "NodePortCluster", "NodePortLocal", "other"},
              health : {0, 8, 9, WorkerHealth}, port : {1, 2}, shape : BOOLEAN]

(* Services that one edit turns into another, and routes that fit some.    *)
EditedServices ==
    {Service(uid, k, ports, FALSE, TRUE, TRUE) :
       uid \in {1, 2}, k \in Kinds, ports \in {p \in PortSets : Cardinality(p) > 2}}
    \cup {Service(1, k, {Port("u", "UDP", 1, 0), Port("h", "TCP", 8, 0)}, pub, TRUE, live) :
           k \in Kinds, pub \in BOOLEAN, live \in BOOLEAN}
FitRoutes == [mode : {"PodIP", "NodePortCluster", "NodePortLocal"},
              health : {0, 8}, port : {1}, shape : {TRUE}]

(* Every route with every Service, unedited; a route whose Service is      *)
(* edited twice; a binding of an older release, with three edits.          *)
Plan(rs, ss, legacy, n) ==
    [routes |-> rs, services |-> ss, legacy |-> legacy, edits |-> n]
AdmissionPlans == {Plan(AllRoutes, AllServices, FALSE, 0),
                   Plan(FitRoutes, EditedServices, FALSE, 2),
                   Plan(FitRoutes, EditedServices, TRUE, 3)}
=============================================================================
