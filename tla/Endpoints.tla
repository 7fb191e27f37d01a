----------------------------- MODULE Endpoints -----------------------------
(***************************************************************************)
(* Endpoint resolution (internalcontroller): from a Service, its           *)
(* EndpointSlices, Pods and Nodes to the destinations of one binding.  A   *)
(* snapshot is four lists taken one after the other while Pods come and go,*)
(* addresses and names are used again, and the EndpointSlices lag behind.  *)
(* NLBEngine takes the outcome ("ok", "gap" or "bad") from here.           *)
(***************************************************************************)
EXTENDS Integers, FiniteSets

CONSTANTS
    Pods,       \* UIDs of Pods
    PodName,    \* their names; a name may be used again
    Nodes,      \* names of Nodes
    Addresses,  \* Pod addresses; a Pod on the host network has its node's
    Plans       \* bounds on what the cluster does in a behaviour

(* A plan bounds a behaviour: spec.mode of the binding, the Pods that may  *)
(* start and the Nodes there are, the kinds of event that happen, and how  *)
(* many there are at most.                                                 *)
PlanSet == [mode : {"PodIP", "NodePort", "NodePortCluster"},
            pods : SUBSET Pods, nodes : SUBSET Nodes,
            kinds : SUBSET STRING, left : Nat]

ASSUME EndpointConstants ==
    /\ Nodes \cap Addresses = {} /\ 0 \notin Pods /\ Pods # {}
    /\ Plans \subseteq PlanSet

VARIABLES
    svc,     \* the Service: uid, valid (validateBindingService), targetPort
    eps,     \* the endpoints of all EndpointSlices labelled with the Service
    pod,     \* the Pods of the namespace
    node,    \* the Nodes
    pc, snap,\* how far the snapshot is, and what it holds
    pinned,  \* status.workers of the pool: the UID of every node, or 0
    res,     \* the outcome of the last resolution
    held,    \* the destinations the load balancer is left with
    plan     \* the plan of the behaviour; plan.left events remain

Mode == plan.mode

objects == <<svc, eps, pod, node>>
vars == <<objects, pc, snap, pinned, res, held, plan>>

-----------------------------------------------------------------------------
Exists(x) == x.st \in {"live", "deleting"}
NoPod == [st |-> "none", ready |-> FALSE, match |-> TRUE, host |-> FALSE,
          node |-> "", ip |-> ""]

NoNode == [st |-> "gone", ready |-> FALSE, uid |-> 1]

(* What the EndpointSlice controller publishes for a Pod.                  *)
Endpoint(u) == [uid |-> u, own |-> svc.uid, port |-> svc.target,
                ip |-> pod[u].ip, node |-> pod[u].node,
                ready |-> pod[u].ready /\ pod[u].st = "live",
                term |-> pod[u].st = "deleting", serving |-> pod[u].ready]
Published == {Endpoint(u) : u \in {v \in Pods : Exists(pod[v]) /\ pod[v].match}}

(* An endpoint in a slice the Service does not own.                        *)
Stray == [uid |-> 0, own |-> 0, port |-> 1, ip |-> "", node |-> "",
          ready |-> TRUE, term |-> FALSE, serving |-> TRUE]

Fresh(service) == [svc |-> service, eps |-> {}, pod |-> [u \in Pods |-> NoPod],
                   node |-> [n \in Nodes |-> NoNode]]

Init ==
    /\ svc = [uid |-> 1, valid |-> TRUE, target |-> 1]
    /\ eps = {} /\ pod = [u \in Pods |-> NoPod]
    /\ plan \in Plans
    /\ node = [n \in Nodes |-> IF n \in plan.nodes
                              THEN [st |-> "live", ready |-> TRUE, uid |-> 1]
                              ELSE NoNode]
    /\ pc = "again"
    /\ snap = Fresh(svc)
    /\ pinned = [n \in Nodes |-> 0]
    /\ res = [k |-> "bad", at |-> {}] /\ held = {}

-----------------------------------------------------------------------------
(* newEndpointSnapshot: Services, EndpointSlices, Pods and Nodes, in this  *)
(* order, anew in every pass.  "again": no outcome belongs to the snapshot.*)

(* One of the events of the plan.                                          *)
Spend(kind) == /\ kind \in plan.kinds /\ plan.left > 0
               /\ plan' = [plan EXCEPT !.left = @ - 1]

Unresolved == UNCHANGED <<objects, pinned, res, held, plan>>

ListServices == /\ pc \in {"again", "idle"} /\ pc' = "slices"
                /\ snap' = Fresh(svc) /\ Unresolved
ListSlices == /\ pc = "slices" /\ pc' = "pods"
              /\ snap' = [snap EXCEPT !.eps = eps] /\ Unresolved

ListPods == /\ pc = "pods" /\ pc' = "nodes"
            /\ snap' = [snap EXCEPT !.pod = pod] /\ Unresolved
ListNodes == /\ pc = "nodes" /\ pc' = "resolve"
             /\ snap' = [snap EXCEPT !.node = node] /\ Unresolved

(* EndpointReadError: nothing is concluded from a list that fails.         *)
FailRead == /\ Spend("fail") /\ pc \in {"slices", "pods", "nodes"}
            /\ pc' = "again" /\ snap' = Fresh(svc)
            /\ UNCHANGED <<objects, pinned, res, held>>

-----------------------------------------------------------------------------
(* Resolution, of a snapshot s.                                            *)

Bad == [k |-> "bad", at |-> {}]
Gap(at) == [k |-> "gap", at |-> at]
Ok(at) == [k |-> "ok", at |-> at]

(* The Service is the one of the lease, and every slice is the Service's.  *)
Trusted(s) == /\ s.svc.uid = 1 /\ s.svc.valid
              /\ \A e \in s.eps : e.own = s.svc.uid
Active(s) == {e \in s.eps : ~e.term /\ e.ready}
Draining(s) == {e \in s.eps : e.term /\ e.serving}
Owners(E) == {e.uid : e \in E}

(* The Pod of that name has the UID, the labels, the node and the address. *)
readEndpointPod(s, e) ==
    \E u \in Pods : /\ PodName[u] = PodName[e.uid] /\ Exists(s.pod[u]) /\ u = e.uid
                    /\ s.pod[u].match
                    /\ e.node = s.pod[u].node /\ e.ip = s.pod[u].ip

podReady(s, u) == s.pod[u].ready /\ s.pod[u].st = "live"
Worker(s, n) == <<n, s.node[n].uid>>
nodeReady(s, n) == s.node[n].st = "live" /\ s.node[n].ready

(* slicePort and podTargetPort agree.                                      *)
SamePort(s, e) == e.port = s.svc.target

(* Mutant: any Pod that fits is accepted.                                  *)
resolvePodIPAny(s) ==
    LET A == Active(s)
        fit(e) == /\ readEndpointPod(s, e) /\ ~s.pod[e.uid].host
                  /\ podReady(s, e.uid) /\ SamePort(s, e)
                  /\ nodeReady(s, s.pod[e.uid].node)
    IN  IF \E e \in A : fit(e) THEN Ok({(CHOOSE e \in A : fit(e)).ip}) ELSE Bad

(* Every ready endpoint is a verified Pod off the host network, on a ready *)
(* node, and they are one and the same.  There is no gap in this mode.     *)
resolvePodIP(s) ==
    LET A == Active(s)
        fit(e) == /\ readEndpointPod(s, e) /\ ~s.pod[e.uid].host
                  /\ podReady(s, e.uid) /\ SamePort(s, e)
                  /\ nodeReady(s, s.pod[e.uid].node)
    IN  IF (\A e \in A : fit(e)) /\ Cardinality({<<e.uid, e.ip>> : e \in A}) = 1
        THEN Ok({e.ip : e \in A}) ELSE Bad

(* Mutant: Pods that drain are not looked at.                              *)
gapUnread(s) == Gap({})

(* gap: at most one Pod drains, and it is a Pod of the Service.            *)
gap(s) == IF /\ \A e \in Draining(s) : readEndpointPod(s, e)
             /\ Cardinality(Owners(Draining(s))) <= 1
          THEN Gap({}) ELSE Bad

(* Resolve in mode NodePort: one Pod, seen the same way in all slices.     *)
Resolve(s) ==
    LET A == Active(s)
        e == CHOOSE x \in A : TRUE
    IN  IF A = {} THEN gap(s)
        ELSE IF \/ Cardinality({<<x.uid, x.ip, x.node>> : x \in A}) # 1
                \/ ~readEndpointPod(s, e)
             THEN Bad
        ELSE IF ~podReady(s, e.uid) THEN gap(s)
        ELSE IF nodeReady(s, e.node)
             THEN Ok({Worker(s, e.node)}) ELSE Bad

(* Mutant: a worker is known by its name.                                  *)
clusterWorkersByName(s) ==
    [n \in Nodes |-> IF s.node[n].st # "live" THEN 0
                     ELSE IF pinned[n] # 0 THEN pinned[n]
                     ELSE IF s.node[n].ready THEN s.node[n].uid ELSE 0]

(* A node stays a worker when it is not ready, until it is deleted.        *)
clusterWorkers(s) ==
    [n \in Nodes |-> IF /\ s.node[n].st = "live"
                        /\ s.node[n].ready \/ pinned[n] = s.node[n].uid
                     THEN s.node[n].uid ELSE 0]

(* The workers are the destinations, ready endpoint or not.                *)
resolveCluster(s, ws) ==
    LET A == Active(s)
        D == Draining(s)
        fit(e) == readEndpointPod(s, e) /\ ~s.pod[e.uid].host /\ SamePort(s, e)
        ready == \E e \in A : podReady(s, e.uid) /\ nodeReady(s, s.pod[e.uid].node)
        at == {<<n, ws[n]>> : n \in {x \in Nodes : ws[x] # 0}}
    IN  IF \/ ~ \A e \in A : fit(e) /\ Exists(s.node[s.pod[e.uid].node])
           \/ Cardinality(Owners(A)) > 1 \/ at = {}
           \/ ~ready /\ ~((\A e \in D : fit(e)) /\ Cardinality(Owners(D)) <= 1)
        THEN Bad
        ELSE IF ready THEN Ok(at) ELSE Gap(at)

Outcome(s) == CASE ~Trusted(s) -> Bad
                [] OTHER -> CASE Mode = "PodIP" -> resolvePodIP(s)
                              [] Mode = "NodePort" -> Resolve(s)
                              [] OTHER -> resolveCluster(s, pinned)

(* prepareWorkers: a new inventory is saved, and the pass starts over.     *)
PinWorkers == /\ pc = "resolve" /\ Mode = "NodePortCluster"
              /\ clusterWorkers(snap) # pinned
              /\ pinned' = clusterWorkers(snap) /\ pc' = "again"
              /\ snap' = Fresh(svc) /\ UNCHANGED <<objects, res, held, plan>>

(* Mutant: what is there is kept without a look at its node.               *)
canRetainBackendBlindly(s, w) == TRUE

(* The node of a retained destination is there, ready, and the same.       *)
canRetainBackend(s, w) == nodeReady(s, w[1]) /\ Worker(s, w[1]) = w

(* A gap keeps a verified destination (the cluster's are its workers), a   *)
(* problem clears the backend set.                                         *)
Apply == /\ pc = "resolve" /\ pc' = "idle"
         /\ Mode = "NodePortCluster" => clusterWorkers(snap) = pinned
         /\ res' = Outcome(snap)
         /\ held' = IF res'.k = "gap" /\ Mode # "NodePortCluster"
                    THEN {w \in held : canRetainBackend(snap, w)} ELSE res'.at
         /\ UNCHANGED <<objects, snap, pinned, plan>>

Reconcile == ListServices \/ ListSlices \/ ListPods \/ ListNodes \/ PinWorkers \/ Apply

-----------------------------------------------------------------------------
(* The cluster.                                                            *)

Lag == UNCHANGED <<svc, pod, node, pc, snap, pinned, res, held, plan>>

(* The EndpointSlice controller catches up, one endpoint at a time: while  *)
(* it moves an endpoint between slices, both versions can be read.         *)
Publish(u) == /\ Exists(pod[u]) /\ pod[u].match /\ Endpoint(u) \notin eps
              /\ eps' = eps \cup {Endpoint(u)} /\ Lag
Withdraw == /\ \E e \in eps \ (Published \cup {Stray}) : eps' = eps \ {e}
            /\ Lag

Disturb(kind) == /\ Spend(kind)
                 /\ UNCHANGED <<pc, snap, pinned, res, held>>

Free(a) == \A v \in Pods : Exists(pod[v]) => pod[v].ip # a
SetPod(u, p) == pod' = [pod EXCEPT ![u] = p] /\ UNCHANGED <<svc, eps, node>>

(* A Pod starts, ready or not, on a node, with an address and a name no    *)
(* other Pod has at the time.                                              *)
StartPod(u) ==
    /\ Disturb("start") /\ u \in plan.pods /\ pod[u].st = "none"
    /\ \A v \in Pods : Exists(pod[v]) => PodName[v] # PodName[u]
    /\ \E n \in {x \in Nodes : node[x].st = "live"}, ready \in BOOLEAN :
         \/ \E a \in {x \in Addresses : Free(x)} :
              SetPod(u, [NoPod EXCEPT !.st = "live", !.ready = ready, !.node = n, !.ip = a])
         \/ /\ "host" \in plan.kinds
            /\ SetPod(u, [NoPod EXCEPT !.st = "live", !.ready = ready, !.node = n,
                                       !.ip = n, !.host = TRUE])
FlipReady(u) == /\ Disturb("ready") /\ Exists(pod[u])
                /\ SetPod(u, [pod[u] EXCEPT !.ready = ~@])
Relabel(u) == /\ Disturb("relabel") /\ Exists(pod[u])
              /\ SetPod(u, [pod[u] EXCEPT !.match = ~@])
Readdress(u) == /\ Disturb("readdress") /\ Exists(pod[u]) /\ ~pod[u].host
                /\ \E a \in {x \in Addresses : Free(x)} : SetPod(u, [pod[u] EXCEPT !.ip = a])
DeletePod(u) == /\ Disturb("delete") /\ pod[u].st = "live"
                /\ SetPod(u, [pod[u] EXCEPT !.st = "deleting"])
EndPod(u) == /\ Disturb("delete") /\ Exists(pod[u])
             /\ SetPod(u, [NoPod EXCEPT !.st = "gone"])

SetNode(n, x) == node' = [node EXCEPT ![n] = x] /\ UNCHANGED <<svc, eps, pod>>
FlipNode(n) == /\ Disturb("node") /\ Exists(node[n])
               /\ SetNode(n, [node[n] EXCEPT !.ready = ~@])
DeleteNode(n) == /\ Disturb("deleteNode") /\ Exists(node[n])
                 /\ \E st \in {"deleting", "gone"} \ {node[n].st} :
                      SetNode(n, [node[n] EXCEPT !.st = st])
RecreateNode(n) == /\ Disturb("deleteNode") /\ node[n].st = "gone"
                   /\ SetNode(n, [st |-> "live", ready |-> TRUE, uid |-> node[n].uid + 1])

(* The Service is edited, or deleted and created again; a slice that is    *)
(* not the Service's appears or goes.                                      *)
EditService ==
    /\ UNCHANGED <<eps, pod, node>>
    /\ \/ Disturb("retarget") /\ svc' = [svc EXCEPT !.target = 3 - @]
       \/ Disturb("edit") /\ svc' = [svc EXCEPT !.valid = ~@]
       \/ Disturb("recreate") /\ svc' = [svc EXCEPT !.uid = @ + 1]
StraySlice == /\ Disturb("stray") /\ UNCHANGED <<svc, pod, node>>
              /\ eps' = IF Stray \in eps THEN eps \ {Stray} ELSE eps \cup {Stray}

Next == \/ Reconcile \/ FailRead \/ Withdraw \/ EditService \/ StraySlice
        \/ \E u \in Pods : \/ Publish(u) \/ StartPod(u) \/ FlipReady(u) \/ Relabel(u)
                            \/ Readdress(u) \/ DeletePod(u) \/ EndPod(u)
        \/ \E n \in Nodes : FlipNode(n) \/ DeleteNode(n) \/ RecreateNode(n)

Spec == Init /\ [][Next]_vars

(* The pool is reconciled again and again, and the EndpointSlices catch up.*)
FairSpec == /\ Spec /\ WF_vars(Reconcile) /\ WF_vars(Withdraw)
            /\ \A u \in Pods : WF_vars(Publish(u))

-----------------------------------------------------------------------------
(* Properties.                                                             *)

(* A Pod that serves the Service, in a state x of the cluster.             *)
Serves(x, u) == x.pod[u].st = "live" /\ x.pod[u].ready /\ x.pod[u].match

(* What the load balancer is left with after a complete pass is still what *)
(* was verified, whatever happened between the four lists: a Pod address   *)
(* belonged to a serving Pod of the Service and to no other Pod, a node    *)
(* was the same one, not deleted, and (except for a cluster worker) ready. *)
HeldVerified ==
    pc = "idle" => \A w \in held :
        IF Mode = "PodIP"
        THEN \E u \in Pods : /\ Serves(snap, u) /\ ~snap.pod[u].host
                             /\ \A v \in Pods : (Exists(snap.pod[v]) /\ snap.pod[v].ip = w) <=> v = u
        ELSE /\ Worker(snap, w[1]) = w /\ snap.node[w[1]].st = "live"
             /\ Mode = "NodePort" => snap.node[w[1]].ready

(* Traffic is announced as programmed only for one Pod: it served the      *)
(* Service on a ready node, and no endpoint of another Pod was ready.  In  *)
(* mode NodePort the destination is the node that Pod runs on.             *)
OnePod ==
    pc = "idle" /\ res.k = "ok" =>
        \E u \in Pods : /\ Serves(snap, u) /\ nodeReady(snap, snap.pod[u].node)
                        /\ \A e \in snap.eps : e.ready /\ ~e.term => e.uid = u
                        /\ Mode = "NodePort" => res.at = {Worker(snap, snap.pod[u].node)}

(* A gap, in which existing destinations stay, is declared only when no    *)
(* Pod that serves from a ready node was listed as an endpoint, and the    *)
(* Pods that drain are one Pod of the Service, by UID and address.         *)
GapIsSafe ==
    pc = "idle" /\ res.k = "gap" =>
        /\ \A e \in snap.eps : e.ready /\ ~e.term =>
              ~(Serves(snap, e.uid) /\ nodeReady(snap, snap.pod[e.uid].node))
        /\ \E u \in Pods : \A e \in snap.eps : e.serving /\ e.term =>
              e.uid = u /\ Exists(snap.pod[u]) /\ snap.pod[u].match /\ snap.pod[u].ip = e.ip

(* What a binding's destinations should be, from Pods and Nodes alone.     *)
Truth ==
    LET R == {u \in Pods : pod[u].st = "live" /\ pod[u].ready /\ pod[u].match}
        D == {u \in Pods : pod[u].st = "deleting" /\ pod[u].ready /\ pod[u].match}
        on(u) == pod[u].node
        up(n) == node[n].st = "live" /\ node[n].ready
        one == Cardinality(R) = 1
        hostless(S) == \A u \in S : ~pod[u].host
        sound == svc.uid = 1 /\ svc.valid /\ Stray \notin eps
        workers == {<<n, pinned[n]>> : n \in {x \in Nodes : pinned[x] # 0}}
    IN  CASE Mode = "PodIP" ->
               IF sound /\ one /\ \A u \in R : ~pod[u].host /\ up(on(u))
               THEN Ok({pod[u].ip : u \in R}) ELSE Bad
          [] Mode = "NodePort" ->
               IF sound /\ R = {} /\ Cardinality(D) <= 1 THEN Gap({})
               ELSE IF sound /\ one /\ \A u \in R : up(on(u))
               THEN Ok({<<on(u), node[on(u)].uid>> : u \in R}) ELSE Bad
          [] OTHER ->
               IF ~sound \/ workers = {} \/ Cardinality(R) > 1 \/ ~hostless(R)
                  \/ \E u \in R : ~Exists(node[on(u)])
               THEN Bad
               ELSE IF one /\ \A u \in R : up(on(u)) THEN Ok(workers)
               ELSE IF Cardinality(D) <= 1 /\ hostless(D) THEN Gap(workers) ELSE Bad

(* Once the cluster is quiet, the outcome becomes and stays the one that   *)
(* Pods and Nodes alone determine: no torn read, old endpoint or reused    *)
(* name or address leaves a binding refused or wrong for good.  A pinned   *)
(* worker is a node that exists and is the same.                           *)
EventuallyTruth ==
    <>[](/\ res = Truth
         /\ \A n \in Nodes : pinned[n] # 0 => node[n].st = "live" /\ pinned[n] = node[n].uid
         /\ Mode = "NodePortCluster" => \A n \in Nodes :
               node[n].st = "live" /\ node[n].ready => pinned[n] # 0)

=============================================================================
