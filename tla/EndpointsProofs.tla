-------------------------- MODULE EndpointsProofs --------------------------
(***************************************************************************)
(* Proofs about endpoint resolution: whatever the cluster does between the *)
(* four lists of a snapshot, the outcome is justified by what they show.   *)
(* The invariant says that after a complete pass outcome and destinations  *)
(* are those of the snapshot, that the Pods in it were read in one piece,  *)
(* and that no two of them shared an address.                              *)
(***************************************************************************)
EXTENDS Endpoints, FiniteSetTheorems, TLAPS

IsPod(x) == x \in [st : {x.st}, ready : BOOLEAN, match : BOOLEAN, host : BOOLEAN,
                   node : {x.node}, ip : {x.ip}]
IsSnap(s) == s \in [svc : {s.svc}, eps : {s.eps}, pod : {s.pod}, node : {s.node}]

(* A Pod on the host network has the address of a node.                    *)
Addressed(x) == Exists(x) => x.ip \in IF x.host THEN Nodes ELSE Addresses

(* The Pods of a namespace: an address off the host network is one Pod's.  *)
Distinct(P) ==
    /\ P = [u \in Pods |-> P[u]]
    /\ \A u \in Pods : IsPod(P[u]) /\ Addressed(P[u])
    /\ \A u, v \in Pods :
          Exists(P[u]) /\ ~P[u].host /\ Exists(P[v]) /\ P[u].ip = P[v].ip => u = v

(* After a pass: the outcome is the snapshot's, the workers are the ones   *)
(* recorded, and what a gap retains was looked at.                         *)
Passed ==
    /\ res = Outcome(snap)
    /\ Mode = "NodePortCluster" => clusterWorkers(snap) = pinned
    /\ IF res.k = "gap" /\ Mode # "NodePortCluster"
       THEN \A w \in held : canRetainBackend(snap, w) ELSE held = res.at

EndInv ==
    /\ plan \in PlanSet
    /\ Distinct(pod) /\ IsFiniteSet(eps)
    /\ IsSnap(snap) /\ Distinct(snap.pod) /\ IsFiniteSet(snap.eps)
    /\ pc = "idle" => Passed

-----------------------------------------------------------------------------
(* The Pods.                                                               *)

(* Before there are Pods, all addresses are distinct.                      *)
LEMMA NoPods == Distinct([u \in Pods |-> NoPod])
BY Zenon DEF Distinct, IsPod, Addressed, Exists, NoPod

(* One Pod changes; it takes no address of another Pod.                    *)
LEMMA OnePodChanges ==
    ASSUME NEW P, Distinct(P), NEW u \in Pods, NEW p, IsPod(p), Addressed(p),
           Exists(p) /\ ~p.host =>
              \A v \in Pods : Exists(P[v]) /\ v # u => P[v].ip # p.ip
    PROVE  Distinct([P EXCEPT ![u] = p])
<1> DEFINE Q == [P EXCEPT ![u] = p]
<1>1. /\ Q = [x \in Pods |-> Q[x]] /\ Q[u] = p
      /\ \A x \in Pods : x # u => Q[x] = P[x]
  BY DEF Distinct
<1>2. ASSUME NEW x \in Pods PROVE IsPod(Q[x]) /\ Addressed(Q[x])
  BY <1>1 DEF Distinct
<1> HIDE DEF Q
<1>3. ASSUME NEW x \in Pods, NEW y \in Pods, Exists(Q[x]), ~Q[x].host, Exists(Q[y]),
             Q[x].ip = Q[y].ip, x # y
      PROVE  FALSE
  <2>1. CASE x # u /\ y # u
    BY <1>1, <1>3, <2>1 DEF Distinct
  <2>2. CASE x = u
    BY <1>1, <1>3, <2>2
  <2>3. CASE y = u /\ p.host
    BY <1>1, <1>2, <1>3, <2>3, EndpointConstants DEF Addressed
  <2>4. CASE y = u /\ ~p.host
    BY <1>1, <1>3, <2>4
  <2> QED
    BY <2>1, <2>2, <2>3, <2>4
<1> QED
  BY <1>1, <1>2, <1>3 DEF Distinct, Q

(* Every event of a Pod leaves the addresses distinct.                     *)
LEMMA PodEvents ==
    ASSUME EndInv, NEW u \in Pods,
           \/ StartPod(u) \/ FlipReady(u) \/ Relabel(u) \/ Readdress(u)
           \/ DeletePod(u) \/ EndPod(u)
    PROVE  Distinct(pod')
<1> DEFINE x == pod[u]
<1>1. Distinct(pod) /\ IsPod(x) /\ Addressed(x)
  BY DEF EndInv, Distinct
<1>2. \A v \in Pods : (Exists(x) /\ ~x.host /\ Exists(pod[v]) /\ v # u) => pod[v].ip # x.ip
  BY <1>1 DEF Distinct
<1>3. ASSUME NEW p, SetPod(u, p), IsPod(p), Addressed(p),
             Exists(p) /\ ~p.host =>
                \A v \in Pods : Exists(pod[v]) /\ v # u => pod[v].ip # p.ip
      PROVE  Distinct(pod')
  BY <1>1, <1>3, OnePodChanges, Zenon DEF SetPod
<1>4. CASE FlipReady(u)
  <2> DEFINE p == [x EXCEPT !.ready = ~@]
  <2>1. IsPod(p) /\ p.st = x.st /\ p.host = x.host /\ p.ip = x.ip
    BY Zenon, <1>1 DEF IsPod
  <2>2. SetPod(u, p)
    BY <1>4 DEF FlipReady
  <2> QED
    BY Zenon, <1>1, <1>2, <1>3, <2>1, <2>2 DEF Exists, Addressed
<1>5. CASE Relabel(u)
  <2> DEFINE p == [x EXCEPT !.match = ~@]
  <2>1. IsPod(p) /\ p.st = x.st /\ p.host = x.host /\ p.ip = x.ip
    BY Zenon, <1>1 DEF IsPod
  <2>2. SetPod(u, p)
    BY <1>5 DEF Relabel
  <2> QED
    BY Zenon, <1>1, <1>2, <1>3, <2>1, <2>2 DEF Exists, Addressed
<1>6. CASE Readdress(u)
  <2>1. PICK a \in Addresses : Free(a) /\ SetPod(u, [x EXCEPT !.ip = a]) /\ ~x.host
    BY <1>6 DEF Readdress
  <2> DEFINE p == [x EXCEPT !.ip = a]
  <2>2. IsPod(p) /\ p.host = x.host /\ p.ip = a
    BY <1>1 DEF IsPod
  <2> QED
    <3>1. Addressed(p) /\ \A v \in Pods : Exists(pod[v]) /\ v # u => pod[v].ip # p.ip
      BY <2>1, <2>2 DEF Free, Addressed
    <3> QED
      BY <1>3, <2>1, <2>2, <3>1, Zenon
<1>7. CASE DeletePod(u)
  <2> DEFINE p == [x EXCEPT !.st = "deleting"]
  <2>1. IsPod(p) /\ p.host = x.host /\ p.ip = x.ip
    BY <1>1 DEF IsPod
  <2>2. SetPod(u, p) /\ Exists(x)
    BY <1>7 DEF DeletePod, Exists
  <2> QED
    BY ZenonT(30), <1>1, <1>2, <1>3, <2>1, <2>2 DEF Addressed
<1>8. CASE EndPod(u)
  <2> DEFINE p == [NoPod EXCEPT !.st = "gone"]
  <2>1. IsPod(p) /\ ~Exists(p)
    BY Zenon DEF IsPod, NoPod, Exists
  <2>2. SetPod(u, p)
    BY <1>8 DEF EndPod
  <2> QED
    BY <1>3, <2>1, <2>2 DEF Addressed
<1>9. CASE StartPod(u)
  <2>1. PICK n \in Nodes, ready \in BOOLEAN :
           \/ \E a \in {y \in Addresses : Free(y)} :
                SetPod(u, [NoPod EXCEPT !.st = "live", !.ready = ready, !.node = n, !.ip = a])
           \/ SetPod(u, [NoPod EXCEPT !.st = "live", !.ready = ready, !.node = n,
                                      !.ip = n, !.host = TRUE])
    BY Zenon, <1>9 DEF StartPod
  <2>2. CASE \E a \in {y \in Addresses : Free(y)} :
                SetPod(u, [NoPod EXCEPT !.st = "live", !.ready = ready, !.node = n, !.ip = a])
    <3>1. PICK a \in Addresses : /\ Free(a)
                /\ SetPod(u, [NoPod EXCEPT !.st = "live", !.ready = ready, !.node = n, !.ip = a])
      BY Zenon, <2>2
    <3> DEFINE p == [NoPod EXCEPT !.st = "live", !.ready = ready, !.node = n, !.ip = a]
    <3>2. IsPod(p) /\ p.ip = a /\ ~p.host
      BY Zenon DEF IsPod, NoPod
    <3>3. Addressed(p) /\ \A v \in Pods : Exists(pod[v]) /\ v # u => pod[v].ip # p.ip
      BY <3>1, <3>2 DEF Free, Addressed
    <3> QED
      BY <1>3, <3>1, <3>2, <3>3, Zenon
  <2>3. CASE SetPod(u, [NoPod EXCEPT !.st = "live", !.ready = ready, !.node = n,
                                      !.ip = n, !.host = TRUE])
    <3> DEFINE p == [NoPod EXCEPT !.st = "live", !.ready = ready, !.node = n,
                                      !.ip = n, !.host = TRUE]
    <3>1. IsPod(p) /\ p.ip = n /\ p.host
      BY Zenon DEF IsPod, NoPod
    <3>2. Addressed(p)
      BY <3>1 DEF Addressed
    <3> QED
      BY <1>3, <2>3, <3>1, <3>2, Zenon
  <2> QED
    BY Zenon, <2>1, <2>2, <2>3
<1> QED
  BY <1>4, <1>5, <1>6, <1>7, <1>8, <1>9

-----------------------------------------------------------------------------
(* The invariant is inductive.                                             *)

(* EndInv holds at the start.                                              *)
LEMMA EndInit == Init => EndInv
<1> SUFFICES ASSUME Init PROVE EndInv
  OBVIOUS
<1>1. plan \in PlanSet
  BY EndpointConstants DEF Init
<1>2. Distinct(pod) /\ IsFiniteSet(eps)
  BY NoPods, FS_EmptySet DEF Init
<1>3. /\ IsSnap(snap) /\ snap.pod = [u \in Pods |-> NoPod] /\ snap.eps = {}
      /\ pc # "idle"
  BY DEF Init, Fresh, IsSnap
<1> QED
  BY <1>1, <1>2, <1>3, NoPods, FS_EmptySet DEF EndInv

(* What the cluster does is no step of a pass.                             *)
Cluster == \/ Withdraw \/ EditService \/ StraySlice
           \/ \E u \in Pods : \/ Publish(u) \/ StartPod(u) \/ FlipReady(u) \/ Relabel(u)
                               \/ Readdress(u) \/ DeletePod(u) \/ EndPod(u)
           \/ \E n \in Nodes : FlipNode(n) \/ DeleteNode(n) \/ RecreateNode(n)

(* What happens in the cluster leaves the controller's state alone.        *)
LEMMA ClusterSteps ==
    ASSUME Cluster
    PROVE  /\ UNCHANGED <<pc, snap, pinned, res, held>>
           /\ plan' = plan \/ (plan.left > 0 /\ plan' = [plan EXCEPT !.left = @ - 1])
           /\ pod' = pod \/ \E u \in Pods :
                 \/ StartPod(u) \/ FlipReady(u) \/ Relabel(u) \/ Readdress(u)
                 \/ DeletePod(u) \/ EndPod(u)
           /\ eps' = eps \/ \E e : eps' \in {eps \cup {e}, eps \ {e}}
<1>1. CASE Withdraw \/ \E u \in Pods : Publish(u)
  BY <1>1 DEF Withdraw, Publish, Lag
<1>2. CASE EditService \/ \E n \in Nodes : FlipNode(n) \/ DeleteNode(n) \/ RecreateNode(n)
  BY <1>2 DEF EditService, FlipNode, DeleteNode, RecreateNode, SetNode, Disturb, Spend
<1>3. CASE StraySlice
  BY Zenon, <1>3 DEF StraySlice, Disturb, Spend
<1>4. CASE \E u \in Pods : \/ StartPod(u) \/ FlipReady(u) \/ Relabel(u)
                           \/ Readdress(u) \/ DeletePod(u) \/ EndPod(u)
  BY Zenon,
     <1>4 DEF StartPod, FlipReady, Relabel, Readdress, DeletePod, EndPod,
              SetPod, Disturb, Spend
<1> QED
  BY Zenon, <1>1, <1>2, <1>3, <1>4 DEF Cluster

(* Each list of readEndpointSnapshot yields what there is at that moment.  *)
LEMMA Lists ==
    ASSUME EndInv, \/ ListServices \/ ListSlices \/ ListPods \/ ListNodes
                   \/ FailRead \/ PinWorkers \/ Apply
    PROVE  IsSnap(snap') /\ Distinct(snap'.pod) /\ IsFiniteSet(snap'.eps)
<1>1. CASE ListServices \/ FailRead \/ PinWorkers
  <2>1. snap' = Fresh(svc)
    BY <1>1 DEF ListServices, FailRead, PinWorkers
  <2>2. IsSnap(snap') /\ snap'.pod = [u \in Pods |-> NoPod] /\ snap'.eps = {}
    BY <2>1 DEF Fresh, IsSnap
  <2> QED
    BY <2>2, NoPods, FS_EmptySet
<1>2. CASE ListSlices
  <2>1. IsSnap(snap') /\ snap'.pod = snap.pod /\ snap'.eps = eps
    BY <1>2 DEF ListSlices, EndInv, IsSnap
  <2> QED
    BY <2>1 DEF EndInv
<1>3. CASE ListPods
  <2>1. IsSnap(snap') /\ snap'.pod = pod /\ snap'.eps = snap.eps
    BY <1>3 DEF ListPods, EndInv, IsSnap
  <2> QED
    BY <2>1 DEF EndInv
<1>4. CASE ListNodes
  <2>1. IsSnap(snap') /\ snap'.pod = snap.pod /\ snap'.eps = snap.eps
    BY <1>4 DEF ListNodes, EndInv, IsSnap
  <2> QED
    BY <2>1 DEF EndInv
<1>5. CASE Apply
  BY <1>5 DEF Apply, EndInv
<1> QED
  BY <1>1, <1>2, <1>3, <1>4, <1>5

(* Nothing of Passed depends on the objects of the cluster.                *)
LEMMA StillPassed ==
    ASSUME Passed, UNCHANGED <<snap, pinned, res, held>>, Mode' = Mode
    PROVE  Passed'
BY DEF Passed, Outcome, Mode, clusterWorkers, canRetainBackend, nodeReady, Worker, Bad

(* The worker applies what the resolvers passed.                           *)
LEMMA ApplyPassed == Apply /\ Mode' = Mode => Passed'
BY DEF Apply, Passed, Outcome, Mode, clusterWorkers, canRetainBackend, nodeReady, Worker, Bad

(* EndInv is inductive.                                                    *)
LEMMA EndNext == EndInv /\ [Next]_vars => EndInv'
<1> SUFFICES ASSUME EndInv, [Next]_vars PROVE EndInv'
  OBVIOUS
<1>1. CASE Cluster
  <2>1. plan' \in PlanSet /\ Mode' = Mode
    BY <1>1, ClusterSteps DEF EndInv, PlanSet, Mode
  <2>2. Distinct(pod')
    BY <1>1, ClusterSteps, PodEvents DEF EndInv
  <2>3. IsFiniteSet(eps')
    BY <1>1, ClusterSteps, FS_AddElement, FS_RemoveElement DEF EndInv
  <2> QED
    BY <1>1, <2>1, <2>2, <2>3, ClusterSteps, StillPassed DEF EndInv
<1>2. CASE Reconcile \/ FailRead
  <2>1. plan' \in PlanSet /\ Mode' = Mode
    BY <1>2 DEF Reconcile, ListServices, ListSlices, ListPods, ListNodes, FailRead,
                PinWorkers, Apply, Unresolved, Spend, EndInv, PlanSet, Mode
  <2>2. UNCHANGED <<pod, eps>> /\ (pc' = "idle" => Apply)
    BY <1>2 DEF Reconcile, ListServices, ListSlices, ListPods, ListNodes, FailRead,
                PinWorkers, Apply, Unresolved, objects
  <2>3. IsSnap(snap') /\ Distinct(snap'.pod) /\ IsFiniteSet(snap'.eps)
    BY <1>2, Lists DEF Reconcile
  <2> QED
    BY <2>1, <2>2, <2>3, ApplyPassed DEF EndInv
<1>3. CASE UNCHANGED vars
  <2>1. UNCHANGED <<plan, pod, eps, snap, pc, pinned, res, held>> /\ Mode' = Mode
    BY <1>3 DEF vars, objects, Mode
  <2> QED
    BY <2>1, StillPassed DEF EndInv
<1> QED
  BY <1>1, <1>2, <1>3 DEF Next, Cluster

-----------------------------------------------------------------------------
(* What the outcomes mean.                                                 *)

(* A function with at most one value has the same one everywhere, and with *)
(* exactly one value it is not empty.                                      *)
LEMMA OneValue ==
    ASSUME NEW S, IsFiniteSet(S), NEW f, f = [e \in S |-> f[e]],
           NEW T, T = {f[e] : e \in S}
    PROVE  /\ IsFiniteSet(T)
           /\ Cardinality(T) <= 1 => \A d, e \in S : f[d] = f[e]
           /\ Cardinality(T) = 1 => S # {}
<1>1. f \in Surjection(S, T)
  BY DEF Surjection
<1>2. IsFiniteSet(T)
  BY <1>1, FS_Surjection
<1>3. Cardinality(T) \in Nat
  BY <1>2, FS_CardinalityType
<1>4. Cardinality(T) <= 1 => T = {} \/ \E x : T = {x}
  <2>1. Cardinality(T) <= 1 => Cardinality(T) = 0 \/ Cardinality(T) = 1
    BY <1>3
  <2>2. Cardinality(T) = 0 => T = {}
    BY <1>2, FS_EmptySet
  <2>3. Cardinality(T) = 1 => \E x : T = {x}
    BY Zenon, <1>2, FS_Singleton
  <2> QED
    BY <2>1, <2>2, <2>3, Zenon
<1>5. Cardinality(T) = 1 => \E x : T = {x}
  BY Zenon, <1>2, FS_Singleton
<1> QED
  BY <1>2, <1>4, <1>5

(* The endpoints of a snapshot can be counted.                             *)
LEMMA ActiveFinite ==
    ASSUME NEW s, IsFiniteSet(s.eps)
    PROVE  IsFiniteSet(Active(s)) /\ IsFiniteSet(Draining(s))
BY FS_Subset DEF Active, Draining

(* At most one owner: the endpoints are one Pod's.                         *)
LEMMA OneOwner ==
    ASSUME NEW E, IsFiniteSet(E), Cardinality(Owners(E)) <= 1
    PROVE  \A d, e \in E : d.uid = e.uid
<1> DEFINE f == [e \in E |-> e.uid]
<1>1. f = [e \in E |-> f[e]] /\ Owners(E) = {f[e] : e \in E}
  BY DEF Owners
<1>2. \A e \in E : f[e] = e.uid
  OBVIOUS
<1> HIDE DEF f
<1>3. \A d, e \in E : f[d] = f[e]
  BY <1>1, OneValue
<1> QED
  BY <1>2, <1>3

(* readEndpointPod vouches for UID, labels, node and address of an         *)
(* endpoint.                                                               *)
LEMMA Endorsed ==
    ASSUME NEW s, NEW e, readEndpointPod(s, e)
    PROVE  /\ e.uid \in Pods /\ Exists(s.pod[e.uid]) /\ s.pod[e.uid].match
           /\ e.node = s.pod[e.uid].node /\ e.ip = s.pod[e.uid].ip
BY DEF readEndpointPod

(* resolvePodIP: the address is that of the one Pod that serves.           *)
LEMMA PodIPOk ==
    ASSUME NEW s, IsFiniteSet(s.eps), resolvePodIP(s).k # "bad"
    PROVE  \E u \in Pods :
             /\ Serves(s, u) /\ ~s.pod[u].host /\ nodeReady(s, s.pod[u].node)
             /\ \A e \in Active(s) : e.uid = u
             /\ resolvePodIP(s) = Ok({s.pod[u].ip})
<1> DEFINE A == Active(s)
           fit(e) == /\ readEndpointPod(s, e) /\ ~s.pod[e.uid].host
                     /\ podReady(s, e.uid) /\ SamePort(s, e)
                     /\ nodeReady(s, s.pod[e.uid].node)
           T == {<<e.uid, e.ip>> : e \in A}
           f == [e \in A |-> <<e.uid, e.ip>>]
<1>1. /\ \A e \in A : fit(e)
      /\ Cardinality(T) = 1 /\ resolvePodIP(s) = Ok({e.ip : e \in A})
  BY DEF resolvePodIP, Bad
<1>2. f = [e \in A |-> f[e]] /\ T = {f[e] : e \in A} /\ \A e \in A : f[e] = <<e.uid, e.ip>>
  OBVIOUS
<1>3. IsFiniteSet(A)
  BY ActiveFinite
<1> HIDE DEF f, T, A
<1>4. A # {} /\ \A d, e \in A : f[d] = f[e]
  <2>1. Cardinality(T) <= 1
    BY <1>1
  <2> QED
    BY <1>1, <1>2, <1>3, <2>1, OneValue
<1>5. PICK e \in A : TRUE
  BY <1>4
<1>6. fit(e) /\ \A d \in A : d.uid = e.uid /\ d.ip = e.ip
  BY <1>1, <1>2, <1>4
<1>7. e.uid \in Pods /\ s.pod[e.uid].match /\ e.ip = s.pod[e.uid].ip
  BY <1>6, Endorsed
<1>8. {d.ip : d \in A} = {s.pod[e.uid].ip}
  BY <1>6, <1>7
<1>9. Serves(s, e.uid)
  BY <1>6, <1>7 DEF Serves, podReady
<1> QED
  BY Zenon, <1>1, <1>6, <1>7, <1>8, <1>9 DEF A

(* gap: the Pods that drain are one, and known.                            *)
DrainsOne(s) ==
    \E u \in Pods : \A e \in Draining(s) :
        e.uid = u /\ Exists(s.pod[u]) /\ s.pod[u].match /\ s.pod[u].ip = e.ip

(* If the draining endpoints have one owner, one Pod drains.               *)
LEMMA OneDrains ==
    ASSUME NEW s, IsFiniteSet(s.eps), \A e \in Draining(s) : readEndpointPod(s, e),
           Cardinality(Owners(Draining(s))) <= 1
    PROVE  DrainsOne(s)
<1>1. \A d, e \in Draining(s) : d.uid = e.uid
  BY ActiveFinite, OneOwner
<1>2. CASE Draining(s) = {}
  BY <1>2, EndpointConstants DEF DrainsOne
<1>3. CASE Draining(s) # {}
  <2>1. PICK e \in Draining(s) : TRUE
    BY <1>3
  <2>2. \A d \in Draining(s) : /\ d.uid = e.uid /\ d.uid \in Pods
                               /\ Exists(s.pod[d.uid]) /\ s.pod[d.uid].match
                               /\ d.ip = s.pod[d.uid].ip
    BY <1>1, <2>1, Endorsed
  <2> QED
    BY <2>1, <2>2 DEF DrainsOne
<1> QED
  BY <1>2, <1>3

(* No endpoint of a Pod that serves from a ready node.                     *)
NoneServes(s) ==
    \A e \in Active(s) : ~(Serves(s, e.uid) /\ nodeReady(s, s.pod[e.uid].node))

(* Resolve, in mode NodePort.                                              *)
LEMMA NodePortOk ==
    ASSUME NEW s, IsFiniteSet(s.eps)
    PROVE  /\ Resolve(s).k = "ok" => \E u \in Pods :
                 /\ Serves(s, u) /\ nodeReady(s, s.pod[u].node)
                 /\ \A e \in Active(s) : e.uid = u
                 /\ Resolve(s) = Ok({Worker(s, s.pod[u].node)})
           /\ Resolve(s).k = "gap" => Resolve(s) = Gap({}) /\ NoneServes(s) /\ DrainsOne(s)
           /\ Resolve(s).k \in {"ok", "gap"} \/ Resolve(s) = Bad
<1> DEFINE A == Active(s)
           e == CHOOSE x \in A : TRUE
           T == {<<x.uid, x.ip, x.node>> : x \in A}
           f == [x \in A |-> <<x.uid, x.ip, x.node>>]
<1>1. CASE A = {}
  <2>1. Resolve(s) = gap(s)
    BY <1>1 DEF Resolve
  <2> QED
    BY <1>1, <2>1, OneDrains DEF gap, Gap, Bad, NoneServes
<1>2. CASE A # {} /\ (Cardinality(T) # 1 \/ ~readEndpointPod(s, e))
  <2>1. Resolve(s) = Bad
    BY <1>2 DEF Resolve
  <2> QED
    BY <2>1 DEF Bad
<1>3. CASE A # {} /\ Cardinality(T) = 1 /\ readEndpointPod(s, e)
  <2>1. Resolve(s) = IF ~podReady(s, e.uid) THEN gap(s)
                     ELSE IF nodeReady(s, e.node) THEN Ok({Worker(s, e.node)}) ELSE Bad
    BY <1>3 DEF Resolve
  <2>2. f = [x \in A |-> f[x]] /\ T = {f[x] : x \in A}
        /\ \A x \in A : f[x] = <<x.uid, x.ip, x.node>>
    OBVIOUS
  <2>3. IsFiniteSet(A) /\ e \in A
    BY <1>3, ActiveFinite
  <2> HIDE DEF f, T, e
  <2>4. \A d, x \in A : f[d] = f[x]
    <3>1. Cardinality(T) <= 1
      BY <1>3
    <3> QED
      BY <2>2, <2>3, <3>1, OneValue
  <2>5. \A x \in A : x.uid = e.uid
    BY <2>2, <2>3, <2>4
  <2>6. e.uid \in Pods /\ s.pod[e.uid].match /\ e.node = s.pod[e.uid].node
    BY <1>3, Endorsed
  <2>7. CASE ~podReady(s, e.uid)
    <3>1. Resolve(s) = gap(s)
      BY <2>1, <2>7
    <3>2. NoneServes(s)
      BY <2>5, <2>7 DEF NoneServes, Serves, podReady
    <3> QED
      BY <3>1, <3>2, OneDrains DEF gap, Gap, Bad
  <2>8. CASE podReady(s, e.uid) /\ nodeReady(s, e.node)
    <3>1. Resolve(s) = Ok({Worker(s, e.node)})
      BY <2>1, <2>8
    <3>2. Serves(s, e.uid)
      BY <2>6, <2>8 DEF Serves, podReady
    <3>3. Resolve(s).k = "ok"
      BY <3>1 DEF Ok
    <3>4. nodeReady(s, s.pod[e.uid].node) /\ Resolve(s) = Ok({Worker(s, s.pod[e.uid].node)})
      BY <2>6, <2>8, <3>1
    <3> QED
      BY Zenon, <2>5, <2>6, <3>2, <3>3, <3>4
  <2>9. CASE podReady(s, e.uid) /\ ~nodeReady(s, e.node)
    BY <2>1, <2>9 DEF Bad
  <2> QED
    BY Zenon, <2>7, <2>8, <2>9
<1> QED
  BY Zenon, <1>1, <1>2, <1>3

(* resolveCluster: the destinations are the recorded workers.              *)
LEMMA ClusterOk ==
    ASSUME NEW s, IsFiniteSet(s.eps), NEW ws, NEW R, R = resolveCluster(s, ws)
    PROVE  /\ R.k = "ok" => \E u \in Pods :
                 /\ Serves(s, u) /\ nodeReady(s, s.pod[u].node)
                 /\ \A e \in Active(s) : e.uid = u
           /\ R.k = "gap" => NoneServes(s) /\ DrainsOne(s)
           /\ R = Bad \/ R.at = {<<n, ws[n]>> : n \in {x \in Nodes : ws[x] # 0}}
<1> DEFINE A == Active(s)
           D == Draining(s)
           fit(e) == readEndpointPod(s, e) /\ ~s.pod[e.uid].host /\ SamePort(s, e)
           ready == \E e \in A : podReady(s, e.uid) /\ nodeReady(s, s.pod[e.uid].node)
           at == {<<n, ws[n]>> : n \in {x \in Nodes : ws[x] # 0}}
           refused == \/ ~ \A e \in A : fit(e) /\ Exists(s.node[s.pod[e.uid].node])
                      \/ Cardinality(Owners(A)) > 1 \/ at = {}
                      \/ ~ready /\ ~((\A e \in D : fit(e)) /\ Cardinality(Owners(D)) <= 1)
<1>1. R = IF refused THEN Bad ELSE IF ready THEN Ok(at) ELSE Gap(at)
  BY Zenon DEF resolveCluster
<1>2. CASE refused
  <2>1. R = Bad
    BY Zenon, <1>1, <1>2
  <2> QED
    BY <2>1 DEF Bad
<1>3. CASE ~refused /\ ready
  <2>1. R = Ok(at)
    BY Zenon, <1>1, <1>3
  <2>2. R.k = "ok" /\ R.at = at
    BY <2>1 DEF Ok
  <2>3. Cardinality(Owners(A)) <= 1
    <3>1. IsFiniteSet(A)
      BY ActiveFinite
    <3> DEFINE f == [e \in A |-> e.uid]
    <3>2. f = [e \in A |-> f[e]] /\ Owners(A) = {f[e] : e \in A}
      BY DEF Owners
    <3> HIDE DEF f
    <3>3. IsFiniteSet(Owners(A))
      BY <3>1, <3>2, OneValue
    <3> HIDE DEF A, D, at, ready
    <3> QED
      BY <1>3, <3>3, FS_CardinalityType
  <2>4. PICK e \in A : podReady(s, e.uid) /\ nodeReady(s, s.pod[e.uid].node)
    BY Zenon, <1>3
  <2>5. \A d \in A : d.uid = e.uid
    BY <2>3, <2>4, ActiveFinite, OneOwner
  <2>6. readEndpointPod(s, e)
    BY Zenon, <1>3, <2>4
  <2>7. e.uid \in Pods /\ s.pod[e.uid].match
    BY <2>6, Endorsed
  <2>8. Serves(s, e.uid)
    BY <2>4, <2>7 DEF Serves, podReady
  <2> HIDE DEF at
  <2> QED
    BY <2>2, <2>4, <2>5, <2>7, <2>8 DEF at
<1>4. CASE ~refused /\ ~ready
  <2>1. R = Gap(at)
    BY Zenon, <1>1, <1>4
  <2>2. R.k = "gap" /\ R.at = at
    BY <2>1 DEF Gap
  <2>3. NoneServes(s)
    BY Zenon, <1>4 DEF NoneServes, Serves, podReady
  <2>4. DrainsOne(s)
    <3>1. (\A e \in D : readEndpointPod(s, e)) /\ Cardinality(Owners(D)) <= 1
      BY Zenon, <1>4
    <3> QED
      BY <3>1, OneDrains
  <2> QED
    BY <2>2, <2>3, <2>4
<1> QED
  BY Zenon, <1>2, <1>3, <1>4

-----------------------------------------------------------------------------
(* The theorems.                                                           *)

(* EndInv implies HeldVerified.                                            *)
LEMMA HeldHolds == EndInv => HeldVerified
<1> SUFFICES ASSUME EndInv, pc = "idle", NEW w \in held
    PROVE  IF Mode = "PodIP"
           THEN \E u \in Pods : /\ Serves(snap, u) /\ ~snap.pod[u].host
                                /\ \A v \in Pods : (Exists(snap.pod[v]) /\ snap.pod[v].ip = w) <=> v = u
           ELSE /\ Worker(snap, w[1]) = w /\ snap.node[w[1]].st = "live"
                /\ Mode = "NodePort" => snap.node[w[1]].ready
  BY Zenon DEF HeldVerified
<1>1. Passed /\ Distinct(snap.pod) /\ IsFiniteSet(snap.eps)
  BY DEF EndInv
<1>2. CASE ~Trusted(snap)
  <2>1. res = Bad
    BY <1>1, <1>2 DEF Passed, Outcome
  <2> QED
    BY <1>1, <2>1 DEF Passed, Bad
<1>3. CASE Trusted(snap) /\ Mode = "PodIP"
  <2>1. res = resolvePodIP(snap)
    BY <1>1, <1>3 DEF Passed, Outcome
  <2>2. res.k # "gap"
    BY <2>1 DEF resolvePodIP, Bad, Ok
  <2>3. w \in res.at
    BY <1>1, <2>2 DEF Passed
  <2>4. res.k # "bad"
    BY <2>1, <2>3 DEF resolvePodIP, Bad, Ok
  <2>5. PICK u \in Pods : Serves(snap, u) /\ ~snap.pod[u].host /\ res = Ok({snap.pod[u].ip})
    BY Zenon, <1>1, <2>1, <2>4, PodIPOk
  <2>6. w = snap.pod[u].ip /\ Exists(snap.pod[u])
    BY <2>3, <2>5 DEF Ok, Serves, Exists
  <2>7. \A v \in Pods : (Exists(snap.pod[v]) /\ snap.pod[v].ip = w) <=> v = u
    BY <1>1, <2>5, <2>6 DEF Distinct
  <2> QED
    BY <1>3, <2>5, <2>7
<1>4. CASE Trusted(snap) /\ Mode = "NodePort"
  <2>1. res = Resolve(snap)
    BY <1>1, <1>4 DEF Passed, Outcome
  <2>2. CASE res.k = "ok"
    <3>1. PICK u \in Pods : /\ nodeReady(snap, snap.pod[u].node)
                            /\ res = Ok({Worker(snap, snap.pod[u].node)})
      BY Zenon, <1>1, <2>1, <2>2, NodePortOk
    <3>2. w = Worker(snap, snap.pod[u].node)
      BY <1>1, <2>2, <3>1 DEF Passed, Ok
    <3> QED
      BY Zenon, <1>4, <3>1, <3>2 DEF Worker, nodeReady
  <2>3. CASE res.k = "gap"
    BY Zenon, <1>1, <1>4, <2>3 DEF Passed, canRetainBackend, nodeReady
  <2>4. CASE res = Bad
    BY <1>1, <2>4 DEF Passed, Bad
  <2> QED
    BY Zenon, <1>1, <2>1, <2>2, <2>3, <2>4, NodePortOk
<1>5. CASE Trusted(snap) /\ Mode = "NodePortCluster"
  <2>1. res = resolveCluster(snap, pinned) /\ held = res.at
    BY <1>1, <1>5 DEF Passed, Outcome
  <2>2. res = Bad \/ res.at = {<<n, pinned[n]>> : n \in {x \in Nodes : pinned[x] # 0}}
    BY <1>1, <2>1, ClusterOk
  <2>3. PICK n \in Nodes : pinned[n] # 0 /\ w = <<n, pinned[n]>>
    BY <2>1, <2>2 DEF Bad
  <2>4. clusterWorkers(snap)[n] = pinned[n]
    BY <1>1, <1>5 DEF Passed
  <2> QED
    BY <1>5, <2>3, <2>4 DEF clusterWorkers, Worker
<1>6. Mode \in {"PodIP", "NodePort", "NodePortCluster"}
  BY DEF EndInv, PlanSet, Mode
<1> QED
  BY Zenon, <1>2, <1>3, <1>4, <1>5, <1>6

(* EndInv implies OnePod.                                                  *)
LEMMA OneHolds == EndInv => OnePod
<1> SUFFICES ASSUME EndInv, pc = "idle", res.k = "ok"
    PROVE  \E u \in Pods : /\ Serves(snap, u) /\ nodeReady(snap, snap.pod[u].node)
                           /\ \A e \in Active(snap) : e.uid = u
                           /\ Mode = "NodePort" => res.at = {Worker(snap, snap.pod[u].node)}
  BY Zenon DEF OnePod, Active
<1>1. res = Outcome(snap) /\ IsFiniteSet(snap.eps) /\ res # Bad
  BY DEF EndInv, Passed, Bad
<1>2. CASE Mode = "PodIP"
  BY Zenon, <1>1, <1>2, PodIPOk DEF Outcome
<1>3. CASE Mode = "NodePort"
  <2>1. res = Resolve(snap)
    BY <1>1, <1>3 DEF Outcome
  <2> QED
    BY <1>1, <2>1, NodePortOk DEF Ok
<1>4. CASE Mode \notin {"PodIP", "NodePort"}
  <2>1. res = resolveCluster(snap, pinned)
    BY <1>1, <1>4 DEF Outcome
  <2> QED
    BY <1>1, <1>4, <2>1, ClusterOk
<1> QED
  BY <1>2, <1>3, <1>4

(* EndInv implies GapIsSafe.                                               *)
LEMMA GapHolds == EndInv => GapIsSafe
<1> SUFFICES ASSUME EndInv, pc = "idle", res.k = "gap"
    PROVE  NoneServes(snap) /\ DrainsOne(snap)
  BY DEF GapIsSafe, NoneServes, DrainsOne, Active, Draining
<1>1. res = Outcome(snap) /\ IsFiniteSet(snap.eps) /\ res # Bad
  BY DEF EndInv, Passed, Bad
<1>2. CASE Mode = "PodIP"
  BY <1>1, <1>2 DEF Outcome, resolvePodIP, Ok
<1>3. CASE Mode = "NodePort"
  BY <1>1, <1>3, NodePortOk DEF Outcome
<1>4. CASE Mode \notin {"PodIP", "NodePort"}
  BY <1>1, <1>4, ClusterOk DEF Outcome
<1> QED
  BY <1>2, <1>3, <1>4

(* HeldVerified, for every set of Pods, Nodes and addresses and every      *)
(* course of events: what Resolve, resolvePodIP and resolveCluster leave   *)
(* in the backend set was verified in the snapshot, and its address was no *)
(* other Pod's.                                                            *)
THEOREM HeldIsVerified == Spec => []HeldVerified
<1>1. Init => EndInv
  BY EndInit
<1>2. EndInv /\ [Next]_vars => EndInv'
  BY EndNext
<1>3. EndInv => HeldVerified
  BY HeldHolds
<1> QED
  BY <1>1, <1>2, <1>3, PTL DEF Spec

(* OnePod, for every set of Pods and Nodes: an "ok" of the three resolvers *)
(* rests on one Pod that serves the Service from a ready node, and on no   *)
(* other ready endpoint.                                                   *)
THEOREM OkMeansOnePod == Spec => []OnePod
<1>1. Init => EndInv
  BY EndInit
<1>2. EndInv /\ [Next]_vars => EndInv'
  BY EndNext
<1>3. EndInv => OnePod
  BY OneHolds
<1> QED
  BY <1>1, <1>2, <1>3, PTL DEF Spec

(* GapIsSafe, for every set of Pods and Nodes: EndpointGap is declared     *)
(* only when nothing listed serves, and what drains is one Pod of the      *)
(* Service.                                                                *)
THEOREM GapsAreSafe == Spec => []GapIsSafe
<1>1. Init => EndInv
  BY EndInit
<1>2. EndInv /\ [Next]_vars => EndInv'
  BY EndNext
<1>3. EndInv => GapIsSafe
  BY GapHolds
<1> QED
  BY <1>1, <1>2, <1>3, PTL DEF Spec
=============================================================================
