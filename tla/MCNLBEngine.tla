---------------------------- MODULE MCNLBEngine ----------------------------
(* Instances of NLBEngine for TLC: values of its function constants, and   *)
(* the plans of the runs.                                                  *)
EXTENDS EngineRefinement

ModeNodePort == [u \in Bindings |-> "NodePort"]

(* Bindings 1 and 2 are of workers, 3 and 4 of Pods.                       *)
ModeMixed == [u \in Bindings |-> IF u <= 2 THEN "NodePortCluster" ELSE "PodIP"]

NoRequest == [u \in Bindings |-> 0]
SamePort == [u \in Bindings |-> 53]

(* Bindings 1 and 3 compete for the same Service port.                     *)
SharedService == [u \in Bindings |-> IF u % 2 = 1 THEN "a" ELSE "b"]
OwnService == [u \in Bindings |-> <<"a", "b", "c", "d">>[u]]

(* Services a and b have node ports of their own; a Pod may back both c    *)
(* and d.                                                                  *)
StartOnFirst == [s \in Services |-> <<"h1", IF s = "b" THEN 2 ELSE 1>>]

Plan(bs, ks, n) == [bindings |-> bs, kinds |-> ks, left |-> n]

(* Three bindings and two ports; a deposed leader that is still at work;   *)
(* the end of a pool.                                                      *)
LeasePlans == {Plan({1, 2, 3}, {"delete", "abort"}, 1),
               Plan({1, 2}, {"delete", "edit", "leader"}, 1),
               Plan({1, 2}, {"delete", "deletePool", "abort"}, 1)}

(* Whatever may happen to the Service, its endpoints, the workers, OCI and *)
(* a pass; endpoints that come and go; what others put back or take away;  *)
(* two bindings in each other's way, or stopped by an NLB that needs       *)
(* repair.                                                                 *)
SettlePlans == {Plan({1}, {"edit", "recreate", "invalid", "move", "gap", "bad",
                           "node", "abort", "fail", "foreign"}, 3),
                Plan({1}, {"gap", "move", "abort", "fail", "failCreate"}, 4),
                Plan({1}, {"delete", "leader", "resurrect", "strip"}, 2),
                Plan({1, 2}, {"delete", "edit", "abort", "fail"}, 1),
                Plan({1, 2}, {"delete", "foreign", "failCreate"}, 2)}

(* Workers and the node port change under one binding; workers under two;  *)
(* a Pod address moves from one Service to another.                        *)
ClusterPlans == {Plan({1}, {"node", "port", "abort"}, 3),
                 Plan({1, 2}, {"node", "abort"}, 2),
                 Plan({3, 4}, {"move", "bad", "abort"}, 2)}

PoolPlans == {Plan({1, 2}, {"delete", "deletePool", "held", "abort", "edit"}, 1)}
=============================================================================
