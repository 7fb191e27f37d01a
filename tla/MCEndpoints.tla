---------------------------- MODULE MCEndpoints ----------------------------
(* Instances of Endpoints for TLC: names of Pods, and plans for each mode. *)
EXTENDS Endpoints

(* The second Pod has the first one's name, the third one of its own.      *)
NameUsedAgain == [u \in Pods |-> IF u = 3 THEN "b" ELSE "a"]

Plan(m, us, ns, ks, n) ==
    [mode |-> m, pods |-> us, nodes |-> ns, kinds |-> ks, left |-> n]

ModePlans ==
    {Plan("PodIP", Pods, {"n1"},
          {"start", "ready", "delete", "readdress", "relabel", "host"}, 3),
     Plan("PodIP", {1}, {"n1"},
          {"start", "ready", "stray", "edit", "retarget", "recreate", "fail"}, 3),
     Plan("NodePort", {1, 3}, Nodes,
          {"start", "ready", "delete", "node", "deleteNode"}, 3),
     Plan("NodePortCluster", {1}, Nodes,
          {"start", "delete", "node", "deleteNode"}, 3),
     Plan("NodePortCluster", {1, 3}, {"n1"},
          {"start", "delete", "node", "host"}, 3)}
=============================================================================
