--------------------------- MODULE MCGatewayPool ---------------------------
(* Instances of GatewayPool for TLC: values of its function constants, and *)
(* the plans of the runs.                                                  *)
EXTENDS GatewayPool

(* Pool 3 has the name of pool 1: it is created when pool 1 is gone.       *)
Reused == [p \in Pools |-> IF p = 2 THEN "n2" ELSE "n1"]

(* Routes 1 and 3 compete for the same Service port.                       *)
OddEven == [u \in Routes |-> IF u % 2 = 1 THEN "a" ELSE "b"]

Plan(ps, us, ks, n) == [pools |-> ps, routes |-> us, kinds |-> ks, left |-> n]

(* Three routes and two ports; a deposed leader that is still at work; a   *)
(* route moved between two pools; a pool and its successor.                *)
LeasePlans ==
    {Plan({1}, {1, 2, 3}, {"delete", "abort"}, 1),
     Plan({1}, {1, 2}, {"delete", "leader"}, 1),
     Plan({1, 2}, {1}, {"annotate", "parent", "deleteGateway", "delete",
                        "abort", "deletePool"}, 1),
     Plan({1, 3}, {1}, {"deletePool", "leader"}, 1)}

(* One of everything that users and the cluster may do to two routes, and  *)
(* two of them to one; the deletion of the pool, also while a deposed      *)
(* leader is still at work.                                                *)
Edits == {"delete", "annotate", "parent", "retarget", "invalid", "recreate",
          "dropListener", "foreign", "deleteGateway", "spec", "abort"}
SettlePlans ==
    {Plan({1}, {1, 2}, Edits, 1),
     Plan({1}, {1}, Edits \cup {"restore", "adapter"}, 2),
     Plan({1}, {1, 2}, {"deletePool", "abort"}, 1),
     Plan({1}, {1}, {"deletePool", "leader"}, 1)}
=============================================================================
