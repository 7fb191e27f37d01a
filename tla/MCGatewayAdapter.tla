-------------------------- MODULE MCGatewayAdapter --------------------------
(* Instances of GatewayAdapter for TLC: the value of its function constant,*)
(* and the plans of the runs.                                              *)
EXTENDS GatewayAdapter

(* Route 2 is created attached; route 1 is older and attached later.       *)
OnlyNewest == [u \in Routes |-> IF u = Max(Routes) THEN Max(Listeners)
                               ELSE Detached]

Plan(us, ks, n, w, i) == [upgraded |-> FALSE, routes |-> us, kinds |-> ks,
                          left |-> n, work |-> w, again |-> i]

(* Deletions of the route, the Gateway and, in the foreground, all it      *)
(* owns; a deposed leader that is still at work; a pool that an older      *)
(* release has created and an operator deletes.                            *)
GuardPlans ==
    {Plan({2}, {"delete", "deleteGateway", "early", "foreground", "parent",
                "abort"}, 1, 0, 2),
     Plan({2}, {"deleteGateway", "leader"}, 1, 0, 1),
     [Plan({2}, {"deletePool", "deleteGateway", "early", "abort"}, 1, 1, 2)
         EXCEPT !.upgraded = TRUE]}

(* Two of everything that users do to a route and its Gateway; an older    *)
(* and a newer route on one listener; the retirement of the Gateway, the   *)
(* route being deleted before, after or not at all.                        *)
SettlePlans ==
    {Plan({2}, {"parent", "problem", "delete"}, 2, 0, 2),
     Plan({2}, {"backend", "service", "abort", "report"}, 2, 0, 1),
     Plan({1, 2}, {"delete", "attach"}, 2, 0, 1),
     Plan({2}, {"deleteGateway", "foreground", "abort"}, 1, 0, 2),
     Plan({2}, {"delete", "deleteGateway", "foreground"}, 0, 0, 2)}

(* A Gateway that is deleted while its NLB is still being provisioned.     *)
EarlyPlans == {Plan({2}, {"deleteGateway", "early"}, 0, 1, 1)}
=============================================================================
