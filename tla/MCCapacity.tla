----------------------------- MODULE MCCapacity -----------------------------
(* Instances of Capacity for TLC: specs on both sides of every limit.      *)
EXTENDS Capacity

Sized(occ, workers) == [occ |-> occ, gateways |-> 1, start |-> 1024, workers |-> workers]
EdgeSpecs == {Sized(o, w) : o \in 1..5, w \in {0, 256, 257, 341, 342, 512, 513}}
             \cup {[occ |-> 3, gateways |-> 1, start |-> p, workers |-> 0] : p \in {1023, 65533, 65534}}
=============================================================================
