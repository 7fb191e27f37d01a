---------------------------- MODULE LeaseLedger ----------------------------
(***************************************************************************)
(* What a port ledger promises to the clients of a public endpoint.  An    *)
(* owner (a TunnelBinding UID in an NLBPool, a UDPRoute UID in a           *)
(* GatewayPool) is granted one slot (a shard and a port), keeps it for     *)
(* good, and may be retired once; a slot is never granted twice, whether   *)
(* its owner is retired or not.  NLBEngine and GatewayPool implement this  *)
(* specification.                                                          *)
(***************************************************************************)
CONSTANTS Owners, Slots

VARIABLES lease,    \* the slot of every owner that was ever granted one
          retired   \* the owners whose endpoint is switched off for good

ledgerVars == <<lease, retired>>

LedgerInit == /\ lease = [o \in {} |-> {}]
              /\ retired = {}

Grant(o, s) == /\ o \notin DOMAIN lease
               /\ \A q \in DOMAIN lease : lease[q] # s
               /\ lease' = [q \in DOMAIN lease \cup {o} |->
                               IF q = o THEN s ELSE lease[q]]
               /\ retired' = retired

Retire(o) == /\ o \in DOMAIN lease \ retired
             /\ retired' = retired \cup {o}
             /\ lease' = lease

LedgerNext == \E o \in Owners : Retire(o) \/ \E s \in Slots : Grant(o, s)

LedgerSpec == LedgerInit /\ [][LedgerNext]_ledgerVars
=============================================================================
