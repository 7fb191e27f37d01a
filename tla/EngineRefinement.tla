-------------------------- MODULE EngineRefinement --------------------------
(* How an explicit-port pool of NLBEngine, which has one shard, looks to   *)
(* the Gateway adapter: the refinement mapping from NLBEngine to           *)
(* EngineContract.                                                         *)
EXTENDS NLBEngine

Target(u) == [port |-> RequestedPort[u], svc |-> Service[u]]

(* The pool of NLBEngine has no finalizer of the adapter (guard).          *)
ContractPool == [st |-> pool.st, fin |-> pool.fin, guard |-> FALSE,
                 pending |-> pool.pending # NoWork, shard |-> pool.shards[0]]
ContractLedger == [u \in DOMAIN alloc |->
                     [port |-> alloc[u].port, tomb |-> alloc[u].tomb]]
Contracted(u, b) == [st |-> b.st, fin |-> b.fin, gen |-> b.gen, cond |-> b.cond,
                     og |-> b.og, spec |-> Target(u)]
ContractBindings == [u \in Bindings |-> Contracted(u, bind[u])]

Contract == INSTANCE EngineContract WITH
    Specs <- {Target(u) : u \in Bindings},
    pool <- ContractPool, alloc <- ContractLedger, bind <- ContractBindings

(* An explicit-port pool of one shard behaves as the Gateway adapter       *)
(* expects: the passes of the controller, with all their reads, OCI calls  *)
(* and crashes, amount to the writes of EngineContract.                    *)
ImplementsContract == Contract!ContractSpec
=============================================================================
