--------------------------- MODULE EngineContract ---------------------------
(***************************************************************************)
(* What the NLBPool controller and its users promise each other about one  *)
(* explicit-port pool and its TunnelBindings, as the objects show it: the  *)
(* interface between NLBEngine, which implements it, and GatewayAdapter,   *)
(* which relies on it.  A pass of the controller, its reads and its OCI    *)
(* calls are gone; only the writes are left, one action for each kind.     *)
(***************************************************************************)
EXTENDS Integers, FiniteSets

CONSTANTS
    Bindings,  \* UIDs of TunnelBindings
    Specs      \* the targets they may have: a port and a Service port

VARIABLES
    pool,   \* the NLBPool: finalizers of the controller (fin) and of the
            \* adapter (guard), whether work is pending, the NLB recorded
    alloc,  \* its ledger: port and tombstone of every lease
    bind    \* the TunnelBindings; gen is odd while spec.suspended holds

vars == <<pool, alloc, bind>>

NoPool == [st |-> "none", fin |-> FALSE, guard |-> FALSE, pending |-> FALSE,
           shard |-> "none"]
NoLeases == [u \in {} |-> {}]
Unborn(spec) == [st |-> "unborn", fin |-> FALSE, gen |-> 0, cond |-> "none",
                 og |-> 0, spec |-> spec]

Exists(x) == x.st \in {"live", "deleting"}
Active(A) == {u \in DOMAIN A : ~A[u].tomb}
Held(p) == p.fin \/ p.guard
Released(p) == IF Held(p) THEN p ELSE [p EXCEPT !.st = "gone"]

Init ==
    /\ pool \in {NoPool} \cup {[NoPool EXCEPT !.st = "live", !.fin = h] : h \in BOOLEAN}
    /\ alloc = NoLeases
    /\ bind \in [Bindings -> {Unborn(s) : s \in Specs}]

-----------------------------------------------------------------------------
(* The controller.                                                         *)

HoldPool ==
    /\ pool.st = "live" /\ ~pool.fin
    /\ pool' = [pool EXCEPT !.fin = TRUE]
    /\ UNCHANGED <<alloc, bind>>

(* The NLB is asked for, and its OCID recorded; later its address is.      *)
Provision ==
    /\ pool.st = "live" \/ (pool.st = "deleting" /\ Active(alloc) # {})
    /\ pool.shard # "ip"
    /\ \/ pool.shard = "none" /\ pool' = [pool EXCEPT !.shard = "id",
                                                      !.pending = TRUE]
       \/ pool' = [pool EXCEPT !.shard = "ip", !.pending = FALSE]
    /\ UNCHANGED <<alloc, bind>>

StartWork ==
    /\ Exists(pool) /\ ~pool.pending
    /\ alloc # NoLeases
    /\ pool' = [pool EXCEPT !.pending = TRUE]
    /\ UNCHANGED <<alloc, bind>>

EndWork ==
    /\ Exists(pool) /\ pool.pending
    /\ pool' = [pool EXCEPT !.pending = FALSE]
    /\ UNCHANGED <<alloc, bind>>

HoldBinding(u) ==
    /\ Exists(pool) /\ bind[u].st = "live" /\ ~bind[u].fin
    /\ bind' = [bind EXCEPT ![u].fin = TRUE]
    /\ UNCHANGED <<pool, alloc>>

(* A port is leased once, to a binding that cannot vanish unnoticed.       *)
Grant(u) ==
    /\ pool.st = "live" /\ pool.fin /\ ~pool.pending
    /\ Exists(bind[u]) /\ bind[u].fin /\ u \notin DOMAIN alloc
    /\ \A v \in DOMAIN alloc : alloc[v].port # bind[u].spec.port
    /\ alloc' = [v \in DOMAIN alloc \cup {u} |->
                   IF v = u THEN [port |-> bind[u].spec.port, tomb |-> FALSE]
                   ELSE alloc[v]]
    /\ UNCHANGED <<pool, bind>>

(* A lease is retired when its binding is going away, while the binding    *)
(* still waits for the controller.                                         *)
Retire(u) ==
    /\ Exists(pool) /\ ~pool.pending
    /\ u \in Active(alloc) /\ bind[u].st = "deleting" /\ bind[u].fin
    /\ alloc' = [alloc EXCEPT ![u].tomb = TRUE]
    /\ UNCHANGED <<pool, bind>>

ReleaseBinding(u) ==
    /\ Exists(pool)
    /\ bind[u].st = "deleting" /\ bind[u].fin /\ u \notin Active(alloc)
    /\ \E st \in {"deleting", "gone"} :
          bind' = [bind EXCEPT ![u].fin = FALSE, ![u].st = st]
    /\ UNCHANGED <<pool, alloc>>

(* A status may describe an earlier generation; True needs a lease, and a  *)
(* generation that was not suspended.                                      *)
Report(u, c, g) ==
    /\ Exists(pool) /\ Exists(bind[u]) /\ g <= bind[u].gen
    /\ c = "True" => u \in Active(alloc) /\ pool.shard = "ip" /\ g % 2 = 0
    /\ bind' = [bind EXCEPT ![u].cond = c, ![u].og = g]
    /\ UNCHANGED <<pool, alloc>>

(* The pool is let go after every binding that waits for the controller.   *)
ReleasePool ==
    /\ pool.st = "deleting" /\ pool.fin /\ ~pool.pending /\ Active(alloc) = {}
    /\ \A u \in Bindings : Exists(bind[u]) => ~bind[u].fin
    /\ pool' = Released([pool EXCEPT !.fin = FALSE])
    /\ UNCHANGED <<alloc, bind>>

Controller ==
    \/ HoldPool \/ Provision \/ StartWork \/ EndWork \/ ReleasePool
    \/ \E u \in Bindings :
          \/ HoldBinding(u) \/ Grant(u) \/ Retire(u) \/ ReleaseBinding(u)
          \/ \E c \in {"True", "False"}, g \in 0..bind[u].gen : Report(u, c, g)

-----------------------------------------------------------------------------
(* The users of the pool.                                                  *)

CreatePool ==
    /\ pool.st = "none"
    /\ pool' = [NoPool EXCEPT !.st = "live", !.fin = TRUE, !.guard = TRUE]
    /\ UNCHANGED <<alloc, bind>>

AddGuard ==
    /\ pool.st = "live" /\ ~pool.guard
    /\ pool' = [pool EXCEPT !.guard = TRUE]
    /\ UNCHANGED <<alloc, bind>>

DropGuard ==
    /\ pool.st = "deleting" /\ pool.guard
    /\ pool' = Released([pool EXCEPT !.guard = FALSE])
    /\ UNCHANGED <<alloc, bind>>

DeletePool ==
    /\ pool.st = "live"
    /\ pool' = Released([pool EXCEPT !.st = "deleting"])
    /\ UNCHANGED <<alloc, bind>>

CreateBinding(u, s) ==
    /\ bind[u].st = "unborn"
    /\ bind' = [bind EXCEPT ![u].st = "live", ![u].spec = s]
    /\ UNCHANGED <<pool, alloc>>

DeleteBinding(u) ==
    /\ bind[u].st = "live"
    /\ \E st \in IF bind[u].fin THEN {"deleting"} ELSE {"deleting", "gone"} :
          bind' = [bind EXCEPT ![u].st = st]
    /\ UNCHANGED <<pool, alloc>>

LetGo(u) ==
    /\ bind[u].st = "deleting" /\ ~bind[u].fin
    /\ bind' = [bind EXCEPT ![u].st = "gone"]
    /\ UNCHANGED <<pool, alloc>>

EditBinding(u) ==
    /\ Exists(bind[u])
    /\ bind' = [bind EXCEPT ![u].gen = @ + 1]
    /\ UNCHANGED <<pool, alloc>>

User ==
    \/ CreatePool \/ AddGuard \/ DropGuard \/ DeletePool
    \/ \E u \in Bindings :
          \/ DeleteBinding(u) \/ LetGo(u) \/ EditBinding(u)
          \/ \E s \in Specs : CreateBinding(u, s)

Next == Controller \/ User

ContractSpec == Init /\ [][Next]_vars
=============================================================================
