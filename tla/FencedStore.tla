---------------------------- MODULE FencedStore ----------------------------
(***************************************************************************)
(* What the ownership leases promise to everything that is stored under a  *)
(* root: every scope has a generation that only grows; a scope is live     *)
(* from the moment its generation is handed out until it is released; and  *)
(* a write is accepted only from the newest generation of the runtime and  *)
(* of the writer's own scope, while both are live.                         *)
(***************************************************************************)
EXTENDS Integers

CONSTANTS WorkerScopes, RuntimeScope

VARIABLES
    gen,    \* newest generation of every scope
    live,   \* has that generation been handed out and not released?
    stamp   \* generations of the last accepted writes; flip tells two apart

vars == <<gen, live, stamp>>

Scopes == WorkerScopes \cup {RuntimeScope}

Init ==
    /\ gen = [s \in Scopes |-> 0]
    /\ live = [s \in Scopes |-> FALSE]
    /\ stamp = [rt |-> 0, wk |-> [s \in WorkerScopes |-> 0], flip |-> FALSE]

Advance(s) ==
    /\ gen' = [gen EXCEPT ![s] = @ + 1]
    /\ live' = [live EXCEPT ![s] = TRUE]
    /\ UNCHANGED stamp

Release(s) ==
    /\ live[s]
    /\ live' = [live EXCEPT ![s] = FALSE]
    /\ UNCHANGED <<gen, stamp>>

Write(s) ==
    /\ live[RuntimeScope]
    /\ live[s]
    /\ stamp' = [rt |-> gen[RuntimeScope],
                 wk |-> [stamp.wk EXCEPT ![s] = gen[s]],
                 flip |-> ~stamp.flip]
    /\ UNCHANGED <<gen, live>>

Next ==
    \/ \E s \in Scopes : Advance(s) \/ Release(s)
    \/ \E s \in WorkerScopes : Write(s)

Spec == Init /\ [][Next]_vars

=============================================================================
