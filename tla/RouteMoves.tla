----------------------------- MODULE RouteMoves -----------------------------
(***************************************************************************)
(* Route moves by concurrent processes (internal/failover/service.go,      *)
(* applyPlan).  The failover worker evacuates exhausted accounts, Admin    *)
(* rebalances and serves the portal's own moves; each process runs one     *)
(* plan at a time (service.Lock), the two processes share only the store   *)
(* and the snapshot file.  A move is written with a compare-and-set on the *)
(* routes the plan was made from, published, and reported as done when the *)
(* gateway behind the edge has activated exactly that generation; if it    *)
(* has not in time the routes are put back and published again.            *)
(***************************************************************************)
EXTENDS Publication

CONSTANTS
    Mover,        \* processes that move routes
    Catalogs,     \* account catalogs the runs start from
    MaxPlans,     \* bound on the plans made by all movers
    MaxFaults     \* bound on failures, restarts and slot switches

ASSUME RouteMovesAssumption ==
    /\ Catalogs \subseteq [Account -> Status]
    /\ MaxPlans \in Nat /\ MaxFaults \in Nat

VARIABLES
    st,         \* where every mover is in applyPlan
    assign,     \* plan.Assignments of the current plan
    expected,   \* plan.ExpectedRoutes
    awaited,    \* the generation waitForGeneration polls for
    overtaken,  \* observer: users of the plan another mover has moved since
    abandoned,  \* observer: a route change was given up without publishing it
    plans,      \* plans made so far
    faults      \* faults so far

moverVars == <<st, assign, expected, awaited>>
pubVars == <<minted, snap>>
vars == <<catalog, routes, minted, snap, loaded, selection, edge,
          st, assign, expected, awaited, overtaken, abandoned, plans, faults>>

MoverState == {"idle", "planned", "applied", "waiting",
               "failed", "restored", "rewaiting"}

NoPlan == [u \in User |-> NoAccount]

Fault == faults < MaxFaults /\ faults' = faults + 1
Enter(m, state) == st' = [st EXCEPT ![m] = state]

\* applyPlan returns: the plan is forgotten.
Return(m) ==
    /\ Enter(m, "idle")
    /\ assign' = [assign EXCEPT ![m] = NoPlan]
    /\ expected' = [expected EXCEPT ![m] = NoPlan]
    /\ awaited' = [awaited EXCEPT ![m] = 0]
    /\ overtaken' = [overtaken EXCEPT ![m] = {}]

\* What the other movers see of m changing routes.
Overtakes(m) ==
    overtaken' = [n \in Mover |->
        IF n = m THEN {}
        ELSE overtaken[n] \cup {u \in InPlan(assign[n]) : routes'[u] # routes[u]}]

-----------------------------------------------------------------------------
(* applyPlan *)

\* The planner reads the routes; the plan moves some users to other
\* accounts of the catalog (MoveUser, PlanEvacuation, PlanGlobalRebalance).
PlanMove(m) ==
    /\ st[m] = "idle"
    /\ plans < MaxPlans
    /\ \E plan \in Routing :
          /\ InPlan(plan) # {}
          /\ \A u \in InPlan(plan) :
                catalog[plan[u]] # "absent" /\ plan[u] # routes[u]
          /\ assign' = [assign EXCEPT ![m] = plan]
    /\ expected' = [expected EXCEPT ![m] = routes]
    /\ plans' = plans + 1
    /\ Enter(m, "planned")
    /\ UNCHANGED <<store, pubVars, dataPlane, awaited, overtaken, abandoned, faults>>

Apply(m) ==
    /\ st[m] = "planned"
    /\ ApplyRoutesExpected(assign[m], expected[m])
    /\ Overtakes(m)
    /\ Enter(m, "applied")
    /\ UNCHANGED <<pubVars, dataPlane, assign, expected, awaited, abandoned, plans, faults>>

\* ErrRouteConflict or ErrRouteTargetNotFound: nothing is written.
ApplyRefused(m) ==
    /\ st[m] = "planned"
    /\ ~CanApply(assign[m], expected[m])
    /\ Return(m)
    /\ UNCHANGED <<store, pubVars, dataPlane, abandoned, plans, faults>>

\* A publication whose file replacement succeeds.
Written ==
    /\ WriteSnapshot
    /\ abandoned' = FALSE
    /\ UNCHANGED <<store, dataPlane, plans>>

\* A publication that fails before the file is replaced: a read, the fence,
\* buildPayload, the disk.
NotWritten ==
    /\ abandoned' = TRUE
    /\ UNCHANGED <<store, pubVars, dataPlane, plans>>

\* The generation the mover then waits for.
Await(m, state) ==
    /\ Enter(m, state)
    /\ awaited' = [awaited EXCEPT ![m] = minted']
    /\ UNCHANGED <<assign, expected, overtaken>>

Publish(m) ==
    /\ st[m] = "applied"
    /\ Written
    /\ Await(m, "waiting")
    /\ UNCHANGED faults

\* writeSnapshot may also fail after the rename (chmod, chown).
PublishFails(m) ==
    /\ st[m] = "applied"
    /\ NotWritten \/ Written
    /\ Fault
    /\ Enter(m, "failed")
    /\ UNCHANGED <<assign, expected, awaited, overtaken>>

\* Mutant: any active generation will do.
ActivatedAny(m) == loaded[edge].gen # 0

\* probeAuthGeneration through the edge: the slot it forwards to has
\* activated exactly the awaited generation.
Activated(m) == loaded[edge].gen = awaited[m]

\* applyPlan returns success.
Confirm(m) ==
    /\ st[m] = "waiting"
    /\ Activated(m)
    /\ Return(m)
    /\ UNCHANGED <<store, pubVars, dataPlane, abandoned, plans, faults>>

\* Mutant: the wait has no deadline.
WaitForever(m) == FALSE /\ UNCHANGED vars

\* WaitTimeout passes: another publication replaced the file before the
\* gateway loaded it, the gateway is down, or it is just slow.
WaitTimeout(m) ==
    /\ st[m] = "waiting"
    /\ Enter(m, "failed")
    /\ UNCHANGED <<store, pubVars, dataPlane, assign, expected, awaited, overtaken,
                   abandoned, plans, faults>>

\* Mutant: the restored routes are not published.
RestoreSilently(m) ==
    /\ st[m] = "failed"
    /\ RestoreRoutesExpected(assign[m], expected[m])
    /\ Return(m)
    /\ UNCHANGED <<pubVars, dataPlane, abandoned, plans, faults>>

Restore(m) ==
    /\ st[m] = "failed"
    /\ RestoreRoutesExpected(assign[m], expected[m])
    /\ Overtakes(m)
    /\ Enter(m, "restored")
    /\ UNCHANGED <<pubVars, dataPlane, assign, expected, awaited, abandoned, plans, faults>>

\* Another mover has moved one of the users: nobody is put back, and nothing
\* is published.
RestoreRefused(m) ==
    /\ st[m] = "failed"
    /\ ~CanRestore(assign[m])
    /\ Return(m)
    /\ UNCHANGED <<store, pubVars, dataPlane, abandoned, plans, faults>>

Republish(m) ==
    /\ st[m] = "restored"
    /\ Written
    /\ Await(m, "rewaiting")
    /\ UNCHANGED faults

RepublishFails(m) ==
    /\ st[m] = "restored"
    /\ NotWritten \/ Written
    /\ Fault
    /\ Return(m)

\* Activated or timed out: applyPlan returns the error either way.
RollbackReturns(m) ==
    /\ st[m] = "rewaiting"
    /\ Return(m)
    /\ UNCHANGED <<store, pubVars, dataPlane, abandoned, plans, faults>>

\* A route write fails in the database or at the fence, or the process dies.
Crash(m) ==
    /\ st[m] # "idle"
    /\ Fault
    /\ abandoned' = (abandoned \/ st[m] \in {"applied", "restored"})
    /\ Return(m)
    /\ UNCHANGED <<store, pubVars, dataPlane, plans>>

-----------------------------------------------------------------------------

Init ==
    /\ catalog \in Catalogs
    /\ routes \in Routing
    /\ \A u \in User : routes[u] # NoAccount => catalog[routes[u]] # "absent"
    /\ minted = 1
    /\ snap = [gen |-> 1, view |-> Build]
    /\ loaded = [s \in Slot |-> snap]
    /\ selection \in Slot
    /\ edge = selection
    /\ st = [m \in Mover |-> "idle"]
    /\ assign = [m \in Mover |-> NoPlan]
    /\ expected = [m \in Mover |-> NoPlan]
    /\ awaited = [m \in Mover |-> 0]
    /\ overtaken = [m \in Mover |-> {}]
    /\ abandoned = FALSE
    /\ plans = 0
    /\ faults = 0

MoverNext(m) ==
    \/ PlanMove(m) \/ Apply(m) \/ ApplyRefused(m)
    \/ Publish(m) \/ PublishFails(m)
    \/ Confirm(m) \/ WaitTimeout(m)
    \/ Restore(m) \/ RestoreRefused(m)
    \/ Republish(m) \/ RepublishFails(m) \/ RollbackReturns(m)
    \/ Crash(m)

moveState == <<moverVars, overtaken, abandoned, plans>>

Reload(s) == Load(s) /\ UNCHANGED <<moveState, faults>>
Reselect == EdgeRefresh /\ UNCHANGED <<moveState, faults>>

DataPlaneNext ==
    \/ \E s \in Slot : Reload(s)
    \/ \E s \in Slot : GatewayRestart(s) /\ Fault /\ UNCHANGED moveState
    \/ \E s \in Slot \cup {NoSlot} : Select(s) /\ Fault /\ UNCHANGED moveState
    \/ Reselect

Next == (\E m \in Mover : MoverNext(m)) \/ DataPlaneNext

Spec == Init /\ [][Next]_vars

\* A plan that has started runs on (WaitTimeout bounds the only loop); the
\* loaders and the selector refresh from tickers.
Progress(m) ==
    \/ Apply(m) \/ ApplyRefused(m) \/ Publish(m) \/ PublishFails(m)
    \/ Confirm(m) \/ WaitTimeout(m) \/ Restore(m) \/ RestoreRefused(m)
    \/ Republish(m) \/ RepublishFails(m) \/ RollbackReturns(m)

Fairness ==
    /\ \A m \in Mover : WF_vars(Progress(m))
    /\ \A s \in Slot : WF_vars(Reload(s))
    /\ WF_vars(Reselect)

FairSpec == Spec /\ Fairness

-----------------------------------------------------------------------------
(* Properties *)

\* Types; in particular the edge keeps a slot whatever becomes of the file.
MovesTypeOK ==
    /\ PublicationTypeOK
    /\ st \in [Mover -> MoverState]
    /\ assign \in [Mover -> Routing]
    /\ expected \in [Mover -> Routing]
    /\ awaited \in [Mover -> Nat]
    /\ overtaken \in [Mover -> SUBSET User]
    /\ abandoned \in BOOLEAN
    /\ plans \in Nat
    /\ faults \in Nat

\* Once every mover that has changed routes has had its turn to publish, the
\* file says what the store says, however moves, timeouts and rollbacks
\* interleave; only a change given up half way leaves them apart, and the
\* next publication of anybody heals it.
PublishedMatchesStore ==
    ~abandoned /\ (\A m \in Mover : st[m] \notin {"applied", "restored"})
        => snap.view = Build

\* When applyPlan reports success, the gateway behind the edge serves every
\* user of the plan from the account it was moved to, unless another process
\* has moved that user meanwhile.
ConfirmedMoveIsServed ==
    [][\A m \in Mover :
          Confirm(m) =>
              \A u \in InPlan(assign[m]) \ overtaken[m] :
                  loaded[edge].view[u] = Served(assign[m][u])]_vars

\* Every move returns: a generation that another process has replaced before
\* any gateway saw it is not waited for for ever.
EveryMoveReturns == \A m \in Mover : []<>(st[m] = "idle")

\* When the moves and the faults are over, the gateway behind the edge serves
\* the routes of the store, unless a change was given up half way.
ServesTheStore == <>[](abandoned \/ loaded[edge].view = Build)

=============================================================================
