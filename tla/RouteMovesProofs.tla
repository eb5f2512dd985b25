-------------------------- MODULE RouteMovesProofs --------------------------
(***************************************************************************)
(* Proofs about RouteMoves, for every set of users, accounts, gateway      *)
(* slots and movers, and any number of plans and faults.                   *)
(***************************************************************************)
EXTENDS RouteMoves, TLAPS

\* A snapshot built from the store is a routing.
LEMMA BuildType == PublicationTypeOK => Build \in Routing
BY DEF PublicationTypeOK, Build, Served, Routing, Target

\* The type invariant: plans, restored routes and published views are always
\* routings over the accounts, whatever the movers do to each other.
THEOREM MovesTypeCorrect == Spec => []MovesTypeOK
<1>1. Init => MovesTypeOK
  <2> SUFFICES ASSUME Init PROVE MovesTypeOK
    OBVIOUS
  <2>1. NoPlan \in Routing
    BY DEF NoPlan, Routing, Target
  <2>2. Build \in Routing
    BY DEF Init, Build, Served, Routing, Target
  <2>3. snap \in Snapshot /\ minted \in Nat /\ loaded \in [Slot -> Snapshot]
    BY <2>2 DEF Init, Snapshot
  <2>4. catalog \in [Account -> Status]
    BY RouteMovesAssumption DEF Init
  <2> QED
    BY <2>1, <2>3, <2>4 DEF Init, MovesTypeOK, PublicationTypeOK, MoverState
<1>2. MovesTypeOK /\ [Next]_vars => MovesTypeOK'
  <2> SUFFICES ASSUME MovesTypeOK, [Next]_vars PROVE MovesTypeOK'
    OBVIOUS
  <2> USE DEF MovesTypeOK, moverVars, pubVars, dataPlane, store, moveState
  <2>0. Build \in Routing /\ NoPlan \in Routing
    BY BuildType DEF NoPlan, Routing, Target
  <2>a. ASSUME NEW m \in Mover, Return(m)
        PROVE /\ st' \in [Mover -> MoverState]
              /\ assign' \in [Mover -> Routing]
              /\ expected' \in [Mover -> Routing]
              /\ awaited' \in [Mover -> Nat]
              /\ overtaken' \in [Mover -> SUBSET User]
    BY <2>0, <2>a DEF Return, Enter, MoverState
  <2>b. ASSUME NEW m \in Mover, Overtakes(m)
        PROVE overtaken' \in [Mover -> SUBSET User]
    <3>1. \A n \in Mover : InPlan(assign[n]) \subseteq User
      BY DEF InPlan
    <3> QED
      BY <2>b, <3>1 DEF Overtakes
  <2>c. ASSUME Written PROVE PublicationTypeOK'
    BY <2>c, <2>0 DEF Written, WriteSnapshot, Snapshot, PublicationTypeOK
  <2>d. ASSUME UNCHANGED <<store, pubVars, dataPlane>> PROVE PublicationTypeOK'
    BY <2>d DEF PublicationTypeOK
  <2>1. ASSUME NEW m \in Mover, PlanMove(m) PROVE MovesTypeOK'
    BY <2>1, <2>d DEF PlanMove, Enter, MoverState, PublicationTypeOK
  <2>2. ASSUME NEW m \in Mover, Apply(m) PROVE MovesTypeOK'
    <3>1. routes' \in Routing
      BY <2>2 DEF Apply, ApplyRoutesExpected, PublicationTypeOK, Routing
    <3>2. PublicationTypeOK'
      BY <2>2, <3>1 DEF Apply, ApplyRoutesExpected, PublicationTypeOK
    <3> QED
      BY <2>2, <2>b, <3>2 DEF Apply, Enter, MoverState
  <2>3. ASSUME NEW m \in Mover,
               ApplyRefused(m) \/ Confirm(m) \/ RestoreRefused(m) \/ RollbackReturns(m)
        PROVE MovesTypeOK'
    BY <2>3, <2>a, <2>d DEF ApplyRefused, Confirm, RestoreRefused, RollbackReturns
  <2>e. ASSUME Written PROVE abandoned' \in BOOLEAN /\ plans' \in Nat
    BY <2>e DEF Written
  <2>f. ASSUME NotWritten
        PROVE PublicationTypeOK' /\ abandoned' \in BOOLEAN /\ plans' \in Nat
    BY <2>f, <2>d DEF NotWritten
  <2>4. ASSUME NEW m \in Mover, Publish(m) \/ Republish(m) PROVE MovesTypeOK'
    <3>0. Written
      BY <2>4 DEF Publish, Republish
    <3>1. minted' \in Nat
      BY <3>0, <2>c DEF PublicationTypeOK
    <3>2. PICK state \in {"waiting", "rewaiting"} : Await(m, state)
      BY <2>4 DEF Publish, Republish
    <3>3. st' \in [Mover -> MoverState] /\ awaited' \in [Mover -> Nat]
      BY <3>1, <3>2 DEF Await, Enter, MoverState
    <3>4. UNCHANGED <<assign, expected, overtaken, faults>>
      BY <2>4, <3>2 DEF Await, Publish, Republish
    <3> QED
      BY <2>c, <2>e, <3>0, <3>3, <3>4
  <2>5. ASSUME NEW m \in Mover, PublishFails(m) PROVE MovesTypeOK'
    <3>1. st' \in [Mover -> MoverState] /\ faults' \in Nat
      BY <2>5 DEF PublishFails, Fault, Enter, MoverState
    <3> QED
      BY <2>5, <2>c, <2>e, <2>f, <3>1 DEF PublishFails
  <2>6. ASSUME NEW m \in Mover, WaitTimeout(m) PROVE MovesTypeOK'
    BY <2>6, <2>d DEF WaitTimeout, Enter, MoverState
  <2>7. ASSUME NEW m \in Mover, Restore(m) PROVE MovesTypeOK'
    <3>1. routes' \in Routing
      BY <2>7 DEF Restore, RestoreRoutesExpected, PublicationTypeOK, Routing
    <3>2. PublicationTypeOK'
      BY <2>7, <3>1 DEF Restore, RestoreRoutesExpected, PublicationTypeOK
    <3> QED
      BY <2>7, <2>b, <3>2 DEF Restore, Enter, MoverState
  <2>8. ASSUME NEW m \in Mover, RepublishFails(m) PROVE MovesTypeOK'
    BY <2>8, <2>a, <2>c, <2>e, <2>f DEF RepublishFails, Fault
  <2>9. ASSUME NEW m \in Mover, Crash(m) PROVE MovesTypeOK'
    BY <2>9, <2>a, <2>d DEF Crash, Fault
  <2>10. CASE DataPlaneNext
    BY <2>10 DEF DataPlaneNext, Reload, Reselect, Load, GatewayRestart, Select,
                 EdgeRefresh, Fault, PublicationTypeOK, NothingLoaded, Snapshot,
                 Routing, Target
  <2>11. CASE UNCHANGED vars
    BY <2>11, <2>d DEF vars
  <2> QED
    BY <2>1, <2>2, <2>3, <2>4, <2>5, <2>6, <2>7, <2>8, <2>9, <2>10, <2>11
    DEF Next, MoverNext
<1> QED
  BY <1>1, <1>2, PTL DEF Spec

-----------------------------------------------------------------------------
(* The file and the store. *)

\* The snapshot file agrees with the store unless a mover still has a route
\* change to publish or has given one up: the publisher reads the store under
\* the lock it writes the file under, so nobody's change is overlooked.
THEOREM PublishedSafe == Spec => []PublishedMatchesStore
<1>1. Init => PublishedMatchesStore
  BY DEF Init, PublishedMatchesStore
<1>2. MovesTypeOK /\ PublishedMatchesStore /\ [Next]_vars => PublishedMatchesStore'
  <2> SUFFICES ASSUME MovesTypeOK, PublishedMatchesStore, [Next]_vars
               PROVE  PublishedMatchesStore'
    OBVIOUS
  <2> USE DEF moverVars, pubVars, dataPlane, store, moveState
  <2>a. ASSUME UNCHANGED <<store, snap>> PROVE Build' = Build /\ snap' = snap
    BY <2>a DEF Build, Served
  <2>b. ASSUME Written PROVE PublishedMatchesStore'
    <3>1. Build' = Build
      BY <2>b DEF Written, Build, Served
    <3>2. snap'.view = Build
      BY <2>b DEF Written, WriteSnapshot
    <3> QED
      BY <3>1, <3>2 DEF PublishedMatchesStore
  <2>1. ASSUME NEW m \in Mover,
               \/ PlanMove(m) \/ ApplyRefused(m) \/ Confirm(m) \/ WaitTimeout(m)
               \/ RestoreRefused(m) \/ RollbackReturns(m)
        PROVE PublishedMatchesStore'
    <3>1. UNCHANGED <<store, snap, abandoned>>
      BY <2>1 DEF PlanMove, ApplyRefused, Confirm, WaitTimeout, RestoreRefused,
                  RollbackReturns
    <3>2. st[m] \notin {"applied", "restored"}
      BY <2>1 DEF PlanMove, ApplyRefused, Confirm, WaitTimeout, RestoreRefused,
                  RollbackReturns
    <3>3. \A n \in Mover : n # m => st'[n] = st[n]
      BY <2>1 DEF MovesTypeOK, PlanMove, ApplyRefused, Confirm, WaitTimeout,
                  RestoreRefused, RollbackReturns, Return, Enter
    <3> QED
      BY <2>a, <3>1, <3>2, <3>3 DEF PublishedMatchesStore
  <2>2. ASSUME NEW m \in Mover, Apply(m) \/ Restore(m) PROVE PublishedMatchesStore'
    <3>1. st'[m] \in {"applied", "restored"}
      BY <2>2 DEF MovesTypeOK, Apply, Restore, Enter
    <3> QED
      BY <3>1 DEF PublishedMatchesStore
  <2>3. ASSUME NEW m \in Mover,
               Publish(m) \/ Republish(m) \/ PublishFails(m) \/ RepublishFails(m)
        PROVE PublishedMatchesStore'
    <3>1. CASE Written
      BY <2>b, <3>1
    <3>2. CASE NotWritten
      BY <3>2 DEF NotWritten, PublishedMatchesStore
    <3> QED
      BY <2>3, <3>1, <3>2 DEF Publish, Republish, PublishFails, RepublishFails
  <2>4. ASSUME NEW m \in Mover, Crash(m) PROVE PublishedMatchesStore'
    <3>1. \A n \in Mover : n # m => st'[n] = st[n]
      BY <2>4 DEF MovesTypeOK, Crash, Return, Enter
    <3>2. UNCHANGED <<store, snap>>
      BY <2>4 DEF Crash
    <3>3. abandoned' \/ (~abandoned /\ st[m] \notin {"applied", "restored"})
      BY <2>4 DEF Crash, MovesTypeOK
    <3> QED
      BY <2>a, <3>1, <3>2, <3>3 DEF PublishedMatchesStore
  <2>5. CASE DataPlaneNext \/ UNCHANGED vars
    <3>1. UNCHANGED <<store, snap, abandoned, st>>
      BY <2>5 DEF DataPlaneNext, Reload, Reselect, Load, GatewayRestart, Select,
                  EdgeRefresh, vars
    <3> QED
      BY <2>a, <3>1 DEF PublishedMatchesStore
  <2> QED
    BY <2>1, <2>2, <2>3, <2>4, <2>5 DEF Next, MoverNext
<1> QED
  BY <1>1, <1>2, MovesTypeCorrect, PTL DEF Spec

-----------------------------------------------------------------------------
(* What a confirmed move means. *)

\* The view serves every user of m's plan that nobody else has moved.
ServesPlan(view, m) ==
    \A u \in InPlan(assign[m]) \ overtaken[m] : view[u] = Served(assign[m][u])

\* Nobody has a generation that has not been handed out.
GenerationsHandedOut ==
    /\ snap.gen <= minted
    /\ \A s \in Slot : loaded[s].gen <= minted
    /\ \A m \in Mover : awaited[m] <= minted
    /\ \A m \in Mover : st[m] = "waiting" => awaited[m] > 0

\* From the route write until the move is over, the routes of the plan are
\* the ones the plan wrote, but for the users other movers have moved.
RoutesAsPlanned ==
    \A m \in Mover : st[m] \in {"applied", "waiting"} =>
        \A u \in InPlan(assign[m]) \ overtaken[m] : routes[u] = assign[m][u]

\* The awaited generation identifies a view that serves the plan, in the
\* file and in every gateway that has loaded it.
AwaitedServes ==
    \A m \in Mover : st[m] = "waiting" =>
        /\ snap.gen = awaited[m] => ServesPlan(snap.view, m)
        /\ \A s \in Slot :
              loaded[s].gen = awaited[m] => ServesPlan(loaded[s].view, m)

MInv == GenerationsHandedOut /\ RoutesAsPlanned /\ AwaitedServes

\* A step of m that leaves the store, the file and the other movers alone
\* and does not start m waiting.
LEMMA MInvOwnStep ==
    ASSUME MovesTypeOK, MovesTypeOK', MInv, NEW m \in Mover,
           UNCHANGED <<store, pubVars, dataPlane>>,
           st'[m] \notin {"applied", "waiting"},
           awaited'[m] \in {0, awaited[m]},
           \A n \in Mover : n # m =>
               /\ st'[n] = st[n] /\ awaited'[n] = awaited[n]
               /\ assign'[n] = assign[n] /\ overtaken'[n] = overtaken[n]
    PROVE  MInv'
<1> USE DEF MovesTypeOK, PublicationTypeOK, Snapshot, store, pubVars, dataPlane, MInv
<1>1. GenerationsHandedOut'
  BY SMTT(30) DEF GenerationsHandedOut
<1>2. RoutesAsPlanned'
  BY DEF RoutesAsPlanned, InPlan
<1>3. AwaitedServes'
  BY DEF AwaitedServes, ServesPlan, Served, InPlan
<1> QED
  BY <1>1, <1>2, <1>3

\* A route write by m, which other movers see in their overtaken sets.
LEMMA MInvRouteWrite ==
    ASSUME MovesTypeOK, MovesTypeOK', MInv, NEW m \in Mover,
           UNCHANGED <<catalog, pubVars, dataPlane, assign, awaited>>,
           Overtakes(m),
           \A n \in Mover : n # m => st'[n] = st[n],
           st'[m] # "waiting",
           st'[m] = "applied" =>
               \A u \in InPlan(assign[m]) : routes'[u] = assign[m][u]
    PROVE  MInv'
<1> USE DEF MovesTypeOK, PublicationTypeOK, Snapshot, store, pubVars, dataPlane, MInv
<1>1. GenerationsHandedOut'
  BY DEF GenerationsHandedOut
<1>2. \A n \in Mover : n # m =>
          overtaken'[n] = overtaken[n]
              \cup {u \in InPlan(assign[n]) : routes'[u] # routes[u]}
  BY DEF Overtakes
<1>3. RoutesAsPlanned'
  BY <1>2 DEF RoutesAsPlanned, InPlan
<1>4. AwaitedServes'
  BY <1>2 DEF AwaitedServes, ServesPlan, Served, InPlan
<1> QED
  BY <1>1, <1>3, <1>4

\* A publication by m: the file gets a generation nobody waits for or has
\* loaded, with the view of the routes of that moment.
LEMMA MInvWritten ==
    ASSUME MovesTypeOK, MovesTypeOK', MInv, NEW m \in Mover,
           Written,
           \A n \in Mover : n # m =>
               /\ st'[n] = st[n] /\ awaited'[n] = awaited[n]
               /\ assign'[n] = assign[n] /\ overtaken'[n] = overtaken[n],
           st'[m] # "applied",
           st'[m] = "waiting" =>
               /\ st[m] = "applied" /\ awaited'[m] = minted'
               /\ assign'[m] = assign[m] /\ overtaken'[m] = overtaken[m],
           awaited'[m] \in {0, awaited[m], minted'}
    PROVE  MInv'
<1> USE DEF MovesTypeOK, PublicationTypeOK, Snapshot, store, dataPlane, MInv
<1>1. /\ minted' = minted + 1 /\ snap'.gen = minted + 1 /\ snap'.view = Build
      /\ UNCHANGED <<catalog, routes, loaded>>
  BY DEF Written, WriteSnapshot
<1>2. GenerationsHandedOut'
  BY <1>1 DEF GenerationsHandedOut
<1>3. RoutesAsPlanned'
  BY <1>1 DEF RoutesAsPlanned, InPlan
<1>4. ASSUME NEW n \in Mover, st'[n] = "waiting"
      PROVE  /\ snap'.gen = awaited'[n] => ServesPlan(snap.view, n)'
             /\ \A s \in Slot :
                   loaded'[s].gen = awaited'[n] => ServesPlan(loaded[s].view, n)'
  <2>1. CASE n # m
    <3>1. awaited'[n] <= minted
      BY <2>1 DEF GenerationsHandedOut
    <3>2. snap'.gen # awaited'[n]
      BY <1>1, <3>1
    <3>3. \A s \in Slot :
             loaded'[s].gen = awaited'[n] => ServesPlan(loaded[s].view, n)'
      BY <1>1, <1>4, <2>1 DEF AwaitedServes, ServesPlan, Served, InPlan
    <3> QED
      BY <3>2, <3>3
  <2>2. CASE n = m
    <3>1. \A s \in Slot : loaded'[s].gen # awaited'[m]
      BY <1>1, <1>4, <2>2 DEF GenerationsHandedOut
    <3>2. \A u \in InPlan(assign[m]) \ overtaken[m] : Build[u] = Served(assign[m][u])
      BY <1>4, <2>2 DEF RoutesAsPlanned, Build, InPlan
    <3>3. ServesPlan(snap.view, m)'
      BY <1>1, <1>4, <2>2, <3>2 DEF ServesPlan, Served, InPlan
    <3> QED
      BY <2>2, <3>1, <3>3
  <2> QED
    BY <2>1, <2>2
<1>5. AwaitedServes'
  BY <1>4 DEF AwaitedServes
<1> QED
  BY <1>2, <1>3, <1>5

\* Every step of a mover, a loader or the edge keeps the invariant.
LEMMA MInvStep ==
    ASSUME MovesTypeOK, MovesTypeOK', MInv, [Next]_vars PROVE MInv'
<1> USE DEF moverVars, pubVars, dataPlane, store, moveState
<1>1. ASSUME NEW m \in Mover,
             \/ PlanMove(m) \/ ApplyRefused(m) \/ Confirm(m) \/ WaitTimeout(m)
             \/ RestoreRefused(m) \/ RollbackReturns(m) \/ Crash(m)
      PROVE MInv'
  <2>1. UNCHANGED <<store, pubVars, dataPlane>>
    BY <1>1 DEF PlanMove, ApplyRefused, Confirm, WaitTimeout, RestoreRefused,
                RollbackReturns, Crash
  <2>2. st'[m] \notin {"applied", "waiting"} /\ awaited'[m] \in {0, awaited[m]}
    BY <1>1 DEF MovesTypeOK, PlanMove, ApplyRefused, Confirm, WaitTimeout,
                RestoreRefused, RollbackReturns, Crash, Return, Enter
  <2>3. \A n \in Mover : n # m =>
            /\ st'[n] = st[n] /\ awaited'[n] = awaited[n]
            /\ assign'[n] = assign[n] /\ overtaken'[n] = overtaken[n]
    BY <1>1 DEF MovesTypeOK, PlanMove, ApplyRefused, Confirm, WaitTimeout,
                RestoreRefused, RollbackReturns, Crash, Return, Enter
  <2> QED
    BY <2>1, <2>2, <2>3, MInvOwnStep
<1>2. ASSUME NEW m \in Mover, Apply(m) PROVE MInv'
  <2>1. \A u \in InPlan(assign[m]) : routes'[u] = assign[m][u]
    BY <1>2 DEF Apply, ApplyRoutesExpected, InPlan
  <2>2. (\A n \in Mover : n # m => st'[n] = st[n]) /\ st'[m] = "applied"
    BY <1>2 DEF MovesTypeOK, Apply, Enter
  <2>3. UNCHANGED <<catalog, pubVars, dataPlane, assign, awaited>> /\ Overtakes(m)
    BY <1>2 DEF Apply, ApplyRoutesExpected
  <2> QED
    BY <2>1, <2>2, <2>3, MInvRouteWrite
<1>3. ASSUME NEW m \in Mover, Restore(m) PROVE MInv'
  <2>1. (\A n \in Mover : n # m => st'[n] = st[n]) /\ st'[m] = "restored"
    BY <1>3 DEF MovesTypeOK, Restore, Enter
  <2>2. UNCHANGED <<catalog, pubVars, dataPlane, assign, awaited>> /\ Overtakes(m)
    BY <1>3 DEF Restore, RestoreRoutesExpected
  <2> QED
    BY <2>1, <2>2, MInvRouteWrite
<1>4. ASSUME NEW m \in Mover,
             Publish(m) \/ Republish(m) \/ PublishFails(m) \/ RepublishFails(m)
      PROVE MInv'
  <2>1. \A n \in Mover : n # m =>
            /\ st'[n] = st[n] /\ awaited'[n] = awaited[n]
            /\ assign'[n] = assign[n] /\ overtaken'[n] = overtaken[n]
    BY <1>4 DEF MovesTypeOK, Publish, Republish, PublishFails, RepublishFails,
                Await, Return, Enter
  <2>2. st'[m] # "applied"
    BY <1>4 DEF MovesTypeOK, Publish, Republish, PublishFails, RepublishFails,
                Await, Return, Enter
  <2>3. CASE Written
    <3>1. st'[m] = "waiting" =>
              /\ st[m] = "applied" /\ awaited'[m] = minted'
              /\ assign'[m] = assign[m] /\ overtaken'[m] = overtaken[m]
      BY <1>4 DEF MovesTypeOK, Publish, Republish, PublishFails, RepublishFails,
                  Await, Return, Enter
    <3>2. awaited'[m] \in {0, awaited[m], minted'}
      BY <1>4 DEF MovesTypeOK, Publish, Republish, PublishFails, RepublishFails,
                  Await, Return, Enter
    <3> QED
      BY <2>1, <2>2, <2>3, <3>1, <3>2, MInvWritten
  <2>4. CASE NotWritten
    <3>1. UNCHANGED <<store, pubVars, dataPlane>>
      BY <2>4 DEF NotWritten
    <3>2. CASE PublishFails(m) \/ RepublishFails(m)
      <4>1. st'[m] \notin {"applied", "waiting"} /\ awaited'[m] \in {0, awaited[m]}
        BY <3>2 DEF MovesTypeOK, PublishFails, RepublishFails, Return, Enter
      <4> QED
        BY <2>1, <3>1, <4>1, MInvOwnStep
    <3>3. CASE Publish(m) \/ Republish(m)
      BY <2>3, <3>3 DEF Publish, Republish
    <3> QED
      BY <1>4, <3>2, <3>3
  <2> QED
    BY <1>4, <2>3, <2>4 DEF Publish, Republish, PublishFails, RepublishFails
<1>5. ASSUME NEW s \in Slot,
             Load(s) \/ GatewayRestart(s), UNCHANGED moveState
      PROVE MInv'
  <2> USE DEF MovesTypeOK, PublicationTypeOK, Snapshot, MInv
  <2>1. UNCHANGED <<store, pubVars>>
    BY <1>5 DEF Load, GatewayRestart
  <2>2. loaded' = [loaded EXCEPT ![s] = snap]
        \/ loaded' = [loaded EXCEPT ![s] = NothingLoaded]
    BY <1>5 DEF Load, GatewayRestart
  <2>3. GenerationsHandedOut' /\ RoutesAsPlanned'
    BY <1>5, <2>1, <2>2 DEF GenerationsHandedOut, RoutesAsPlanned, NothingLoaded, InPlan
  <2>4. ASSUME NEW m \in Mover, st'[m] = "waiting", NEW t \in Slot,
               loaded'[t].gen = awaited'[m]
        PROVE  ServesPlan(loaded[t].view, m)'
    <3>1. awaited[m] > 0 /\ st[m] = "waiting"
      BY <1>5, <2>4 DEF GenerationsHandedOut
    <3>2. loaded'[t] = loaded[t] \/ loaded'[t] = snap
      BY <1>5, <2>2, <2>4, <3>1 DEF NothingLoaded
    <3> QED
      BY <1>5, <2>1, <2>4, <3>1, <3>2 DEF AwaitedServes, ServesPlan, Served, InPlan
  <2>5. ASSUME NEW m \in Mover, st'[m] = "waiting", snap'.gen = awaited'[m]
        PROVE  ServesPlan(snap.view, m)'
    BY <1>5, <2>1, <2>5 DEF AwaitedServes, ServesPlan, Served, InPlan
  <2> QED
    BY <2>3, <2>4, <2>5 DEF AwaitedServes
<1>6. ASSUME UNCHANGED <<store, pubVars, loaded, moveState>> PROVE MInv'
  BY <1>6 DEF MInv, GenerationsHandedOut, RoutesAsPlanned, AwaitedServes,
              ServesPlan, Served, InPlan
<1>7. CASE DataPlaneNext
  BY <1>5, <1>6, <1>7 DEF DataPlaneNext, Reload, Reselect, Select, EdgeRefresh
<1>8. CASE UNCHANGED vars
  BY <1>6, <1>8 DEF vars
<1> QED
  BY <1>1, <1>2, <1>3, <1>4, <1>7, <1>8 DEF Next, MoverNext

\* When a move is reported as done, the gateway behind the edge serves every
\* user of the plan from its new account, unless another process has moved
\* the user meanwhile.
THEOREM ConfirmedServed == Spec => ConfirmedMoveIsServed
<1>1. Init => MInv
  BY DEF Init, MInv, GenerationsHandedOut, RoutesAsPlanned, AwaitedServes
<1>2. MovesTypeOK /\ MovesTypeOK' /\ MInv /\ [Next]_vars => MInv'
  BY MInvStep
<1>3. MovesTypeOK /\ MInv /\ [Next]_vars =>
        [\A m \in Mover :
            Confirm(m) =>
                \A u \in InPlan(assign[m]) \ overtaken[m] :
                    loaded[edge].view[u] = Served(assign[m][u])]_vars
  <2> SUFFICES ASSUME MovesTypeOK, MInv, NEW m \in Mover, Confirm(m)
               PROVE  \A u \in InPlan(assign[m]) \ overtaken[m] :
                        loaded[edge].view[u] = Served(assign[m][u])
    OBVIOUS
  <2>1. st[m] = "waiting" /\ loaded[edge].gen = awaited[m] /\ edge \in Slot
    BY DEF Confirm, Activated, MovesTypeOK, PublicationTypeOK
  <2> QED
    BY <2>1 DEF MInv, AwaitedServes, ServesPlan
<1> QED
  BY <1>1, <1>2, <1>3, MovesTypeCorrect, PTL DEF Spec, ConfirmedMoveIsServed

=============================================================================
