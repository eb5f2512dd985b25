-------------------------- MODULE AccountLifecycle --------------------------
(***************************************************************************)
(* Journaled account operations (internal/accountlifecycle).  Creating,    *)
(* updating and deleting an account and clearing its OAuth files change    *)
(* the store, the proxy secrets, the account directory, the Docker         *)
(* container and the published snapshot, one after the other.  A record in *)
(* the store (the journal) says which operation is under way and how far   *)
(* it came; when a step fails the operation undoes what it did, and when   *)
(* Admin dies Recover reconciles everything with the account row before    *)
(* Admin serves again.  Meanwhile gateways serve requests and the failover *)
(* worker, another process, moves users (RouteMoves models its moves).     *)
(*                                                                         *)
(* An operation is a list of steps still to do.  A step named after a      *)
(* journal phase stands for advanceOperation and for the effect-free work  *)
(* before it (rendering the projection, looking a container up).           *)
(***************************************************************************)
EXTENDS Publication, Sequences, FiniteSets

CONSTANTS
    Catalogs,        \* account catalogs the runs start from
    Routings,        \* routes they start from
    Customs,         \* sets of accounts with a custom proxy they start from
    Proxies,         \* proxy mode and URL an update may ask for
    FreshNames,      \* accounts are created under and renamed to free names only
    MaxOps,          \* bound on account operations
    MaxMoves,        \* bound on moves of the failover worker
    MaxRequests,     \* bound on requests outstanding at the same time
    MaxFaults        \* bound on failed steps and crashes of Admin

ASSUME LifecycleAssumption ==
    /\ Catalogs \subseteq [Account -> Status]
    /\ Routings \subseteq Routing
    /\ Customs \subseteq SUBSET Account
    /\ Proxies \subseteq [custom : BOOLEAN, key : BOOLEAN]
    /\ FreshNames \in BOOLEAN
    /\ MaxOps \in Nat /\ MaxMoves \in Nat
    /\ MaxRequests \in Nat /\ MaxFaults \in Nat

VARIABLES
    custom,     \* accounts whose row says proxy_mode = custom
    secret,     \* accounts with a stored proxy secret
    disk,       \* auth directory of every account
    backup,     \* its copy under backups/, made by the current operation
    docker,     \* container of every account
    journal,    \* runtime_state row account_lifecycle_operation
    mode,       \* what Admin is doing
    todo,       \* the steps still to do
    did,        \* steps the operation has done
    op,         \* local variables of the operation
    pending,    \* requests authorized and not yet counted: user and account
    inflight,   \* requests the gateway counts
    late,       \* observer: requests authorized and not yet counted when the
                \* gateway loaded a snapshot, since Admin's last publication
    mv,         \* the move of the failover worker
    worked,     \* observer: the operation has changed the store
    touched,    \* observer: users that worker has moved since the operation began
    count       \* operations, moves and faults so far

pub == <<minted, snap>>
host == <<custom, secret, disk, backup, docker>>
traffic == <<pending, inflight, late>>
vars == <<catalog, routes, minted, snap, loaded, selection, edge,
          custom, secret, disk, backup, docker, journal, mode, todo, did, op,
          pending, inflight, late, mv, worked, touched, count>>

Kind == {"create", "update", "delete", "clear_auth"}
Phase == {"accepted", "routes_prepared", "routes_evacuated", "files_prepared",
          "control_applied", "projection_rendered", "runtime_prepared",
          "snapshot_activated"}
Step == Phase \cup
    {"plan", "apply", "publish", "wait", "drain", "files", "control", "secrets",
     "secrets_begun", "render", "start", "stop", "restart", "restore", "remove_files",
     "undo_files", "undo_runtime", "undo_secrets", "undo_control", "undo_routes",
     "rec_secrets", "rec_files", "rec_stop", "rec_start", "rec_routes", "finish"}
Disk == {"none", "empty", "ready"}         \* no directory, no OAuth, OAuth
Container == {"none", "stopped", "running"}
NoPlan == [u \in User |-> NoAccount]

\* status, custom, key: the account's row and whether it has a proxy secret
\* after the operation; before, proxied, keyed, had: its row, secret and
\* container before it; changed: routes the
\* control step has changed; err: a step of the rollback has failed.
NoOp == [kind |-> "none", acct |-> NoAccount, new |-> NoAccount,
         status |-> "absent", custom |-> FALSE, key |-> FALSE, repair |-> FALSE,
         fallback |-> NoAccount, plan |-> NoPlan,
         before |-> "absent", proxied |-> FALSE, keyed |-> FALSE, had |-> "none",
         changed |-> NoPlan, awaited |-> 0, err |-> FALSE]
NoJournal == [kind |-> "none", acct |-> NoAccount, new |-> NoAccount,
              phase |-> "accepted", evac |-> NoPlan]
NoMove == [st |-> "none", plan |-> NoPlan, from |-> NoPlan]

Exists(a) == catalog[a] # "absent"
Fault == count.faults < MaxFaults /\ count' = [count EXCEPT !.faults = @ + 1]

\* selectEligibleFallback; which accounts have headroom is not modelled.
Fallbacks(a) == {f \in Account \ {a} : catalog[f] = "enabled"}
RoutedTo(a) == {u \in User : routes[u] = a}

-----------------------------------------------------------------------------
(* Starting an operation: the checks before beginOperation, then its first  *)
(* journal record.                                                          *)

CreateSteps ==
    <<"files", "files_prepared", "control", "secrets", "control_applied",
      "render", "projection_rendered", "start", "runtime_prepared",
      "publish", "wait", "snapshot_activated", "finish">>
DeleteSteps ==
    <<"files", "files_prepared", "control", "secrets", "control_applied",
      "render", "projection_rendered", "runtime_prepared",
      "publish", "wait", "snapshot_activated", "drain", "stop",
      "remove_files", "finish">>
Evacuation == <<"apply", "publish", "wait", "drain">>
UpdateSteps ==
    <<"routes_evacuated", "files", "files_prepared", "control", "secrets_begun",
      "secrets", "control_applied", "render", "projection_rendered", "stop", "start",
      "runtime_prepared", "restore", "publish", "wait",
      "snapshot_activated", "finish">>
ClearAuthSteps ==
    <<"routes_evacuated", "files", "files_prepared", "restart",
      "runtime_prepared", "restore">>

\* planRouteEvacuation found nobody to move: Apply and restoreTo do nothing.
Empty == op.plan = NoPlan

AfterPlan(kind, empty) ==
    <<"routes_prepared">> \o (IF empty THEN <<>> ELSE Evacuation)
        \o (IF kind = "update" THEN UpdateSteps
            ELSE ClearAuthSteps \o (IF empty THEN <<>> ELSE <<"publish", "wait">>)
                                \o <<"finish">>)

\* beginOperation refuses while another journal is there.
Begin(request, steps) ==
    /\ mode = "idle"
    /\ journal = NoJournal
    /\ count.ops < MaxOps
    /\ count' = [count EXCEPT !.ops = @ + 1]
    /\ journal' = [NoJournal EXCEPT !.kind = request.kind, !.acct = request.acct,
                                    !.new = request.new]
    /\ op' = request
    /\ mode' = "run"
    /\ todo' = steps
    /\ did' = {}
    /\ backup' = "none"
    /\ worked' = FALSE /\ touched' = {}
    /\ UNCHANGED <<store, pub, dataPlane, custom, secret, disk, docker, traffic, mv>>

Request(kind, a) ==
    [NoOp EXCEPT !.kind = kind, !.acct = a, !.new = a, !.before = catalog[a],
                 !.status = catalog[a], !.proxied = a \in custom,
                 !.custom = a \in custom, !.keyed = a \in secret,
                 !.key = a \in secret, !.had = docker[a]]

Create(a, isCustom) ==
    /\ a \notin secret
    /\ FreshNames => ~Exists(a)
    /\ Begin([Request("create", a) EXCEPT !.custom = isCustom, !.key = isCustom,
                                           !.status = "enabled"],
             CreateSteps)

\* The proxy mode may change, and a new URL be given or the old one removed:
\* a custom proxy needs one (updateProxyPlan).
Update(a, new, status, proxy) ==
    /\ Exists(a)
    /\ proxy.custom => proxy.key
    /\ new = a \/ new \notin secret
    /\ FreshNames => new = a \/ ~Exists(new)
    /\ Begin([Request("update", a) EXCEPT !.new = new, !.status = status,
                                          !.custom = proxy.custom, !.key = proxy.key],
             <<"plan">>)

\* AllowUnavailableProxyRepair: a routed account gets a custom proxy and is
\* rebuilt in place.
Repair(a) ==
    /\ Exists(a)
    /\ RoutedTo(a) # {}
    /\ Begin([Request("update", a) EXCEPT !.repair = TRUE, !.custom = TRUE, !.key = TRUE],
             AfterPlan("update", TRUE))

Delete(a) ==
    /\ Exists(a)
    /\ \E f \in Fallbacks(a) :
          Begin([Request("delete", a) EXCEPT !.fallback = f, !.status = "absent",
                                              !.custom = FALSE, !.key = FALSE],
                DeleteSteps)

ClearAuth(a) ==
    /\ Exists(a)
    /\ Begin(Request("clear_auth", a), <<"plan">>)

-----------------------------------------------------------------------------
(* Steps of an operation, of its rollback and of Recover. *)

Busy == mode \in {"run", "undo", "recover"}
At(step) == Busy /\ todo # <<>> /\ Head(todo) = step
Done == todo' = Tail(todo) /\ did' = did \cup {Head(todo)}

Kept == <<mode, pending, late, mv, touched, count, dataPlane>>
HostStep == Done /\ UNCHANGED <<Kept, store, pub, journal, op, worked>>

\* planRouteEvacuation and, for a disabled account, the effective fallback.
NeedsFallback == RoutedTo(op.acct) # {} \/ op.status = "disabled"

PlanEvacuation ==
    /\ At("plan")
    /\ \E f \in Fallbacks(op.acct) \cup {NoAccount} :
          /\ NeedsFallback <=> f # NoAccount
          /\ op' = [op EXCEPT !.fallback = f,
                    !.plan = [u \in User |-> IF routes[u] = op.acct THEN f ELSE NoAccount]]
    /\ todo' = AfterPlan(op.kind, op'.plan = NoPlan)
    /\ UNCHANGED <<Kept, store, pub, host, journal, did, inflight, worked>>

\* advanceOperation; EvacuatedRoutes goes in with routes_prepared.
AdvanceOperation ==
    /\ Busy /\ todo # <<>> /\ Head(todo) \in Phase
    /\ journal' = [journal EXCEPT !.phase = Head(todo), !.evac = op.plan]
    /\ Done
    /\ UNCHANGED <<Kept, store, pub, host, op, inflight, worked>>

OldRoutes == [u \in User |-> op.acct]

ApplyEvacuation ==
    /\ At("apply")
    /\ ApplyRoutesExpected(op.plan, OldRoutes)
    /\ worked' = TRUE
    /\ Done
    /\ UNCHANGED <<Kept, pub, host, journal, op, inflight>>

\* routeTransition.restoreTo
Strays(target) == {u \in InPlan(op.plan) : routes[u] # target}
CanRestoreTo(target) ==
    /\ \A u \in Strays(target) : routes[u] \in {op.plan[u], op.acct}
    /\ Strays(target) # {} => Exists(target)
RestoreTo(target) ==
    /\ CanRestoreTo(target)
    /\ routes' = [u \in User |-> IF u \in Strays(target) THEN target ELSE routes[u]]
    /\ UNCHANGED catalog

\* A cleared account gets its users back whatever its status.
RestoresRoutes == op.kind = "clear_auth" \/ op.status = "enabled"

RestoreRoutes ==
    /\ At("restore")
    /\ IF RestoresRoutes THEN RestoreTo(op.new) ELSE UNCHANGED store
    /\ Done
    /\ UNCHANGED <<Kept, pub, host, journal, op, inflight, worked>>

\* rollbackAuthClear keeps the fallback when the account is not proven usable.
UndoTarget == IF op.kind = "clear_auth" /\ op.err THEN op.fallback ELSE op.acct

UndoRoutes ==
    /\ At("undo_routes")
    /\ RestoreTo(UndoTarget)
    /\ Done
    /\ UNCHANGED <<Kept, pub, host, journal, op, inflight, worked>>

PublishAuthSnapshot ==
    /\ At("publish")
    /\ WriteSnapshot
    /\ op' = [op EXCEPT !.awaited = minted']
    /\ late' = {}
    /\ Done
    /\ UNCHANGED <<mode, pending, mv, touched, count, dataPlane, store, host, journal,
                   inflight, worked>>

WaitForGeneration ==
    /\ At("wait")
    /\ loaded[edge].gen = op.awaited
    /\ HostStep
    /\ UNCHANGED <<host, inflight>>

\* WaitAccountDrained; Delete waits only if it has moved somebody.
Drained(a) == \A u \in User : <<u, a>> \notin inflight

\* Mutant: the condition of Delete is inverted.
DrainInverted ==
    \/ Drained(op.acct)
    \/ mode = "run" /\ op.kind = "delete" /\ op.changed # NoPlan

DrainPasses ==
    \/ Drained(op.acct)
    \/ mode = "run" /\ op.kind = "delete" /\ op.changed = NoPlan

WaitAccountDrained ==
    /\ At("drain")
    /\ DrainPasses
    /\ HostStep
    /\ UNCHANGED <<host, inflight>>

-----------------------------------------------------------------------------
(* Rows, secrets and files. *)

\* ApplyAccountUpdate and ApplyAccountDeletion move the routes of a renamed,
\* disabled or deleted account.
Rerouted ==
    IF op.status # "enabled" THEN RoutedTo(op.acct) \cup RoutedTo(op.new)
    ELSE IF op.new # op.acct THEN RoutedTo(op.acct) ELSE {}

\* Where they go.  A request that names no fallback (the repair of a disabled
\* account) gets the default account or the first enabled one.
NewRoutes ==
    IF op.status = "enabled" THEN {op.new}
    ELSE IF op.fallback = NoAccount THEN Fallbacks(op.acct)
    ELSE Fallbacks(op.acct) \cap {op.fallback}

CanApplyControl ==
    /\ op.kind = "create" <=> ~Exists(op.acct)
    /\ op.new # op.acct => ~Exists(op.new)
    /\ NewRoutes # {}

ApplyControl ==
    /\ At("control")
    /\ CanApplyControl
    /\ catalog' = [catalog EXCEPT ![op.acct] = "absent", ![op.new] = op.status]
    /\ custom' = (custom \ {op.acct}) \cup (IF op.custom THEN {op.new} ELSE {})
    /\ \E a \in NewRoutes :
          /\ routes' = [u \in User |-> IF u \in Rerouted THEN a ELSE routes[u]]
          /\ op' = [op EXCEPT !.changed =
                      [u \in User |-> IF u \in Rerouted THEN a ELSE NoAccount]]
    /\ worked' = TRUE
    /\ Done
    /\ UNCHANGED <<Kept, pub, secret, disk, backup, docker, journal, inflight>>

\* RestoreAccountCreation, RestoreAccountUpdate, RestoreAccountDeletion
CanUndoControl ==
    /\ catalog[op.new] = op.status
    /\ op.new # op.acct => ~Exists(op.acct)
    /\ op.kind = "create" => RoutedTo(op.acct) = {}
    /\ \A u \in InPlan(op.changed) : routes[u] = op.changed[u]

UndoControl ==
    /\ At("undo_control")
    /\ CanUndoControl
    /\ catalog' = [catalog EXCEPT ![op.new] = "absent", ![op.acct] = op.before]
    /\ custom' = (custom \ {op.new}) \cup (IF op.proxied THEN {op.acct} ELSE {})
    /\ routes' = [u \in User |-> IF u \in InPlan(op.changed) THEN op.acct ELSE routes[u]]
    /\ Done
    /\ UNCHANGED <<Kept, pub, secret, disk, backup, docker, journal, op, inflight, worked>>

\* secretPlan.Apply writes one name at a time, in the order of the names: of a
\* rename the old name or the new one may come first.
NewSecret == IF op.key THEN {op.new} ELSE {}
OldSecret == IF op.keyed THEN {op.acct} ELSE {}

SecretsBegun ==
    /\ At("secrets_begun")
    /\ secret' \in IF op.new = op.acct THEN {secret}
                   ELSE {secret \ {op.acct}, secret \cup NewSecret}
    /\ HostStep
    /\ UNCHANGED <<custom, disk, backup, docker, inflight>>

ApplySecrets ==
    /\ At("secrets")
    /\ secret' = (secret \ {op.acct}) \cup NewSecret
    /\ HostStep
    /\ UNCHANGED <<custom, disk, backup, docker, inflight>>

UndoSecrets ==
    /\ At("undo_secrets")
    /\ secret' = (secret \ {op.acct, op.new}) \cup OldSecret
    /\ HostStep
    /\ UNCHANGED <<custom, disk, backup, docker, inflight>>

\* Render fails on a custom account without a secret (effectiveProxyURL).
Renderable == custom \subseteq secret

RenderProjection ==
    /\ At("render")
    /\ Renderable
    /\ HostStep
    /\ UNCHANGED <<host, inflight>>

Renames == op.new # op.acct
AtLeastEmpty(d) == IF d = "none" THEN "empty" ELSE d
FilesTargetTaken ==
    \/ op.kind = "create" /\ disk[op.acct] # "none"
    \/ Renames /\ disk[op.new] # "none"

\* PrepareCreate, PrepareUpdate, PrepareDelete, PrepareAuthClear
PrepareFiles ==
    /\ At("files")
    /\ ~FilesTargetTaken
    /\ backup' = IF op.kind = "create" \/ (op.kind = "update" /\ ~Renames)
                 THEN backup ELSE AtLeastEmpty(disk[op.acct])
    /\ disk' = CASE op.kind \in {"create", "clear_auth"} -> [disk EXCEPT ![op.acct] = "empty"]
                [] Renames -> [disk EXCEPT ![op.acct] = "none",
                                           ![op.new] = AtLeastEmpty(disk[op.acct])]
                [] OTHER -> disk
    /\ HostStep
    /\ UNCHANGED <<custom, secret, docker, inflight>>

\* Commit of a deletion
RemoveFiles ==
    /\ At("remove_files")
    /\ disk' = [disk EXCEPT ![op.acct] = "none"]
    /\ HostStep
    /\ UNCHANGED <<custom, secret, backup, docker, inflight>>

\* fileTransition.Rollback, where PrepareFiles has returned a transition
UndoFiles ==
    /\ At("undo_files")
    /\ disk' = IF "files" \notin did THEN disk
               ELSE CASE op.kind = "create" -> [disk EXCEPT ![op.acct] = "none"]
                      [] op.kind \in {"delete", "clear_auth"} -> [disk EXCEPT ![op.acct] = backup]
                      [] Renames -> [disk EXCEPT ![op.new] = "none", ![op.acct] = disk[op.new]]
                      [] OTHER -> disk
    /\ HostStep
    /\ UNCHANGED <<custom, secret, backup, docker, inflight>>

-----------------------------------------------------------------------------
(* Containers.  Stopping or restarting one breaks its requests. *)

Without(a) == {r \in inflight : r[2] # a}

\* PrepareCreate and the second half of PrepareUpdate: createAndProbe; a
\* candidate that does not answer is removed again.
StartContainer ==
    /\ At("start")
    /\ docker[op.new] = "none"
    /\ docker' = [docker EXCEPT ![op.new] = "running"]
    /\ HostStep
    /\ UNCHANGED <<custom, secret, disk, backup, inflight>>

\* removeContainer: the first half of PrepareUpdate, Commit of a deletion
StopContainer ==
    /\ At("stop")
    /\ docker' = [docker EXCEPT ![op.acct] = "none"]
    /\ inflight' = Without(op.acct)
    /\ HostStep
    /\ UNCHANGED <<custom, secret, disk, backup>>

RestartAccount ==
    /\ At("restart")
    /\ docker[op.acct] # "none"
    /\ docker' = [docker EXCEPT ![op.acct] = "running"]
    /\ inflight' = Without(op.acct)
    /\ HostStep
    /\ UNCHANGED <<custom, secret, disk, backup>>

\* accountRuntimeTransition.Rollback; no transition if nothing was done.
Unstarted ==
    IF "start" \in did THEN [docker EXCEPT ![op.new] = "none"] ELSE docker
Unserved == IF "start" \in did THEN Without(op.new) ELSE inflight

\* Once a rename is committed the old name has no configuration file, and
\* createAccountContainer refuses to make its container again.
ConfigGone == Renames /\ "runtime_prepared" \in did /\ op.had # "none"

UndoRuntime ==
    /\ At("undo_runtime")
    /\ ~ConfigGone
    /\ docker' = IF "stop" \in did \/ op.kind = "delete"
                 THEN [Unstarted EXCEPT ![op.acct] = op.had] ELSE Unstarted
    /\ inflight' = Unserved
    /\ HostStep
    /\ UNCHANGED <<custom, secret, disk, backup>>

-----------------------------------------------------------------------------
(* The end of an operation, failures and the rollback. *)

\* Mutant: the journal goes even if the rollback was incomplete.
FinishRegardless ==
    /\ At("finish")
    /\ journal' = NoJournal
    /\ mode' = IF mode = "recover" THEN "down" ELSE "idle"
    /\ todo' = <<>> /\ did' = {} /\ op' = NoOp
    /\ UNCHANGED <<store, pub, dataPlane, host, traffic, mv, worked, touched, count>>

\* Mutant: Recover returns without finishOperation.
FinishOnlyOperations ==
    /\ At("finish")
    /\ journal' = IF op.err \/ mode = "recover" THEN journal ELSE NoJournal
    /\ mode' = IF mode = "recover" THEN "down" ELSE "idle"
    /\ todo' = <<>> /\ did' = {} /\ op' = NoOp
    /\ UNCHANGED <<store, pub, dataPlane, host, traffic, mv, worked, touched, count>>

\* finalizeOperation keeps the journal if the rollback was incomplete.  The
\* startup that has recovered goes on (StartAdmin).
Finish ==
    /\ At("finish")
    /\ journal' = IF op.err THEN journal ELSE NoJournal
    /\ mode' = IF mode = "recover" THEN "down" ELSE "idle"
    /\ todo' = <<>> /\ did' = {} /\ op' = NoOp
    /\ UNCHANGED <<store, pub, dataPlane, host, traffic, mv, worked, touched, count>>

FinishFails ==
    /\ At("finish")
    /\ Fault
    /\ mode' = IF mode = "recover" THEN "down" ELSE "idle"
    /\ todo' = <<>> /\ did' = {} /\ op' = NoOp
    /\ UNCHANGED <<store, pub, dataPlane, host, journal, traffic, mv, worked, touched>>

Republish == <<"publish", "wait", "finish">>

\* What the handlers do when a step fails: rollbackCreation, rollbackUpdate,
\* rollbackDeletion, rollbackAuthClear and the error returns before them.
UndoProgram(step) ==
    CASE op.kind \in {"create", "delete"} /\ "control" \in did ->
            <<"undo_files", "undo_runtime", "undo_secrets", "undo_control", "render">>
                \o Republish
      [] op.kind \in {"create", "delete"} /\ "control" \notin did ->
            IF "files" \in did THEN <<"undo_files", "finish">> ELSE <<"finish">>
      [] op.kind \in {"update", "clear_auth"}
            /\ ("routes_prepared" \notin did \/ step = "apply") -> <<"finish">>
      [] op.kind = "update" /\ {"routes_prepared", "routes_evacuated"} \subseteq did
            /\ step # "apply" ->
            <<"undo_files", "undo_runtime", "undo_secrets">>
                \o (IF "control" \in did THEN <<"undo_control">> ELSE <<>>)
                \o <<"undo_routes", "render">> \o Republish
      [] OTHER ->
            (IF "files" \in did THEN <<"undo_files", "restart">> ELSE <<>>)
                \o <<"undo_routes">>
                \o (IF Empty /\ op.kind = "clear_auth" THEN <<"finish">> ELSE Republish)

\* A rollback goes on after a failure, but for what needs the failed step.
AfterUndoFailure(step) ==
    CASE step \in {"undo_control", "undo_routes", "render", "publish", "wait"} -> <<"finish">>
      [] step = "undo_files" /\ op.kind = "clear_auth" -> Tail(Tail(todo))
      [] OTHER -> Tail(todo)

\* Another publication has replaced the file before the gateway read it.
Superseded == snap.gen # op.awaited /\ loaded[edge].gen # op.awaited

\* The account a recovery reconciles with (recoveryAccount)
Desired ==
    CASE journal.kind = "none" -> NoAccount
      [] journal.kind # "none" /\ Exists(journal.new) -> journal.new
      [] journal.kind # "none" /\ ~Exists(journal.new) /\ Exists(journal.acct) -> journal.acct
      [] OTHER -> NoAccount
Other == IF Desired = op.acct THEN op.new ELSE op.acct

\* recoverEvacuatedRoutes
Returning ==
    IF Desired \in Account /\ catalog[Desired] = "enabled"
    THEN {u \in InPlan(op.plan) : routes[u] # Desired} ELSE {}
RouteConflict ==
    \E u \in Returning : routes[u] \notin {op.plan[u], op.acct, op.new}

\* Steps that fail by themselves: a check refuses, a wait can only time out;
\* the drain timeout may pass at any time (in a recovery it is one of the
\* bounded faults, since Admin is started again and again).
Blocked(step) ==
    \/ step = "plan" /\ NeedsFallback /\ Fallbacks(op.acct) = {}
    \/ step = "apply" /\ ~CanApply(op.plan, OldRoutes)
    \/ step = "wait" /\ Superseded
    \/ step = "drain" /\ mode = "run" /\ ~DrainPasses
    \/ step = "files" /\ FilesTargetTaken
    \/ step = "control" /\ ~CanApplyControl
    \/ step = "render" /\ ~Renderable
    \/ step = "start" /\ docker[op.new] # "none"
    \/ step = "restart" /\ docker[op.acct] = "none"
    \/ step = "restore" /\ RestoresRoutes /\ ~CanRestoreTo(op.new)
    \/ step = "undo_control" /\ ~CanUndoControl
    \/ step = "undo_routes" /\ ~CanRestoreTo(UndoTarget)
    \/ step = "rec_secrets" /\ Desired \in custom \ secret
          /\ ~(op.kind = "update" /\ Renames /\ (Desired = op.acct \/ op.acct \in secret))
    \/ step = "rec_files" /\ Renames /\ disk[op.acct] # "none" /\ disk[op.new] # "none"
    \/ step = "rec_routes" /\ RouteConflict

\* What a step may have done when it fails or Admin dies in it.
Partial ==
    \/ UNCHANGED <<host, inflight>>
    \/ /\ Head(todo) = "stop" /\ docker[op.acct] = "running"
       /\ docker' = [docker EXCEPT ![op.acct] = "stopped"]
       /\ inflight' = Without(op.acct)
       /\ UNCHANGED <<custom, secret, disk, backup>>
    \/ /\ Head(todo) = "undo_runtime"
       /\ docker' = Unstarted
       /\ inflight' = Unserved
       /\ UNCHANGED <<custom, secret, disk, backup>>
    \/ /\ Head(todo) = "undo_secrets"
       /\ secret' = secret \ {op.new}
       /\ UNCHANGED <<custom, disk, backup, docker, inflight>>
    \/ /\ Head(todo) = "files" /\ op.kind = "clear_auth"
       /\ disk' = [disk EXCEPT ![op.acct] = "empty"]
       /\ backup' = AtLeastEmpty(disk[op.acct])
       /\ UNCHANGED <<custom, secret, docker, inflight>>

\* The step after a failure: the rollback, its next step, or no startup.
AfterFailure ==
    CASE mode = "run" -> /\ mode' = "undo"
                         /\ todo' = UndoProgram(Head(todo))
                         /\ UNCHANGED <<did, op>>
      [] mode = "undo" -> /\ todo' = AfterUndoFailure(Head(todo))
                          /\ op' = [op EXCEPT !.err = TRUE]
                          /\ UNCHANGED <<mode, did>>
      [] mode = "recover" -> mode' = "down" /\ todo' = <<>> /\ did' = {} /\ op' = NoOp

StepRefused ==
    /\ Busy /\ Blocked(Head(todo))
    /\ AfterFailure
    /\ UNCHANGED <<store, pub, dataPlane, host, journal, traffic, mv, worked, touched, count>>

\* The rollback removes the new container and cannot make the old one again.
RecreateFails ==
    /\ At("undo_runtime")
    /\ ConfigGone
    /\ docker' = Unstarted
    /\ inflight' = Unserved
    /\ AfterFailure
    /\ UNCHANGED <<store, pub, dataPlane, custom, secret, disk, backup, journal, pending,
                   late, mv, worked, touched, count>>

StepFails ==
    /\ Busy /\ Head(todo) # "finish"
    /\ Fault
    /\ Partial
    /\ AfterFailure
    /\ UNCHANGED <<store, pub, dataPlane, journal, pending, late, mv, worked, touched>>

-----------------------------------------------------------------------------
(* Admin dies and comes back. *)

Crash ==
    /\ Busy
    /\ Fault
    /\ Partial
    /\ mode' = "down" /\ todo' = <<>> /\ did' = {} /\ op' = NoOp
    /\ UNCHANGED <<store, pub, dataPlane, journal, pending, late, mv, worked, touched>>

\* While a journal is retained operations are refused; an operator restarts.
Restart ==
    /\ mode = "idle" /\ journal # NoJournal
    /\ mode' = "down"
    /\ UNCHANGED <<store, pub, dataPlane, host, journal, todo, did, op, traffic, mv,
                   worked, touched, count>>

\* acceptedStateIsUnchanged
Unchanged ==
    IF journal.kind = "create" THEN Desired = NoAccount ELSE Desired = journal.acct

RecoverProgram ==
    IF journal.phase = "accepted" /\ Unchanged
    THEN IF journal.kind = "create" THEN <<"rec_files", "finish">> ELSE <<"finish">>
    ELSE IF journal.phase = "routes_prepared" /\ Unchanged
            /\ journal.kind \in {"update", "clear_auth"}
    THEN <<"rec_routes">> \o Republish
    ELSE IF Desired = NoAccount
    THEN <<"rec_secrets", "render", "publish", "wait">>
            \o (IF journal.kind = "delete" THEN <<"drain">> ELSE <<>>)
            \o <<"rec_stop", "rec_files", "finish">>
    ELSE <<"rec_secrets", "rec_files", "render", "rec_stop", "rec_start", "rec_routes">>
            \o Republish

\* Recover starts, or, with no journal, startup renders the projection.
StartAdmin ==
    /\ mode = "down"
    /\ journal.kind \in {"update", "clear_auth"} => Desired # NoAccount
    /\ IF journal = NoJournal
       THEN Renderable /\ mode' = "idle" /\ UNCHANGED <<todo, op>>
       ELSE /\ mode' = "recover"
            /\ todo' = RecoverProgram
            /\ op' = [NoOp EXCEPT !.kind = journal.kind, !.acct = journal.acct,
                                  !.new = journal.new, !.plan = journal.evac]
    /\ UNCHANGED <<store, pub, dataPlane, host, journal, did, traffic, mv, worked, touched, count>>

\* recoverProxySecrets
RecoverSecrets ==
    /\ At("rec_secrets")
    /\ ~Blocked("rec_secrets")
    /\ secret' =
         CASE Desired = NoAccount -> secret \ {op.acct}
           [] Desired # NoAccount /\ op.kind = "update" /\ Renames ->
                IF Desired = op.new /\ op.acct \in secret
                THEN (secret \ {op.acct}) \cup {op.new}
                ELSE secret \ {Other}
           [] OTHER -> secret
    /\ HostStep
    /\ UNCHANGED <<custom, disk, backup, docker, inflight>>

\* FileManager.Recover
RecoverFiles ==
    /\ At("rec_files")
    /\ ~Blocked("rec_files")
    /\ disk' =
         CASE Desired = NoAccount -> [disk EXCEPT ![op.acct] = "none"]
           [] Desired # NoAccount /\ op.kind = "clear_auth" ->
                IF backup = "none" THEN disk ELSE [disk EXCEPT ![op.acct] = "empty"]
           [] Desired # NoAccount /\ Renames ->
                [disk EXCEPT ![Other] = "none",
                             ![Desired] = IF disk[Desired] # "none" THEN @
                                          ELSE IF disk[Other] # "none" THEN disk[Other]
                                          ELSE AtLeastEmpty(backup)]
           [] OTHER -> [disk EXCEPT ![Desired] =
                          IF @ = "none" /\ op.kind = "delete"
                          THEN AtLeastEmpty(backup) ELSE AtLeastEmpty(@)]
    /\ HostStep
    /\ UNCHANGED <<custom, secret, backup, docker, inflight>>

\* Mutant: only the desired account's container is removed.
RecoverStopOne ==
    /\ At("rec_stop")
    /\ docker' = [docker EXCEPT ![IF Desired = NoAccount THEN op.acct ELSE Desired] = "none"]
    /\ inflight' = {r \in inflight : r[2] # Desired}
    /\ HostStep
    /\ UNCHANGED <<custom, secret, disk, backup>>

\* ReconcileAccount removes both containers, then creates the desired one.
RecoverStop ==
    /\ At("rec_stop")
    /\ docker' = [docker EXCEPT ![op.acct] = "none", ![op.new] = "none"]
    /\ inflight' = {r \in inflight : r[2] \notin {op.acct, op.new}}
    /\ HostStep
    /\ UNCHANGED <<custom, secret, disk, backup>>

RecoverStart ==
    /\ At("rec_start")
    /\ docker' = [docker EXCEPT ![Desired] = "running"]
    /\ HostStep
    /\ UNCHANGED <<custom, secret, disk, backup, inflight>>

RecoverEvacuatedRoutes ==
    /\ At("rec_routes")
    /\ ~RouteConflict
    /\ routes' = [u \in User |-> IF u \in Returning THEN Desired ELSE routes[u]]
    /\ Done
    /\ UNCHANGED <<Kept, catalog, pub, host, journal, op, inflight, worked>>

-----------------------------------------------------------------------------
(* Requests through the gateway behind the edge, and the failover worker. *)

\* handlePublicRequest: Authorize, inflight.Start, the proxied request's end
Authorize(u) ==
    LET a == loaded[edge].view[u] IN
    /\ a # NoAccount
    /\ Cardinality(pending) + Cardinality(inflight) < MaxRequests
    /\ pending' = pending \cup {<<u, a>>}
    /\ UNCHANGED <<store, pub, dataPlane, host, journal, mode, todo, did, op, inflight,
                   late, mv, worked, touched, count>>

CountRequest(r) ==
    /\ r \in pending
    /\ pending' = pending \ {r}
    /\ inflight' = inflight \cup {r}
    /\ UNCHANGED <<store, pub, dataPlane, host, journal, mode, todo, did, op, late, mv,
                   worked, touched, count>>

RequestDone(r) ==
    /\ r \in inflight
    /\ inflight' = inflight \ {r}
    /\ UNCHANGED <<store, pub, dataPlane, host, journal, mode, todo, did, op, pending,
                   late, mv, worked, touched, count>>

\* The active gateway reloads the snapshot.
Reload ==
    /\ Load(edge)
    /\ late' = late \cup pending
    /\ UNCHANGED <<host, journal, mode, todo, did, op, pending, inflight, mv, worked,
                   touched, count>>

Moves(users) == touched' = touched \cup users
MoverOnly ==
    UNCHANGED <<dataPlane, host, journal, mode, todo, did, op, traffic, worked>>

\* The worker moves a user to an account it finds enabled and running.
PlanMove(u, a) ==
    /\ mv = NoMove
    /\ count.moves < MaxMoves
    /\ catalog[a] = "enabled" /\ docker[a] = "running" /\ routes[u] # a
    /\ mv' = [st |-> "planned", plan |-> [NoPlan EXCEPT ![u] = a], from |-> routes]
    /\ count' = [count EXCEPT !.moves = @ + 1]
    /\ MoverOnly /\ UNCHANGED <<store, pub, touched>>

ApplyMove ==
    /\ mv.st = "planned"
    /\ IF CanApply(mv.plan, mv.from)
       THEN /\ ApplyRoutesExpected(mv.plan, mv.from)
            /\ Moves(InPlan(mv.plan))
            /\ mv' = [mv EXCEPT !.st = "applied"]
       ELSE mv' = NoMove /\ UNCHANGED <<store, touched>>
    /\ MoverOnly /\ UNCHANGED <<pub, count>>

PublishMove ==
    /\ mv.st = "applied"
    /\ WriteSnapshot
    /\ mv' = [mv EXCEPT !.st = "published"]
    /\ MoverOnly /\ UNCHANGED <<store, touched, count>>

ConfirmMove ==
    /\ mv.st = "published"
    /\ mv' = NoMove
    /\ MoverOnly /\ UNCHANGED <<store, pub, touched, count>>

\* The publication failed or was not activated in time.
RestoreMove ==
    /\ mv.st \in {"applied", "published"}
    /\ IF CanRestore(mv.plan)
       THEN /\ RestoreRoutesExpected(mv.plan, mv.from)
            /\ Moves(InPlan(mv.plan))
            /\ mv' = [mv EXCEPT !.st = "restored"]
       ELSE mv' = NoMove /\ UNCHANGED <<store, touched>>
    /\ MoverOnly /\ UNCHANGED <<pub, count>>

RepublishMove ==
    /\ mv.st = "restored"
    /\ WriteSnapshot
    /\ mv' = NoMove
    /\ MoverOnly /\ UNCHANGED <<store, touched, count>>

-----------------------------------------------------------------------------
Init ==
    /\ catalog \in Catalogs
    /\ routes \in Routings
    /\ \A u \in User : routes[u] # NoAccount => Exists(routes[u])
    /\ minted = 1
    /\ snap = [gen |-> 1, view |-> Build]
    /\ loaded = [s \in Slot |-> snap]
    /\ edge \in Slot /\ selection = edge
    /\ custom \in Customs
    /\ \A a \in custom : Exists(a)
    /\ secret = custom
    /\ disk = [a \in Account |-> IF Exists(a) THEN "ready" ELSE "none"]
    /\ docker = [a \in Account |-> IF Exists(a) THEN "running" ELSE "none"]
    /\ backup = "none"
    /\ journal = NoJournal
    /\ mode = "idle" /\ todo = <<>> /\ did = {} /\ op = NoOp
    /\ pending = {} /\ inflight = {} /\ late = {} /\ mv = NoMove
    /\ worked = FALSE /\ touched = {}
    /\ count = [ops |-> 0, moves |-> 0, faults |-> 0]

Operations ==
    \/ \E a \in Account, isCustom \in BOOLEAN : Create(a, isCustom)
    \/ \E a, new \in Account, status \in {"enabled", "disabled"}, proxy \in Proxies :
          Update(a, new, status, proxy)
    \/ \E a \in Account : Repair(a) \/ Delete(a) \/ ClearAuth(a)

\* What Admin does by itself once an operation or a start is under way.
AdminStep ==
    \/ PlanEvacuation \/ AdvanceOperation \/ ApplyEvacuation \/ RestoreRoutes
    \/ UndoRoutes \/ PublishAuthSnapshot \/ WaitForGeneration \/ WaitAccountDrained
    \/ ApplyControl \/ UndoControl \/ SecretsBegun \/ ApplySecrets \/ UndoSecrets
    \/ RenderProjection \/ PrepareFiles \/ RemoveFiles \/ UndoFiles
    \/ StartContainer \/ StopContainer \/ RestartAccount \/ UndoRuntime
    \/ Finish \/ StepRefused \/ RecreateFails \/ StartAdmin
    \/ RecoverSecrets \/ RecoverFiles \/ RecoverStop \/ RecoverStart
    \/ RecoverEvacuatedRoutes

Requests ==
    \/ \E u \in User : Authorize(u)
    \/ \E r \in pending : CountRequest(r)
    \/ \E r \in inflight : RequestDone(r)

Worker ==
    \/ \E u \in User, a \in Account : PlanMove(u, a)
    \/ ApplyMove \/ PublishMove \/ ConfirmMove \/ RestoreMove \/ RepublishMove

Next ==
    \/ Operations \/ AdminStep \/ FinishFails \/ StepFails \/ Crash \/ Restart
    \/ Requests \/ Reload \/ Worker

Spec == Init /\ [][Next]_vars

\* Admin is restarted when it is down and runs its handlers; the gateway polls
\* the snapshot file; authorized requests are counted and end.
FairSpec ==
    /\ Spec
    /\ WF_vars(AdminStep) /\ WF_vars(Reload)
    /\ \A u \in User, a \in Account :
          WF_vars(CountRequest(<<u, a>>)) /\ WF_vars(RequestDone(<<u, a>>))

-----------------------------------------------------------------------------
\* The types of the state; Admin is busy exactly while there are steps to do,
\* which it takes under a journal (beginOperation, finalizeOperation).
LifecycleTypeOK ==
    /\ PublicationTypeOK
    /\ custom \subseteq Account /\ secret \subseteq Account
    /\ disk \in [Account -> Disk] /\ backup \in Disk
    /\ docker \in [Account -> Container]
    /\ journal \in [kind : Kind \cup {"none"}, acct : Target, new : Target,
                    phase : Phase, evac : Routing]
    /\ mode \in {"idle", "run", "undo", "recover", "down"}
    /\ todo \in Seq(Step) /\ did \subseteq Step
    /\ op \in [kind : Kind \cup {"none"}, acct : Target, new : Target,
               status : Status, custom : BOOLEAN, key : BOOLEAN, repair : BOOLEAN,
               fallback : Target, plan : Routing,
               before : Status, proxied : BOOLEAN, keyed : BOOLEAN, had : Container,
               changed : Routing, awaited : Nat, err : BOOLEAN]
    /\ pending \subseteq User \X Account /\ inflight \subseteq User \X Account
    /\ late \subseteq User \X Account
    /\ mv \in [st : {"none", "planned", "applied", "published", "restored"},
               plan : Routing, from : Routing]
    /\ worked \in BOOLEAN /\ touched \subseteq User
    /\ count \in [ops : 0..MaxOps, moves : 0..MaxMoves, faults : 0..MaxFaults]
    /\ Busy <=> todo # <<>>
    /\ Busy => journal # NoJournal

\* When Admin accepts operations again, whatever failed or crashed before, the
\* five places agree: every account of the store has a container and a
\* directory and no other has; every custom proxy has its secret and no
\* secret is left over (it would refuse a later Create); and the published
\* snapshot is what the store says.
Reconciled ==
    mode = "idle" /\ journal = NoJournal =>
        /\ \A a \in Account : /\ Exists(a) <=> docker[a] # "none"
                              /\ Exists(a) <=> disk[a] # "none"
                              /\ a \in secret => Exists(a)
        /\ custom \subseteq secret
        /\ mv.st \notin {"applied", "restored"} => snap.view = Build

\* A container is stopped or restarted only when no request of the users the
\* operation has moved away from it is left, authorized or counted, unless
\* the failover worker has moved them too; the recovery of a deletion obeys
\* the same boundary ("Preserve every request that was admitted by the
\* previous snapshot", journal.go).  The exception is a request the gateway
\* had authorized but not yet counted when it loaded the snapshot without
\* the account: the drain does not see it.  The control step of a rename also
\* takes along users of the new name, and a repair is made to stop a routed
\* account.
Moved == InPlan(op.plan) \cup (IF Renames \/ op.repair THEN {} ELSE InPlan(op.changed))
Requested(a) == {u \in User : <<u, a>> \in (pending \cup inflight) \ late}
DrainedBeforeStop ==
    /\ mode = "run" /\ (At("stop") \/ At("restart")) =>
          Requested(op.acct) \cap Moved \subseteq touched
    /\ At("rec_stop") /\ op.kind = "delete" /\ Desired = NoAccount =>
          Requested(op.acct) = {}

\* The recovery of an operation other than an update, whose point it is,
\* rebuilds the container of an account users are routed to only if the
\* operation has changed the store: "This avoids replacing an active CPA when
\* no authoritative work began" (journal.go).
ActiveKeptWithoutWork ==
    At("rec_stop") /\ op.kind # "update" /\ ~worked =>
        \A a \in {op.acct, op.new} : docker[a] = "running" => RoutedTo(a) \subseteq touched

\* However operations and recoveries fail, Admin comes back to accept
\* operations, unless a custom proxy has lost its secret or the failover
\* worker has moved an evacuated user elsewhere: the two cases in which
\* Recover refuses on purpose.
Stuck == ~Renderable \/ (mode = "recover" /\ RouteConflict)
AdminComesBack == []<>(mode = "idle" \/ Stuck)

=============================================================================
