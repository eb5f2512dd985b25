# Verification of codex-cpa-pool

TLA+ models of the control plane and the data plane of codex-cpa-pool, the TLC
runs that check them on small instances, and TLAPS proofs of the results that
hold for every instance. `PROJECT.json` lists every run, its properties, the
source lines each definition stands for, the hazards the properties are aimed
at, and the theorems.

    tlc -workers 2 -config Ownership.cfg MCOwnership
    tlapm OwnershipProofs.tla

## The system

codex-cpa-pool is a single-host Docker Compose deployment. Accounts (one
upstream container each, a CPA), users, their routes and keys live in
`control-plane.sqlite3`; usage lives in `usage.sqlite3`. Admin, which also
serves the Portal, and a handful of workers write these stores; two gateways
(blue and green) behind an edge serve requests from files the writers publish.

| Component | State | Operations | Talks to | What is hard |
|---|---|---|---|---|
| Runtime ownership (`controlplane/lease.go`, `ownership`, `cmd/ownership`) | one lease row per scope; every process keeps a copy of two leases, its write fence | take, join, renew, release; heartbeat; activate and release by an operator | every write transaction validates the fence | two deployments on one root, expiry, a clock that is set back, external effects that outlive the check |
| Store (`controlplane/store.go`) | SQLite file, `flock`, the installed fence | `exclusive`, `writeTransaction`, `WithWriteFence` | used by every writer | a lock held during a long external call |
| Route store (`controlplane/routes.go`) | `user_routes` | compare-and-set of a plan, its restoration | moves and account operations | two processes moving one user |
| Route moves (`failover/service.go`) | the plan in memory | apply, publish, wait, roll back | store, publication | failure between two steps, another mover in between |
| Publication (`failover/auth_snapshot.go`) | `auth-snapshot.json` with a random generation | build, replace, wait until the gateway reports it | gateways, over the edge | a generation replaced before anybody loaded it |
| Planner (`failover/planner.go`) | none | weighted rebalance, evacuation, least used account | route moves | ties, reserves, users that cannot be placed |
| Failover controller (`failover/controller.go`, `quota_states.go`, `providers.go`) | the `account_failover` row | a round every poll interval; states for Admin's own moves | quota row, probes, route moves | decisions on states that are out of date, retries |
| Gateway (`gateway`) | three loaded files, requests in flight | poll, authorise, count, proxy | snapshot files | keys expire closed, quotas open, each file on its own |
| Edge (`edge`) | active slot | reread `active-gateway.conf` | gateways | slots at different generations |
| Account lifecycle (`accountlifecycle`, `runtimeops/account_*.go`, `controlplane/account_lifecycle.go`) | account rows, proxy secrets, directories and backups, containers, a journal row | create, update (rename, disable, proxy), repair, delete, clear OAuth; recover at startup | all of the above | five places changed one after the other, any step or undo failing, a crash anywhere, the failover worker moving the same users |
| Users and keys, Portal (`admin/user_lifecycle.go`, `controlplane/user_lifecycle.go`, `identity`, `portal`) | key records, internal keys, credentials, sessions | create, rotate, revoke, delete, reset a password; sign in, change the password, rotate, choose a route | projection, publication, the collector's and the failover worker's synchronisation of internal keys | no journal: only the handler's own rollback; other processes publish meanwhile |
| Configuration Center (`admin/configuration*.go` and the settings pages) | settings rows, the proxy secret, Compose environment, account files | save, apply, undo; single-row pages | renderer, containers, collector | a read and a replacement of the whole table; a failure half-way through applying |
| Collector and usage (`collector`, `usage`) | queues, events, weekly counters, policies, adjustments | a round: identities, time zone, policies, batches, quotas, files | account queues, gateway | a batch is gone once taken; several transactions make one change |
| Quota worker (`quota`, `cmd/quota`) | `official_quota` and `official_quota_refresh` rows | scheduled and requested rounds, cooldown recovery, reset credits | upstream, account containers | answers that arrive late, upstream state nobody locks |
| Notifications (`notifications`) | `notifications` row | scheduled reports, alerts | a webhook | sent and not recorded |
| Runtime jobs and images (`runtimeops/jobs.go`, `images.go`, `docker.go`) | jobs, queue, history; image references and containers | submit, cancel, finish; pull, update, start, stop | Docker | late finishes, cancellation in the middle of a rollback |
| Account status, log maintenance (`accountstatus`, `logmaintenance`) | a cache; the access log and its backups | observe, refresh; append, rotate, read on | containers, route changes | one cache entry for several askers; a file truncated under its reader |
| Bootstrap, release control, reports, web, frontend | | | | not modelled |

Admin's handlers share one mutex (`identityOperationLock`) for account, user and
route operations; the failover worker, the collector and the quota worker are
other processes and only the store separates them.

What makes the parts correct: one owner writes at a time and an old one is
refused (ownership); the published file says what the store says, and a
confirmed move is served (moves); plans are as good as they can be, made from
recent capacity, and nobody is left behind (failover); after any failure or
crash the places an operation changes agree again (accounts, users,
configuration, images); retired keys and old quotas stop counting (gateway);
counters are what the events say (usage); a requested refresh is a new one
(quota); a message is neither lost nor repeated but for a lost answer
(notifications).

## Modules

| Module | Models | Runs |
|---|---|---|
| `FencedStore` | abstract: a store that accepts writes from the newest generations only | |
| `Ownership`, `MCOwnership`, `OwnershipProofs` | leases, fence, guard and heartbeat, file lock, operator commands, clock | `ownership`, `ownership_activate_race` |
| `Publication` | the route store, the snapshot file, the gateways' loaded snapshots, the edge's slot; operators shared by the next two | |
| `RouteMoves`, `MCRouteMoves`, `RouteMovesProofs` | `applyPlan` run by several processes over `Publication` | `route_moves` |
| `AccountLifecycle`, `MCAccountLifecycle`, `AccountLifecycleProofs` | journaled account operations over `Publication`, with requests and a mover | `lifecycle_*` |
| `Planner`, `PlannerCases` | the planner as operators; every case against every other plan for it | `control_plane` |
| `FailoverControl`, `MCFailover` | the failover worker over `Planner`, between the quota row and Admin's moves | `failover`, `failover_stale_plan` |
| `Enforcement` | the gateway's loader and its decisions over three files | `control_plane` |
| `UserKeys` | the life of one user: keys, internal key, password, sessions, file and gateway | `control_plane` |
| `Configuration`, `MCConfiguration` | the Configuration Center beside the settings pages | `control_plane`, `configuration_pages` |
| `Metering` | the collector's round, usage events, weekly quotas | `workers` |
| `Notifications` | the notification worker and the pages that configure it | `workers` |
| `QuotaWorker` | refresh requests, rounds, cooldown recovery, reset credits | `control_plane` |
| `RuntimeJobs`, `ImageUpdate` | the job manager; image pull, update and rollback | `control_plane` |
| `StatusObserver`, `AccessLog` | the status cache; the access log with its rotation and its reader | `control_plane` |
| `MCWorkers`, `MCControlPlane` | sums: a behaviour is one of the parts, the others rest | `workers`, `control_plane` |
| `UserKeysProofs` | proofs about `UserKeys` | |
| `ControlPlaneProofs` | proofs about `StatusObserver`, `Enforcement`, `RuntimeJobs`, `ImageUpdate`, `Configuration`, `QuotaWorker` and `AccessLog`, a section each | |
| `WorkersProofs` | proofs about `Notifications` and `Metering` | |
| `FailoverProofs` | proofs about `Planner`, `PlannerCases` and `FailoverControl` | |
| `InductionLemmas` | least elements and induction over the naturals, used by the last three | |

Where parts meet, one module states as a property what another takes for
granted: `FailoverControl` applies a plan in one step with the outcomes
`RouteMoves` shows `applyPlan` to have; `Enforcement` reads the files that
`UserKeys` and `Metering` publish; `RuntimeJobs` runs one image job at a time, as
`ImageUpdate` assumes. `MCWorkers` and `MCControlPlane` are not compositions:
they put components that share no state side by side, so that one run asks the
same kind of question of each.

### Ownership

`lease` holds the `runtime_state` row of every scope; a row's `token` stands for
the random token of an acquisition. A process runs through `Join`, `Take`,
running, `Release`, as `ownership.Run` does; `rt` and `wk` are its copies of the
two leases. `WriteTransaction` is one fenced transaction. `BeginExternal` and
`CommitExternal` are the two ends of `WithWriteFence`: the file lock stays with
the process between them, and lease operations of others wait for it
(`LockFree`). The heartbeat renews the runtime lease and then the worker lease,
in two transactions; losing either, or timing out, cancels the operation.
`ActivateRead`/`ActivateTake` are the two halves of `cmd/ownership activate`,
which reads the row before it takes the lock. All processes read one clock,
which ticks and may be set back (`StepBack`). `setBack` is an observer: the clock
has been before the moment the lease of a scope was taken.

### Publication and RouteMoves

`Build` is what `buildPayload` writes: the account serving each user, none for a
user without a route or whose account is not served. Generations are random
UUIDs in the code and are only compared for equality, so fresh numbers stand for
them. `ApplyRoutesExpected` checks the expected route of every user of the plan
and the existence of every target, and writes all or nothing.
`RestoreRoutesExpected` checks the routes only, as the code does. A mover plans
from what it reads, applies, publishes, waits for the active slot to report the
generation, and on failure or time-out restores and publishes again. `overtaken`
and `abandoned` are observers, read by properties only: users of a plan another
mover has moved since, and a store change left unpublished by a process that
died or failed twice.

### AccountLifecycle

An operation is a sequence of steps still to do (`todo`), run by one action per
step; a step named after a journal phase is `advanceOperation`. An update may
change the name, the switch, the proxy mode and the proxy's URL (`proxy`: whether
the mode is custom, whether there is a URL). `StepFails` makes any step fail, including with half of its effect where the code leaves one
(`Partial`: a container stopped and not removed, a candidate container removed,
one secret of two, an OAuth directory cleared). `RecreateFails` is the rollback of
a rename whose files are committed: the old name has no configuration any more and
its container cannot be made again. `StepRefused` is a step whose own
check refuses (`Blocked`). Both continue with the rollback the handler runs at
that point (`UndoProgram`), which goes on after a failing undo as the code does
(`AfterUndoFailure`) and then keeps the journal. `Crash` may happen at every
step, also in a rollback or in a recovery; `StartAdmin` chooses the steps of
`Recover` from the journal and the account row (`RecoverProgram`).

A directory is absent, without or with OAuth files; a container absent, stopped
or running; an account's row absent, disabled or enabled, with a custom proxy or
without. There is one slot: the drain asks the active slot only, and a switch of
the slot while an account is drained, which the release script can make, is not in
the model. `late` is an observer: the requests that were authorised and not yet
counted when the gateway loaded a snapshot. Left out: ports, e-mail addresses and the default flag (checks on input
that are made before the journal is written), exclusive keys, the values of proxy
URLs, and the order in which the rows inside one transaction change.

### Planner and FailoverControl

`Planner` has the functions of `planner.go` as operators. A loop over sorted users
is a fold over the set of them that takes the greatest name last (`InOrder`, with
`MapThenFoldSet`): `Placed` deals the users out, `Fill` fills the deficits of a
rebalance. Shares are compared as fractions, where the code multiplies out or divides in float64. `PlannerCases`
asks a question (routes, keys, states of the accounts) and keeps the answer;
`PlansAreOptimal` compares it with every other assignment of the same users.

`FailoverControl` keeps time as ages. A round (`Check`, `Evacuate`, `ApplyPlan`,
`FinishRound`) reads the quota row, the probes and the switches, plans from
them, applies the plan against the routes of that moment and writes the
`account_failover` row; each of these may fail, and the process may be restarted
between them. Admin plans from that row (`Persisted`) or from the live state,
and the portal's moves look at the observer. The row keeps the mode the round has
read at its start, not the one set meanwhile. `seenFree` is an observer: how long
ago a refresh found an account free.

### Enforcement and UserKeys

`Enforcement` has one key and one user's quota record. A refresh of the loader
reads the three files one after the other with the time it read at its start;
each load may fail. `AuthFresh`, `QuotaCounts` and `Exceeded` are the conditions
of `Authorize` in their order.

`UserKeys` follows one user. An operation of Admin is a list of steps, as in
`AccountLifecycle`, and `Undo` the list its rollback runs; there is no journal,
so `AdminCrash` leaves what was done. `PasswordFailsLate` is `SetCredential` failing
after its commit (it reads the row back): the step counts as failed and the
password is set, which the rollback of a creation does not take back. Beside it run the requests of the user's
browser, with what each has read before it writes, and the synchronisation of
internal keys by other processes from a list of active users read earlier
(`foreign`).

### Configuration

One setting stands for each way a setting is written and applied (by what a save
must restart), and a value is 1, its default, or 2. A save holds
`configurationLock`; `CurrentConfiguration`, `ReplaceConfiguration` and every
step of applying are actions of their own, so the pages that write single rows
fall between them. The loop that restarts accounts goes over all of them in their
order and passes by those that are not enabled when it gets there. `asked` and
`stale` are ghosts. The table is one this version has written: what reading an
older one rewrites beside the time zone (failover mode `observe`, an open listen
address, a proxy row; `admin/configuration.go:431-453`) is stored without being
applied, so for such a table `RuntimeAsStored` need not hold until the next save.

### Metering and Notifications

`Metering` follows one user and one account, which may be switched off. Every step
of the collector's round is a transaction or a file of its own; `PopBatch` takes a
batch from the queue before `IngestEvents` writes it. An entry of the queue is an
event to count or one that is skipped (not JSON, a listing of models, without a
key). Admin's restart of the collector for new settings, like a crash or a failing
step, may fall between any two steps (`Cut`); `cuts` and `torn` are observers:
rounds cut between an LPOP and its commit, and a cut between the two transactions
that move the week to another zone. That the queue is in the memory of the
account's container and goes with it is not modelled. Weeks are intervals of ticks shifted by the zone's offset.
`AddBonus` and `ResetUsage` change nothing: see the disagreements below.

`Notifications` keeps of time what the worker tells apart: slots before, in and
past their grace, a quota check due or not, a window ended or not. A message is
the set of slots and of accounts it reports; sending, its answer and its record
are separate.

### QuotaWorker, RuntimeJobs, ImageUpdate, StatusObserver, AccessLog

`QuotaWorker` has one account; upstream window, container cooldown and credits
are the environment's and change at any moment, also while the fence is held. A
credit's request that the client has given up on may come through later, with
nobody holding the fence (`RedeemLate`); that the worker's own request to clear a
cooldown does so is not modelled.
`RuntimeJobs` has the manager's operations as steps under its mutex, with targets
as the names an operator gives (an account and its service `cliproxy-<id>` are two,
see the disagreements), and the end
of a task and `finish` as two; `Trim` is the loop of `trimLocked`, `TrimOldest` one
turn of it. `ImageUpdate` replaces the accounts one after the
other and rolls back those it attempted; a container start keeps the image the
container was created with. `StatusObserver` has the one cache entry, a flight per
set of services and the two kinds of readers. `AccessLog` counts in lines; the
reader remembers offset and prefix, the rotation what it copied. A reading is the
file calls it makes (`OpenLog`, `CheckPrefix`, `ReadChunk`, `ReadEnds`,
`FinishReading`), with the writer and the rotation in between; each may fail. An
offset in the middle of a line, and a piece of a line joined to one of another
file, are below that level.

## Runs

| Run | Instance | Distinct states | Shows |
|---|---|---|---|
| `ownership` | 2 processes of 2 deployments, 1 operator, clock 1..2 forth and back, 2 generations, fairness | 669,966 | types, `SingleWriter`, `ExternalUnderItsLeases`, rows stay readable but for a clock set back, refinement of `FencedStore`, a lost fence cancels |
| `ownership_activate_race` | 1 process, 2 operators, 3 generations | violation | `activate` replaces a generation it was not given |
| `route_moves` | 2 movers, 1 user, 2 accounts (one may be disabled), 2 slots, 2 plans, 1 fault, fairness | 396,298 | `PublishedMatchesStore`, `ConfirmedMoveIsServed`, every move returns, the edge comes to serve the store |
| `lifecycle_recovery` | 1 user, 2 accounts and a free name, 1 operation, 2 faults, 1 request, custom proxies given and changed, names taken or free | 641,072 | `Reconciled`, `DrainedBeforeStop` |
| `lifecycle_moves` | the same with 1 move, 1 fault, free names, fairness | 691,602 | `Reconciled`, `AdminComesBack` |
| `lifecycle_active_replaced` | 1 fault | violation | recovery rebuilds a container in use |
| `lifecycle_rename_onto` | 1 fault, names taken or free, fairness | violation | recovery of a rename onto a taken name never ends |
| `failover` | 2 users, 2 accounts, 3 quota snapshots, 1 move of Admin, 1 fault, fairness | 191,201 | `PlannedOntoFreshCapacity`, `EvacuationComplete`, `NobodyStaysStranded` |
| `failover_stale_plan` | the same | violation | a plan is applied onto an account switched off meanwhile |
| `workers` | `Metering`: 2 requests, 2 keys, 2 zones, 3 changes, 1 fault; `Notifications`: 2 slots, 2 cycles, 1 fault; fairness | 1,037,982 | counters, loss, policies, draining; reports and alerts |
| `control_plane` | nine parts, see below | 1,863,352 | the sixteen safety properties of these parts |
| `configuration_pages` | 2 accounts, 2 saves, 1 page save | violation | a page's save is lost |

The parts of `control_plane`: every routing of 3 users over 3 accounts in four
states each (`PlannerCases`); 1 asker and 2 sets of services over 3 seconds, five
of the container's seven states, `degraded` and `invalid` being presented like
ones that are there as far as a switch goes (`StatusObserver`, proved for all); a clock of 3 with limits of 1 (`Enforcement`); 2 operations, 1
fault, 1 round of another process, 1 browser (`UserKeys`); 3 jobs on the 2 names
of one container, a history of 2 (`RuntimeJobs`); 2 accounts, 2 releases, 3 faults (`ImageUpdate`); 2
accounts, 2 saves, 1 page save, 2 faults (`Configuration`); a request with a fault,
a credit beside the worker's rounds, or 2 credits without them, always with 2
operators (`QuotaWorker`, proved for any mix); 4 lines, 2 backups, 1 crash
(`AccessLog`).

Bounds. Two of everything that competes is enough for a transfer, a conflict and
a stale copy; a third generation is needed only where a property speaks of the
one between two (`ownership_activate_race`). Two plans let each mover overtake
the other in each of its steps; plans of several users are covered by the
proofs. Two faults let a rollback, or a recovery, fail after the failure it
answers; three let an image update fail, be cancelled and fail to roll back. A
second account operation starts from a reconciled state (`Reconciled` holds when
the first one ends, and is proved for any number of operations), so one per run
loses only sequences that begin with a stopped container. Ages and clocks go one unit past every limit the code compares
them with. Three jobs are one more than the history keeps; four lines let the log be rotated
three times, which pushes a line out of the oldest backup, and grow past the
reader's offset again after a truncation. The constants that
bound are named `Max...` (or are fields of a `Scenario`) and are guards of the
actions that count. The runs set `CHECK_DEADLOCK FALSE`: once the bounds are
used up a system that waits for input may stop.

Symmetry is used in `lifecycle_recovery` only, for the two existing accounts. In
`lifecycle_moves`, which checks liveness, the routes start unrouted or at `a1`;
`a2` differs by its name alone.

Every property has a mutant: a definition of the model changed as a plausible
slip in the code would change it, under which TLC finds the property violated.

### Fairness

- `Ownership`: strong fairness of the heartbeat's discovery that a lease is lost
  (a ticker in a goroutine of its own; `flock` grants the lock to somebody who
  keeps asking while it keeps becoming free), weak fairness of the end of an
  external call. Nothing is assumed of operators or of starting a process.
- `RouteMoves`: weak fairness of a mover's own steps, whose waits are bounded by
  a context, and of the polling loops of gateway and edge.
- `AccountLifecycle`: weak fairness of Admin's steps (handlers run to their end,
  and Compose restarts Admin), of counting and ending a request and of the
  gateway's polling. Nothing is assumed of the failover worker.
- `FailoverControl`: weak fairness of the rounds (a ticker in an endless loop),
  of the end of Admin's handler, and of time.
- `Metering`, `Notifications`: weak fairness of the worker's own steps, its
  restart by Compose included; for the notifications, of the passing of the
  check interval too. Nothing is assumed of requests, pages or quotas.

### Assumptions of the runs and exceptions of the properties

- `DrainedBeforeStop` excepts a request the gateway had authorised and not yet
  counted (`gateway/server.go:163` and `:172`) when it loaded the snapshot without
  the account: the drain may read zero before it is counted.
- `RowsStayReadable` excepts a lease renewed or released under a clock that was set
  back to before it was taken, `PolicyEndsWithWeek` a policy left behind by a round
  that was cut inside a change of the zone (`torn`): see the disagreements.
- `OneBatchPerCut` grants every cut between an LPOP and its commit one batch.
- `RowsAreTheFile` claims order and no duplicates always, but that the rows are the
  file's only if the file was not truncated inside a reading since the reader last
  began anew (`reader.torn`): after that, lines of the new file before the offset
  are missed until a later reading notices the change.
- `CreditsBuyWindows` excepts credits redeemed after the client's time-out.
- `LevelsTold`: a message is never too long to be rendered. A report of more than
  4096 bytes fails at every attempt (`notifications/render.go:269`).
- `CanApply` checks routes and accounts. That every user of a plan has one active
  key, valid on the target (`controlplane/routes.go:87-111`), is left out: users
  keep their keys in `RouteMoves` and `AccountLifecycle`.
- `FreshNames` (in `lifecycle_moves` and `lifecycle_active_replaced`): accounts
  are created under and renamed to free names. The code does not check this
  before it writes the journal; `lifecycle_rename_onto` shows what follows.
- A candidate container that fails its probe is removed again
  (`runtimeops/account_lifecycle.go:690` leaves it when the removal fails too).
- `restoreTo` and `recoverEvacuatedRoutes` read the routes and then compare and
  set them; the model does both in one step. A move in between makes the
  compare-and-set refuse, which shows as a failed step (`StepFails`).
- The drain time-out of a recovery counts as a fault; in a forward operation it
  may pass at any time.
- Properties about undoing (`RolledBackExactly`, `Settled`, `FailedUpdateUndone`,
  `RuntimeAsStored`) except an undo that fails itself and a crash: the code
  reports the first, and has no journal for the second.

## Findings

1. `cmd/ownership activate` checks the expected generation outside the lock that
   protects taking it (`ownership_activate_race`).
2. A deletion interrupted between `files_prepared` and its first change of the
   store is recovered by rebuilding the container its users are routed to,
   although nothing was changed that needs it (`lifecycle_active_replaced`).
3. A rename onto the name of another account, interrupted before the store
   refuses it, is recovered as if it had taken place and Admin does not start
   again (`lifecycle_rename_onto`). That the old account's proxy secret goes too is
   read from the code; the run's trace does not need it.
4. A route plan is applied onto an account that was switched off after the
   states were read; only its existence is checked in the transaction
   (`failover_stale_plan`).
5. The Configuration Center replaces the settings it has read, and with them
   rows the other pages have saved since, which do not take its lock
   (`configuration_pages`).

### Disagreements without a run

- Renewing or releasing a lease after the clock was set back by more than its age
  writes `renewed_at` before `acquired_at`, a row that `readLease` refuses
  (`controlplane/lease.go:334`) in every later lease operation. It is the one
  exception of `RowsStayReadable`, and the `ownership` run reaches it.
- Two runtime jobs can work on one container at a time: `findConflictLocked`
  (`runtimeops/jobs.go:436`) compares the text of the targets, and `resolve`
  (`runtimeops/docker.go:341`) takes both an account's id and `cliproxy-<id>` for
  its container. `JobsExclusive` is therefore about names.
- `SetCredential` reads the row back after its commit and can fail there
  (`usage/portal_store.go:328`); `CreateUser` restores the rows and leaves the
  initial password (`admin/user_lifecycle.go:184`).
- A restart of the collector for new settings (`admin/configuration_runtime.go:99`)
  between an LPOP and its transaction loses the batch, without anything failing.
- A quota action inserts a UUID into `user_quota_adjustments.id`
  (`usage/quota_actions.go:285`), which the schema declares INTEGER PRIMARY KEY
  (`usage/schema.go:103`): SQLite refuses it and the transaction is rolled back.
  The test of the action has a table of its own with a TEXT key
  (`usage/portal_store_test.go:518`). `AddBonus` and `ResetUsage` model the
  refusal.
- An image update that skips a stopped account says that its next start will use
  the target image (`runtimeops/images.go:324`); starting a container
  (`runtimeops/docker.go:261`) does not recreate it.
- The time zone is told to the usage store (`EnsureWeekTimezone`) and to the
  personal quotas (`ConfigurePersonalQuotaReset`) in two transactions. When a crash
  or a restart falls in between, the next round finds the zone unchanged and leaves
  the quotas with the end of the old zone's week, once. It is the exception `torn` of
  `PolicyEndsWithWeek`, and the `workers` run reaches it.
- A login that has verified a password before it was reset opens its session
  after the reset has ended the others (`portal/server.go:346`).

## Proofs

Each theorem holds for every value of the constants that satisfies the `ASSUME`s
of its module: types of the constants, finite sets of users and accounts where the
planner folds over them, headroom and percentages that are numbers (the code takes
`max(0, ...)`, `quota_states.go:53`), distinctness of the names a set is told
apart by (`QuotaWorker`: an operator is not called "free" or "worker";
`Configuration`: an account is not called like a step), one key at least, room in
the job history for the unfinished jobs. TLC evaluates them in every run. Where an
invariant is not inductive, the module states the one that is and proves it
first; those theorems are in parentheses below.

`OwnershipProofs`, for any sets of processes, scopes, owners and operators, any
TTL and a clock that may be set back:

- `TypeCorrect`: types.
- `Invariance`: `TypeOK /\ IInv`. `SingleWriter` is not inductive: that two
  processes validate against one row says something only if a generation names
  one acquisition (`GenerationsUnique`) and no copy is newer than its row
  (`CopiesNotAhead`); that an external effect still holds its leases follows from
  nobody but the lock holder changing rows (`LockHolderRuns`, with
  `FencedWhileRunning`).
- `ExternalSafe`, `SingleWriterSafe`: from `Invariance`.
- `Refinement`: `Ownership` implements `FencedStore`; every step maps to a step
  or a stutter.
- `RowsReadable`: rows stay readable but for a clock set back to before the lease
  was taken (see the disagreements).

`RouteMovesProofs`, for any number of movers, users, accounts and slots:

- `MovesTypeCorrect`.
- `PublishedSafe`: the file says what the store says once nobody is between a
  store change and its publication.
- `ConfirmedServed`: a confirmed move is served. The invariant behind it ties
  every generation a mover waits for to the view that was published with it, so
  that finding the number loaded is finding the view loaded.

`UserKeysProofs`, for any number of operations, faults, crashes, browser
requests and rounds of other processes:

- `UserTypes`: beside types, the places an operation can be at. Each step of a plan
  or a rollback leaves a list that is again one of them (`Stage`), so a proof can go
  by the steps still ahead instead of by the lists.
- `RetiredKeysStayRefused` (`KeysRetire`): a retired key is in neither the file nor
  the gateway. The invariant orders the generations of file and gateway and says
  that an operation past its wait has both without the key, which is why a late
  publication of another process cannot bring it back.
- `SettledSafe` (`StoreSettles`): between operations file, rows, route and internal
  key agree. The invariant says for every moment which of them may differ, from the
  steps still ahead.
- `RollbacksAreExact` (`RollbackKeeps`), an action property: what the rollback has
  still to put back and what it has put back make up the state the operation found,
  the initial password of a `SetCredential` that failed late excepted.

`ControlPlaneProofs`:

- `SwitchesAreRecent` (`SightsAreDated`): every flight, cache entry and answer that
  shows an account selectable is dated after it was, by cache period and probe.
- `StaleKeysExpireSafe`, `RefusalsGrounded` (`EnforceInvariance`): what is loaded is
  dated from the start of its refresh, hence before what it says can have changed.
  Needs that a later moment is in no earlier week (`EndOfWeekMonotone`).
- `JobsStayExclusive` (`JobsAgree`), for targets as the code compares them, by name:
  `active` has exactly the unfinished jobs, each
  under its target; a job in the pool's queue is there once and has not begun, and
  one finished meanwhile has a cancelled context, so a late start does nothing. The
  loop of `trimLocked` keeps the unfinished jobs: by induction over its turns
  (`TurnKeeps`, `TrimKeeps`).
- `FailedUpdatesUndone` (`UpdatesUndoable`): of the attempted accounts the update
  remembers what they ran; those rolled back run it, those it has given up are
  reported. Of compose.env, which a failing projection may leave changed, it says
  nothing.
- `ProxyAddressKept` (`ProxyKept`): the rows and the secret a save has read belong
  together, and nobody else changes the secret before it has replaced them.
- `RuntimeMatchesStore` (`RuntimeKept`): while a save applies, each changed group is
  in force or its step is still ahead, with the files rendered before the accounts
  restart (`Under`, `RenderFirst`); the other groups are in force as they were,
  because what the save has written agrees with what was stored on all they need
  (`Agree`), the pages' rows in between and a migrated time zone included.
- `RequestsAreAnswered`, `RecoveriesClearOld`, `CreditsWellSpent` (`QuotaInvariance`),
  the last two action properties: no date is ahead of the wall clock; a round for a
  request began after it; between the last look and the act the fence keeps other
  writers, not upstream, from changing what was seen.
- `RotationKeepsLines` (`RotationKeepsCopies`), an action property: the file a
  backup moves to is free and the log is cut only when its copy is a backup.
- `ReaderFollowsFile` (`ReaderHasLines`), an action property: the log is a run of
  consecutive lines that ends with the last one written, and, at every file call of
  a reading, the reader has what reading such a run at an earlier moment gave it,
  unless the file was cut under it. A file that begins with the reader's prefix is
  therefore the one it read, and of two windows the later one decides. What the
  loop of `recent` retains of a run is proved by induction over its turns
  (`RecentOfRun`).

`WorkersProofs`, for any number of requests, keys, slots and accounts, any size of
the batch and length of the week:

- `SlotsReportedOnce` (`ReportsAreAccounted`): deliveries beyond the first are paid
  for with faults; the round that is sending has not delivered yet.
- `RequestsAccounted` (`QueueAccounted`): what is missing was in the batch of a round
  that was cut, of which there is one per cut, or taken by an LPOP whose answer did
  not come.
- `PoliciesEndWithWeek` (`PoliciesScheduled`): the personal quota ends with the week
  of the stored zone, or the round that moves it is between its two transactions, or
  was cut there. For any zones and any changes of them.
- `CountersMatchEvents` (`CountersKept`): the counters are the sums over the
  recorded events. What a sum does when a finite set grows is proved by induction
  over its cardinality.

`FailoverProofs`, for any finite sets of users and accounts, any headrooms, any
reserve, poll interval and staleness limit:

- `PlannerIsOptimal`: the plans are the best there are. The argument is the one for
  greedy dealing: when each user goes to the account that weighs least afterwards,
  no account is heavier than the lightest next choice was at the moment of its
  last user, and another routing that is lighter everywhere would have fewer users
  in all (`DealtLight`, `NoMoreInAll`). A rebalance keeps on each account as many of
  its users as the target allows, so no routing with these numbers moves fewer
  (`RebalanceMovesLeast`); somebody is short of a user as long as one is left
  (`SomeoneShort`), hence the target is reached (`FillReaches`) and asking again
  finds nothing to do (`ReachedStays`). The loops are folds over finite sets, whose
  values exist and obey an induction in the order of the names (`FoldExists`,
  `InductionInOrder`).
- `PlansUseFreshCapacity`, an action property (`FailoverInvariant`): an account is
  usable in the quota row, in the row the worker leaves behind and in the states of
  a round only if it was seen free at least as recently as the row or round is old.
  Without the part about the worker's row the moves of Admin and the portal are not
  covered.
- `EvacuationsAreComplete`, an action property: the invariant keeps of a plan under
  way that it has a candidate for every active user of an exhausted account and
  nothing for the others.

`AccountLifecycleProofs`, for any users and accounts, any number of operations,
requests, moves of the failover worker, faults and crashes:

- `StopsAreDrained` (`LifecycleInvariant`): the containers an operation stops are
  drained. An operation is the rest of one of its programs (`IsTail`), so the number
  of steps left says where it is; the users of its plan leave the account in three
  stages, with the publication, the wait and the drain, and no later publication
  brings them back unless the failover worker moves them. No hypothesis; the
  requests the drain cannot see (`late`) are excepted.
- `AccountsReconciled` (`PlacesInvariant`), without hypotheses, `FreshNames`
  included: the five places agree when Admin accepts operations again. The places
  agree about every account the journal does not name (`FrameInv`). About those it
  names, the invariant says what each of them has from the steps that were done
  (`WorkFacts`), in an operation and, unless an undo failed, in its rollback;
  what a recovery can rely on whatever went before it (`RestFacts`); and how far it
  has put things right (`RecoverWorkFacts`). A snapshot that is out of date has
  somebody who still has to publish: the failover worker, or Admin, by the rest of
  its program or by a recovery (`SnapInv`).

The library's induction theorems take an operator as a parameter, which these
provers cannot instantiate. `InductionLemmas` has induction with the property
given as a set, derived from the well-foundedness of the naturals; with it what a
recursive function (`Trim`, `RecentRows`) or a fold over a set (the sums of
`Metering`, the loops of `Planner`) computes can be proved.

Only model-checked: liveness, which is out of the prover's reach
(`LostFenceCancels`, `EveryMoveReturns`, `ServesTheStore`, `AdminComesBack`,
`NobodyStaysStranded`, `QueueDrained`, `LevelsTold`). Every invariant and every
action property of a passing run has a theorem. The properties of the runs that
expect a violation are false.

No module declares a recursive operator.

## Not modelled

- Frontend, generated contract types and the web server: no protocol.
- Bootstrap and release control: run once, or with every writer stopped.
- Usage reports, trends and spreadsheets: read-only SQL aggregation.
- Teams, tags and branding; Admin's sessions and the login limiters; OAuth login
  and the migration of old config mounts; diagnostics and model probes: handlers
  that change a row or a file of their own and meet no other part.
- Formats: the text of account files, messages and logs, URLs, encryption.
- Opening and migrating the databases.

## Plan

The safety properties of the runs are proved. What could follow:

1. The two hazards without a property: a rollback that routes a user to an account
   deleted meanwhile (`controlplane/routes.go:205`), and files or containers changed
   by an Admin that has lost its lease (`accountlifecycle/files.go:114`), which
   needs `Ownership` and `AccountLifecycle` in one specification.
2. `PolicyEndsWithWeek` without `torn`, once the time zone is told to the usage store
   and to the quotas in one transaction; `DrainedBeforeStop` without `late`, once a
   request is counted under the engine's lock that authorises it.
3. A switch of the slot while an account is drained.
