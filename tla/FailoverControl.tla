-------------------------- MODULE FailoverControl --------------------------
(***************************************************************************)
(* The failover worker (internal/failover/controller.go, quota_states.go,  *)
(* providers.go, probe.go) between the quota worker that writes the        *)
(* official_quota row and Admin, whose rebalance, evacuation and portal    *)
(* moves read the account_failover row the worker leaves behind.           *)
(*                                                                         *)
(* Time is kept as ages: Tick makes everything older by one unit, and an   *)
(* age beyond every limit the code compares with is Old.  applyPlan is one *)
(* step with the outcomes RouteMoves shows it to have.                     *)
(***************************************************************************)
EXTENDS Planner

CONSTANTS
    User, Account,    \* names, as integers
    Snapshots,        \* what a refresh may find upstream: payload per account
    Probes,           \* sets of accounts whose container may be reachable
    KeySets,          \* key records: per user complete, partial or inactive
    StartRoutes,
    Reserve,          \* account_failover.reserve_percent
    Poll,             \* account_failover.poll_seconds
    StaleAfter,       \* account_failover.stale_after_seconds
    Natives,          \* what the CPAs may say of their credentials
    MaxMoves, MaxFaults

Old == IF Poll > StaleAfter THEN Poll + 1 ELSE StaleAfter + 1
Older(age) == IF age = Old THEN Old ELSE age + 1

Target == Account \cup {Nowhere}
Payload == [answer : {"ok", "expired", "error", "no_oauth"},
            weekly : {"default", "additional", "none"},
            used : 0 .. 100, limit : BOOLEAN, allowed : BOOLEAN]
NativeState == {"healthy", "unknown", "exhausted", "unavailable", "no_oauth"}

ASSUME FailoverAssumption ==
    /\ User \subseteq Nat /\ Account \subseteq Nat \ {Nowhere}
    /\ IsFiniteSet(User) /\ IsFiniteSet(Account)
    /\ Snapshots \subseteq [Account -> Payload]
    /\ Probes \subseteq SUBSET Account
    /\ KeySets \subseteq [User -> {"complete", "partial", "inactive"}]
    /\ StartRoutes \subseteq [User -> Target]
    /\ Poll \in Nat /\ StaleAfter \in Nat /\ Reserve \in 0 .. 50
    /\ Natives \subseteq [Account -> NativeState]
    /\ MaxMoves \in Nat /\ MaxFaults \in Nat

VARIABLES
    mode,       \* account_failover.mode
    enabled,    \* accounts whose group is enabled
    reachable,  \* accounts whose container runs and answers the TCP probe
    native,     \* what the observer reports of every CPA
    quota,      \* the official_quota row
    userKeys,   \* key_records: what every user has
    routes,     \* user_routes
    rstate,     \* the account_failover row
    ctl,        \* the round of the failover worker
    adm,        \* the move Admin is making
    seenFree,   \* observer: how long ago a refresh found the account free
    moves, faults

inputs == <<mode, enabled, reachable, native, userKeys>>
fbounds == <<moves, faults>>
fvars == <<inputs, quota, routes, rstate, ctl, adm, seenFree, fbounds>>

Fault == faults < MaxFaults /\ faults' = faults + 1

-----------------------------------------------------------------------------
(* The quota row *)

\* Normalize: a reached limit counts as all of the window; without a weekly
\* window of any kind the account is not "ok".
Normalize(p) ==
    [status |-> IF p.weekly = "none" THEN "weekly_unavailable" ELSE "ok",
     weekly |-> p.weekly = "default",
     used |-> IF p.limit THEN 100 ELSE p.used,
     limit |-> p.limit, allowed |-> p.allowed]

UnavailableAccount(status) ==
    [status |-> status, weekly |-> FALSE, used |-> 0, limit |-> FALSE, allowed |-> TRUE]

\* What RunOnce records of one account.
Fetched(p) ==
    CASE p.answer = "ok" -> Normalize(p)
      [] p.answer = "no_oauth" -> UnavailableAccount("auth_missing")
      [] p.answer = "expired" -> UnavailableAccount("auth_expired")
      [] p.answer = "error" -> UnavailableAccount("unavailable")

NoQuota == [found |-> FALSE, age |-> Old, failed |-> FALSE,
            accounts |-> [a \in Account |-> UnavailableAccount("missing")]]

\* Healthy; the heartbeat of a successful refresh is its generated_at.
QuotaHealthy == quota.found /\ ~quota.failed /\ quota.age <= StaleAfter

Headroom(q) == IF q.weekly /\ 100 - q.used > Reserve THEN 100 - q.used - Reserve ELSE 0

\* One account of BuildAccountStates.
Exhausted(q, fresh) == fresh /\ q.status = "ok" /\ (q.limit \/ (q.weekly /\ q.used >= 100))

\* The first blocker in the order of the code's switch.
Reason(a, q, fresh) ==
    CASE Exhausted(q, fresh) -> "quota_exhausted"
      [] a \notin enabled -> "account_disabled"
      [] a \notin reachable -> "container_not_running"
      [] q.status \in {"missing", "auth_missing"} -> "oauth_missing"
      [] ~fresh -> "quota_stale"
      [] q.status # "ok" \/ ~q.weekly -> "quota_unavailable"
      [] ~q.allowed -> "upstream_disallowed"
      [] Headroom(q) = 0 -> "reserve_reached"
      [] OTHER -> "available"

Fresh == quota.found /\ quota.age <= StaleAfter

BuildState(a) ==
    LET q == quota.accounts[a]
    IN  [eligible |-> Reason(a, q, Fresh) = "available",
         exhausted |-> Exhausted(q, Fresh), headroom |-> Headroom(q),
         used |-> IF q.weekly THEN q.used ELSE Unknown,
         reason |-> Reason(a, q, Fresh)]

BuildAccountStates == [a \in Account |-> BuildState(a)]

NoState == [eligible |-> FALSE, exhausted |-> FALSE, headroom |-> 0, used |-> Unknown,
            reason |-> "quota_unavailable"]
NoStates == [a \in Account |-> NoState]

-----------------------------------------------------------------------------
(* The quota worker, environment of this module: its refreshes are at      *)
(* least a unit of time apart.                                             *)

RefreshQuota ==
    /\ quota.age > 0
    /\ \E snapshot \in Snapshots :
          quota' = [found |-> TRUE, age |-> 0, failed |-> FALSE,
                    accounts |-> [a \in Account |-> Fetched(snapshot[a])]]
    /\ seenFree' = [a \in Account |->
            LET q == quota'.accounts[a]
            IN  IF q.status = "ok" /\ q.weekly /\ Headroom(q) > 0 /\ q.allowed THEN 0
                ELSE seenFree[a]]
    /\ UNCHANGED <<inputs, routes, rstate, ctl, adm, fbounds>>

\* RecordError keeps the snapshot.
RefreshFails ==
    /\ quota.found /\ ~quota.failed
    /\ Fault
    /\ quota' = [quota EXCEPT !.failed = TRUE]
    /\ UNCHANGED <<inputs, routes, rstate, ctl, adm, seenFree, moves>>

-----------------------------------------------------------------------------
(* One round of the controller *)

Idle == [at |-> "idle", states |-> NoStates, observed |-> Old,
         assign |-> EmptyPlan(User), expected |-> EmptyPlan(User), error |-> FALSE,
         forced |-> FALSE]

\* A worker that has just started: its first round is due whatever the row says.
Started == [Idle EXCEPT !.forced = TRUE]

\* What writeState leaves in the row: the mode is the one read when the round
\* started, and a round that comes to its states has read "active".
State(states, observed, check, error) ==
    [mode |-> "active", states |-> states, observed |-> observed, check |-> check,
     error |-> error]

\* mode off: the row says so and nothing else is looked at.
RoundOff ==
    /\ ctl.at = "idle" /\ mode = "off" /\ rstate.mode # "off"
    /\ rstate' = [rstate EXCEPT !.mode = "off", !.error = FALSE]
    /\ ctl' = Idle
    /\ UNCHANGED <<inputs, quota, routes, adm, seenFree, fbounds>>

\* A round is due after poll_seconds, after a change of mode, and as soon as
\* the quota row is newer than the states.
Due == ctl.forced \/ rstate.mode # mode \/ rstate.check >= Poll \/ quota.age < rstate.observed

\* Quota, accounts and containers are read and the states built from them;
\* without a healthy quota row the round ends there, with the states kept.
Check ==
    /\ ctl.at = "idle" /\ mode = "active" /\ Due
    /\ IF QuotaHealthy
       THEN /\ ctl' = [Idle EXCEPT !.at = "checked", !.states = BuildAccountStates,
                                   !.observed = quota.age]
            /\ UNCHANGED rstate
       ELSE /\ rstate' = State(BuildAccountStates, quota.age, 0, TRUE)
            /\ ctl' = Idle
    /\ UNCHANGED <<inputs, quota, routes, adm, seenFree, fbounds>>

\* A read or the probe fails: the states of the last round stay, marked.
CheckFails ==
    /\ ctl.at = "idle" /\ mode = "active" /\ Due
    /\ Fault
    /\ rstate' = State(rstate.states, rstate.observed, 0, TRUE)
    /\ ctl' = Idle
    /\ UNCHANGED <<inputs, quota, routes, adm, seenFree, moves>>

ActiveUsers == {u \in User : userKeys[u] # "inactive"}
RoutableUsers == {u \in User : userKeys[u] = "complete"}

\* Mutant: only the accounts exhausted since the last round are evacuated.
EvacuateNewlyExhausted ==
    /\ ctl.at = "checked"
    /\ LET plan == PlanEvacuation(routes, ActiveUsers, RoutableUsers, ctl.states,
                     ExhaustedAccounts(ctl.states) \ ExhaustedAccounts(rstate.states))
       IN  ctl' = IF plan.affected = {} \/ ~Movable(plan)
                  THEN [ctl EXCEPT !.at = "finishing"]
                  ELSE [ctl EXCEPT !.at = "planned", !.assign = plan.assign,
                                   !.expected = routes]
    /\ UNCHANGED <<inputs, quota, routes, rstate, adm, seenFree, fbounds>>

\* evacuate reads the routes and the keys and plans; users that cannot all
\* be placed stay where they are and the round is a success all the same.
Evacuate ==
    /\ ctl.at = "checked"
    /\ LET plan == PlanEvacuation(routes, ActiveUsers, RoutableUsers, ctl.states,
                                  ExhaustedAccounts(ctl.states))
       IN  ctl' = IF plan.affected = {} \/ ~Movable(plan)
                  THEN [ctl EXCEPT !.at = "finishing"]
                  ELSE [ctl EXCEPT !.at = "planned", !.assign = plan.assign,
                                   !.expected = routes]
    /\ UNCHANGED <<inputs, quota, routes, rstate, adm, seenFree, fbounds>>

\* ApplyRoutesExpected: every user is still where the plan found it.
Unmoved(plan) == \A u \in Moved(plan.assign) : routes[u] = plan.expected[u]

\* applyPlan succeeds.
ApplyPlan ==
    /\ ctl.at = "planned" /\ Unmoved(ctl)
    /\ routes' = After(routes, ctl.assign)
    /\ ctl' = [ctl EXCEPT !.at = "finishing"]
    /\ UNCHANGED <<inputs, quota, rstate, adm, seenFree, fbounds>>

\* A conflict, or a publication that fails or is not activated: the routes
\* are as they were, or stay changed when the rollback is refused.
ApplyPlanFails ==
    /\ ctl.at = "planned"
    /\ \/ ~Unmoved(ctl) /\ UNCHANGED <<routes, faults>>
       \/ Unmoved(ctl) /\ Fault /\ routes' \in {routes, After(routes, ctl.assign)}
    /\ ctl' = [ctl EXCEPT !.at = "finishing", !.error = TRUE]
    /\ UNCHANGED <<inputs, quota, rstate, adm, seenFree, moves>>

FinishRound ==
    /\ ctl.at = "finishing"
    /\ rstate' = State(ctl.states, ctl.observed, 0, ctl.error)
    /\ ctl' = Idle
    /\ UNCHANGED <<inputs, quota, routes, adm, seenFree, fbounds>>

\* The worker dies, or loses its fence before the row is written, and starts
\* again.
RoundLost ==
    /\ ctl # Started
    /\ Fault
    /\ ctl' = Started
    /\ UNCHANGED <<inputs, quota, routes, rstate, adm, seenFree, moves>>

-----------------------------------------------------------------------------
(* Admin and the portal *)

Blocked(state, reason) ==
    [state EXCEPT !.eligible = FALSE, !.headroom = 0, !.reason = reason]

\* Mutant: the row of a failed round is still good, and never too old.
PersistedForEver(a) ==
    IF a \notin enabled THEN Blocked(rstate.states[a], "account_disabled")
    ELSE rstate.states[a]

\* RuntimeStateProvider: the row the worker left behind.
Persisted(a) ==
    IF rstate.error THEN NoState
    ELSE IF a \notin enabled THEN Blocked(rstate.states[a], "account_disabled")
    ELSE IF rstate.observed > StaleAfter THEN Blocked(rstate.states[a], "quota_stale")
    ELSE rstate.states[a]

\* liveAccountStateProvider: containers, OAuth files and the CPA's own state
\* can only take capacity away.
LiveAccountState(a) ==
    LET state == Persisted(a)
        hard(reason, spent) == [Blocked(state, reason) EXCEPT !.exhausted = spent]
    IN  IF a \notin enabled THEN hard("account_disabled", FALSE)
        ELSE IF a \notin reachable THEN hard("container_not_running", FALSE)
        ELSE IF native[a] = "no_oauth" THEN hard("oauth_missing", FALSE)
        ELSE IF state.exhausted \/ state.reason = "upstream_disallowed"
                  \/ native[a] = "exhausted" THEN hard("quota_exhausted", TRUE)
        ELSE IF native[a] = "unavailable" THEN hard("credential_unavailable", FALSE)
        ELSE IF native[a] = "unknown" THEN [state EXCEPT !.reason = "runtime_unknown"]
        ELSE state

AccountStates == [a \in Account |-> LiveAccountState(a)]

\* Present: what a user may pick by hand.
Selectable(state) ==
    /\ ~state.exhausted
    /\ state.reason \notin {"quota_exhausted", "upstream_disallowed", "account_disabled",
                            "container_not_running", "oauth_missing",
                            "credential_unavailable"}

NoMove == [at |-> "idle", assign |-> EmptyPlan(User), expected |-> EmptyPlan(User)]

AdminPlans(assign) ==
    /\ adm.at = "idle" /\ moves < MaxMoves
    /\ moves' = moves + 1
    /\ Moved(assign) # {}
    /\ adm' = [at |-> "planned", assign |-> assign, expected |-> routes]
    /\ UNCHANGED <<inputs, quota, routes, rstate, ctl, seenFree, faults>>

\* RebalanceAll
Rebalance ==
    LET plan == PlanGlobalRebalance(routes, ActiveUsers, RoutableUsers, AccountStates)
    IN  Movable(plan) /\ AdminPlans(plan.assign)

\* EvacuateAccount
EvacuateAccount(a) ==
    LET plan == PlanEvacuation(routes, ActiveUsers, RoutableUsers, AccountStates, {a})
    IN  Movable(plan) /\ AdminPlans(plan.assign)

\* changeRoute of the portal, then MoveUser.  Manual selection is wider than
\* eligibility: an account whose quota is unknown may be picked.
ChangeRoute(u) ==
    /\ userKeys[u] = "complete"
    /\ \E a \in enabled :
          /\ a # routes[u] /\ Selectable(AccountStates[a])
          /\ AdminPlans([EmptyPlan(User) EXCEPT ![u] = a])

\* autoAssignRoute, for a user without a route.
AutoAssignRoute(u) ==
    /\ userKeys[u] = "complete" /\ routes[u] = Nowhere
    /\ LET a == LeastUsedEligibleAccount(enabled, AccountStates)
       IN  a # Nowhere /\ AdminPlans([EmptyPlan(User) EXCEPT ![u] = a])

AdminApplies ==
    /\ adm.at = "planned"
    /\ \/ Unmoved(adm) /\ routes' = After(routes, adm.assign)
       \/ UNCHANGED routes
    /\ adm' = NoMove
    /\ UNCHANGED <<inputs, quota, rstate, ctl, seenFree, fbounds>>

-----------------------------------------------------------------------------
(* The world *)

\* A round and a move take seconds and are short against the unit of time.
Tick ==
    /\ ctl.at = "idle" /\ adm.at = "idle"
    /\ quota' = [quota EXCEPT !.age = Older(@)]
    /\ rstate' = [rstate EXCEPT !.observed = Older(@),
                                 !.check = IF @ < Poll THEN @ + 1 ELSE @]
    /\ seenFree' = [a \in Account |-> Older(seenFree[a])]
    /\ UNCHANGED <<inputs, routes, ctl, adm, fbounds>>

SetMode ==
    /\ Fault
    /\ mode' = IF mode = "off" THEN "active" ELSE "off"
    /\ UNCHANGED <<enabled, reachable, native, userKeys, quota, routes, rstate, ctl, adm, seenFree,
                   moves>>

\* An account without users is disabled, or enabled again.
SetEnabled(a) ==
    /\ Fault
    /\ \A u \in User : routes[u] # a
    /\ enabled' = IF a \in enabled THEN enabled \ {a} ELSE enabled \cup {a}
    /\ UNCHANGED <<mode, reachable, native, userKeys, quota, routes, rstate, ctl, adm, seenFree,
                   moves>>

ContainersChange ==
    /\ Fault
    /\ reachable' \in Probes \ {reachable}
    /\ UNCHANGED <<mode, enabled, native, userKeys, quota, routes, rstate, ctl, adm, seenFree,
                   moves>>

NativeChanges ==
    /\ Fault
    /\ native' \in Natives \ {native}
    /\ UNCHANGED <<mode, enabled, reachable, userKeys, quota, routes, rstate, ctl, adm, seenFree,
                   moves>>

FInit ==
    /\ mode = "active" /\ enabled = Account /\ reachable = Account
    /\ native = [a \in Account |-> "healthy"]
    /\ quota = NoQuota
    /\ userKeys \in KeySets
    /\ routes \in StartRoutes
    /\ rstate = [mode |-> "off", states |-> NoStates, observed |-> Old, check |-> Poll,
                 error |-> FALSE]
    /\ ctl = Started /\ adm = NoMove
    /\ seenFree = [a \in Account |-> Old]
    /\ moves = 0 /\ faults = 0

ControllerNext ==
    RoundOff \/ Check \/ CheckFails \/ Evacuate \/ ApplyPlan \/ ApplyPlanFails
    \/ FinishRound \/ RoundLost

AdminNext ==
    Rebalance \/ (\E a \in Account : EvacuateAccount(a))
    \/ (\E u \in User : ChangeRoute(u) \/ AutoAssignRoute(u)) \/ AdminApplies

WorldNext ==
    RefreshQuota \/ RefreshFails \/ Tick \/ SetMode \/ ContainersChange \/ NativeChanges
    \/ \E a \in Account : SetEnabled(a)

FNext == ControllerNext \/ AdminNext \/ WorldNext

FSpec == FInit /\ [][FNext]_fvars

RoundStep == RoundOff \/ Check \/ Evacuate \/ ApplyPlan \/ ApplyPlanFails \/ FinishRound

\* The scheduler runs a round every few seconds and a round runs on; time
\* passes.  A rebalance that has started ends.
FairFSpec ==
    /\ FSpec
    /\ WF_fvars(RoundStep)
    /\ WF_fvars(AdminApplies) /\ WF_fvars(Tick)

-----------------------------------------------------------------------------
(* Properties *)

\* Nobody is planned onto an account that no refresh of the last
\* stale_after_seconds has found with free quota: not by the worker and not,
\* through the row it leaves behind, by a rebalance, an evacuation or an
\* automatic assignment, whatever fails, is switched off or restarted.
PlannedOntoFreshCapacity ==
    [][/\ Evacuate => \A u \in Moved(ctl'.assign) : seenFree[ctl'.assign[u]] <= StaleAfter
       /\ Rebalance \/ (\E a \in Account : EvacuateAccount(a))
                    \/ (\E u \in User : AutoAssignRoute(u)) =>
            \A u \in Moved(adm'.assign) : seenFree[adm'.assign[u]] <= StaleAfter]_fvars

\* An evacuation leaves nobody behind: when it is applied, every active user
\* that it found on an exhausted account is on a candidate, and nobody else
\* has been moved.
EvacuationComplete ==
    [][ApplyPlan =>
        LET sources == ExhaustedAccounts(ctl.states)
        IN  \A u \in User :
              IF u \in ActiveUsers /\ ctl.expected[u] \in sources
              THEN routes'[u] \in Candidates(ctl.states, sources)
              ELSE routes'[u] = routes[u]]_fvars

\* The worker moves nobody to an account that is disabled when the routes
\* change.  It does: only the existence of the target is checked then.
NeverOntoDisabled ==
    [][ApplyPlan => \A u \in Moved(ctl.assign) : ctl.assign[u] \in enabled]_fvars

\* Somebody is on an exhausted account although the quota row is good and
\* everybody on an exhausted account could be placed.
Stranded ==
    LET plan == PlanEvacuation(routes, ActiveUsers, RoutableUsers, BuildAccountStates,
                               ExhaustedAccounts(BuildAccountStates))
    IN  mode = "active" /\ QuotaHealthy /\ plan.affected # {} /\ Movable(plan)

\* The users of an exhausted account do not stay there for ever while there
\* is capacity elsewhere, however rounds fail and moves conflict.
NobodyStaysStranded == []<>~Stranded

=============================================================================
