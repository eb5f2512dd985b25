------------------------------ MODULE Planner ------------------------------
(***************************************************************************)
(* How route plans are chosen (internal/failover/planner.go and the reads  *)
(* of service.go that feed it).  Accounts and users are compared by name   *)
(* in the code; they are integers here.  The state of an account is what   *)
(* the planner looks at: eligible, exhausted, headroom, and used, where    *)
(* Unknown stands for a missing percentage (101 in weightedLess).          *)
(***************************************************************************)
EXTENDS Integers, FiniteSets, Folds

Nowhere == 0          \* no route (""), and no target in a plan
Unknown == 101

Least(S) == CHOOSE x \in S : \A y \in S : x <= y
Greatest(S) == CHOOSE x \in S : \A y \in S : y <= x

\* step over the members of S in the order of their names: the greatest last.
InOrder(step(_, _), start, S) ==
    MapThenFoldSet(LAMBDA u, plan : step(plan, u), start, LAMBDA u : u, Greatest, S)

\* eligibleCandidates
Candidates(states, excluded) ==
    {a \in DOMAIN states \ excluded : states[a].eligible /\ states[a].headroom > 0}

\* The account whose next user weighs least on its headroom; ties go to the
\* lower percentage and then to the name.
WeightedLess(left, right, counts, states) ==
    LET l == (counts[left] + 1) * states[right].headroom
        r == (counts[right] + 1) * states[left].headroom
    IN  \/ l < r
        \/ l = r /\ states[left].used < states[right].used
        \/ l = r /\ states[left].used = states[right].used /\ left < right

LeastWeightedAccount(candidates, counts, states) ==
    CHOOSE a \in candidates :
        \A b \in candidates \ {a} : WeightedLess(a, b, counts, states)

Zero(candidates) == [a \in candidates |-> 0]
Give(counts, a) == [counts EXCEPT ![a] = @ + 1]

\* The users of S on account a.
RoutedTo(routes, S, a) == {u \in S : routes[u] = a}

Counts(routes, users, candidates) ==
    [a \in candidates |-> Cardinality(RoutedTo(routes, users, a))]

EmptyPlan(users) == [u \in users |-> Nowhere]

-----------------------------------------------------------------------------
(* Evacuation *)

ExhaustedAccounts(states) == {a \in DOMAIN states : states[a].exhausted}

Affected(routes, active, sources) == {u \in active : routes[u] \in sources}

Unplaced(routes, active, candidates) ==
    [assign |-> EmptyPlan(DOMAIN routes), counts |-> Counts(routes, active, candidates)]

Place(plan, u, candidates, states) ==
    LET a == LeastWeightedAccount(candidates, plan.counts, states)
    IN  [assign |-> [plan.assign EXCEPT ![u] = a], counts |-> Give(plan.counts, a)]

\* The users are placed one after the other, counting the active users the
\* candidates have already.
Placed(routes, active, users, candidates, states) ==
    InOrder(LAMBDA plan, u : Place(plan, u, candidates, states),
            Unplaced(routes, active, candidates), users)

\* Mutant: a user that cannot be moved is left out of the count.
PlanEvacuationSkipping(routes, active, routable, states, sources) ==
    LET candidates == Candidates(states, sources)
        affected == Affected(routes, active, sources) \cap routable
    IN  [candidates |-> candidates, affected |-> affected, skipped |-> {},
         assign |-> IF candidates = {} THEN EmptyPlan(DOMAIN routes)
                    ELSE Placed(routes, active, affected, candidates, states).assign]

\* PlanEvacuation places the routable users of the sources.
PlanEvacuation(routes, active, routable, states, sources) ==
    LET candidates == Candidates(states, sources)
        affected == Affected(routes, active, sources)
    IN  [candidates |-> candidates, affected |-> affected,
         skipped |-> affected \ routable,
         assign |-> IF candidates = {} THEN EmptyPlan(DOMAIN routes)
                    ELSE Placed(routes, active, affected \cap routable, candidates,
                                states).assign]

-----------------------------------------------------------------------------
(* Global rebalance *)

WeightedTargetCounts(total, candidates, states) ==
    InOrder(LAMBDA counts, i :
                Give(counts, LeastWeightedAccount(candidates, counts, states)),
            Zero(candidates), 1 .. total)

\* Mutant: everybody is placed afresh.
RetainedNobody(routes, users, candidates, target) == {}

\* On every candidate the first users by name stay, as many as it may keep.
Retained(routes, users, candidates, target) ==
    {u \in users :
        /\ routes[u] \in candidates
        /\ Cardinality({v \in RoutedTo(routes, users, routes[u]) : v < u})
               < target[routes[u]]}

Min2(i, j) == IF i <= j THEN i ELSE j

\* The others fill the candidates that are short of users, in the order of
\* the names (firstDeficit).
Short(deficits) == {a \in DOMAIN deficits : deficits[a] > 0}

Fill(plan, u, routes) ==
    LET a == Least(Short(plan.deficits))
    IN  IF Short(plan.deficits) = {} THEN plan
        ELSE [assign |-> IF routes[u] = a THEN plan.assign
                         ELSE [plan.assign EXCEPT ![u] = a],
              deficits |-> [plan.deficits EXCEPT ![a] = @ - 1]]

FillDeficits(routes, remaining, deficits) ==
    InOrder(LAMBDA plan, u : Fill(plan, u, routes),
            [assign |-> EmptyPlan(DOMAIN routes), deficits |-> deficits], remaining).assign

PlanGlobalRebalance(routes, active, routable, states) ==
    LET candidates == Candidates(states, {})
        target == WeightedTargetCounts(Cardinality(active), candidates, states)
        retained == Retained(routes, active, candidates, target)
        deficits == [a \in candidates |->
            target[a] - Min2(Cardinality(RoutedTo(routes, active, a)), target[a])]
    IN  [candidates |-> candidates, affected |-> active,
         skipped |-> active \ routable,
         assign |-> IF candidates = {} \/ ~ active \subseteq routable
                    THEN EmptyPlan(DOMAIN routes)
                    ELSE FillDeficits(routes, active \ retained, deficits)]

\* Every user the plan is about has a place: otherwise nothing is moved
\* (ErrRebalanceUnavailable, ErrRebalanceUnsafe).
Movable(plan) == plan.candidates # {} /\ plan.skipped = {}

-----------------------------------------------------------------------------
(* The portal's choice *)

\* LeastUsedEligibleAccount; Nowhere when no candidate qualifies.
LeastUsedEligibleAccount(candidates, states) ==
    LET usable == {a \in candidates \cap DOMAIN states :
                      states[a].eligible /\ ~states[a].exhausted
                          /\ states[a].reason = "available"
                          /\ states[a].headroom > 0 /\ states[a].used # Unknown}
    IN  IF usable = {} THEN Nowhere
        ELSE CHOOSE a \in usable : \A b \in usable \ {a} :
                 \/ states[a].used < states[b].used
                 \/ states[a].used = states[b].used /\ a < b

-----------------------------------------------------------------------------
(* What a plan promises, in terms of the routes it leads to. *)

After(routes, assign) ==
    [u \in DOMAIN routes |-> IF assign[u] = Nowhere THEN routes[u] ELSE assign[u]]

Moved(assign) == {u \in DOMAIN assign : assign[u] # Nowhere}

=============================================================================
