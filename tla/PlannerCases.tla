---------------------------- MODULE PlannerCases ----------------------------
(***************************************************************************)
(* The plans of the failover service against what they are for: every      *)
(* case is a set of routes, keys and account states, and the answer the    *)
(* plan made of them (service.go, RebalanceAll and evacuate).              *)
(***************************************************************************)
EXTENDS Planner

CONSTANTS
    PlanUser, PlanAccount,
    PlanRoutes,       \* SUBSET [PlanUser -> PlanAccount \cup {Nowhere}]
    PlanKeys,         \* SUBSET [PlanUser -> {"complete", "partial", "inactive"}]
    PlanStates        \* SUBSET [PlanAccount -> account states]

ASSUME PlanAssumption ==
    /\ PlanUser \subseteq Nat /\ PlanAccount \subseteq Nat \ {Nowhere}
    /\ PlanRoutes \subseteq [PlanUser -> PlanAccount \cup {Nowhere}]
    /\ PlanKeys \subseteq [PlanUser -> {"complete", "partial", "inactive"}]
    /\ IsFiniteSet(PlanUser) /\ IsFiniteSet(PlanAccount)
    /\ \A states \in PlanStates :
          /\ DOMAIN states = PlanAccount
          /\ \A a \in PlanAccount : states[a].headroom \in Nat /\ states[a].used \in Nat

VARIABLES question, answer

planVars == <<question, answer>>

NoQuestion == [kind |-> "none"]

\* activeUsersFromRecords and routableUsers
PlanActive == {u \in PlanUser : question.keys[u] # "inactive"}
PlanRoutable == {u \in PlanUser : question.keys[u] = "complete"}

PlanInit == question = NoQuestion /\ answer = NoQuestion

Arise(kind) ==
    /\ question = NoQuestion
    /\ question' \in [kind : {kind}, routes : PlanRoutes, keys : PlanKeys, states : PlanStates]

\* RebalanceAll, up to applyPlan
AskRebalance ==
    /\ Arise("rebalance")
    /\ answer' = PlanGlobalRebalance(question'.routes, PlanActive', PlanRoutable',
                                     question'.states)

\* evacuate, up to applyPlan
AskEvacuation ==
    /\ Arise("evacuation")
    /\ answer' = PlanEvacuation(question'.routes, PlanActive', PlanRoutable', question'.states,
                                ExhaustedAccounts(question'.states))

PlanNext == AskRebalance \/ AskEvacuation

-----------------------------------------------------------------------------
Planned(kind) == question.kind = kind /\ Movable(answer)

\* The load of the fullest account of S is at most as high with counts as
\* with other; the load is users per headroom.
NoHeavier(counts, other, S, states) ==
    \A a \in S : \E b \in S :
        counts[a] * states[b].headroom <= other[b] * states[a].headroom

\* A rebalance puts every active user on an account with headroom, no other
\* distribution has a lighter fullest account, no other plan with the same
\* distribution moves fewer users, and asked again it has nothing to do.
RebalanceMinimal ==
    Planned("rebalance") =>
        LET plan == answer
            found == After(question.routes, plan.assign)
            counts == Counts(found, PlanActive, plan.candidates)
        IN  /\ \A u \in PlanActive : found[u] \in plan.candidates
            /\ \A other \in [PlanActive -> plan.candidates] :
                  /\ NoHeavier(counts, Counts(other, PlanActive, plan.candidates),
                               plan.candidates, question.states)
                  /\ Counts(other, PlanActive, plan.candidates) = counts =>
                        Cardinality({u \in PlanActive : other[u] # question.routes[u]})
                            >= Cardinality(Moved(plan.assign))
            /\ Moved(PlanGlobalRebalance(found, PlanActive, PlanRoutable, question.states).assign)
                  = {}

\* An evacuation moves all the active users of the exhausted accounts and
\* nobody else, never to an exhausted account, and no other placement of them
\* leaves the fullest of the accounts it uses less loaded.
EvacuationFair ==
    Planned("evacuation") =>
        LET plan == answer
            counts(r) == Counts(r, PlanActive, plan.candidates)
            found == After(question.routes, plan.assign)
            used(r) == {r[u] : u \in plan.affected}
        IN  /\ Moved(plan.assign) = plan.affected
            /\ used(found) \subseteq plan.candidates \ ExhaustedAccounts(question.states)
            /\ \A other \in [plan.affected -> plan.candidates] :
                  LET r == [u \in PlanUser |-> IF u \in plan.affected THEN other[u]
                                               ELSE question.routes[u]]
                  IN  \A a \in used(found) : \E b \in used(r) :
                          counts(found)[a] * question.states[b].headroom
                              <= counts(r)[b] * question.states[a].headroom

\* Every plan the failover service can make does what it is for.
PlansAreOptimal == RebalanceMinimal /\ EvacuationFair
=============================================================================
