--------------------------- MODULE MCControlPlane ---------------------------
(***************************************************************************)
(* The components that are checked for safety alone, each on an instance   *)
(* of its own: a behaviour is one of part, the others rest in an initial   *)
(* state.                                                                  *)
(***************************************************************************)
EXTENDS PlannerCases, StatusObserver, Enforcement, UserKeys, RuntimeJobs,
        ImageUpdate, MCConfiguration, QuotaWorker, AccessLog

VARIABLE part

(***************************************************************************)
(* PlannerCases: every routing of three users over three accounts, each    *)
(* spent, past the reserve, nearly spent or free.                          *)
(***************************************************************************)
PlanState(used, limit) ==
    [eligible |-> ~limit /\ used < 95, exhausted |-> limit,
     headroom |-> IF used < 95 THEN 95 - used ELSE 0, used |-> used,
     reason |-> IF limit THEN "quota_exhausted" ELSE "available"]

MCPlanRoutes == [PlanUser -> PlanAccount \cup {Nowhere}]
MCPlanKeys == {<<"complete", "complete", "complete">>,
               <<"complete", "complete", "inactive">>,
               <<"partial", "complete", "complete">>}
MCPlanStates ==
    [PlanAccount -> {PlanState(100, TRUE), PlanState(96, FALSE),
                     PlanState(75, FALSE), PlanState(35, FALSE)}]

(***************************************************************************)
(* QuotaWorker: a refresh request with a fault and the operators at work;  *)
(* a reset credit beside the worker's rounds; or two credits.              *)
(***************************************************************************)
MCQScenario ==
    {[requests |-> 1, credits |-> {}, faults |-> 1, others |-> TRUE, worker |-> TRUE],
     [requests |-> 0, credits |-> {CHOOSE c \in Credit : TRUE}, faults |-> 0,
      others |-> FALSE, worker |-> TRUE],
     [requests |-> 0, credits |-> Credit, faults |-> 0, others |-> FALSE, worker |-> FALSE]}

-----------------------------------------------------------------------------
Part == {"planner", "observer", "enforcement", "users", "jobs", "images",
         "configuration", "quota", "logs"}

controlVars == <<part, planVars, observerVars, enforceVars, userVars, jobVars,
                 imageVars, confVars, quotaVars, logVars>>

MCInit ==
    /\ part \in Part
    /\ PlanInit /\ ObserverInit /\ EnforceInit
    /\ UserInit /\ (part # "users" => routed)
    /\ JobsInit /\ ImageInit
    /\ ConfInit /\ (part # "configuration" => webhook /\ settings["old_zone"] = Unset)
    /\ QuotaInit /\ (part # "quota" => qscenario = CHOOSE s \in QScenario : TRUE)
    /\ LogInit

\* A step of one part leaves the rest alone.
PlannerStep ==
    /\ part = "planner" /\ PlanNext
    /\ UNCHANGED <<part, observerVars, enforceVars, userVars, jobVars, imageVars,
                   confVars, quotaVars, logVars>>
ObserverStep ==
    /\ part = "observer" /\ ObserverNext
    /\ UNCHANGED <<part, planVars, enforceVars, userVars, jobVars, imageVars,
                   confVars, quotaVars, logVars>>
EnforcementStep ==
    /\ part = "enforcement" /\ EnforceNext
    /\ UNCHANGED <<part, planVars, observerVars, userVars, jobVars, imageVars,
                   confVars, quotaVars, logVars>>
UsersStep ==
    /\ part = "users" /\ UserNext
    /\ UNCHANGED <<part, planVars, observerVars, enforceVars, jobVars, imageVars,
                   confVars, quotaVars, logVars>>
JobsStep ==
    /\ part = "jobs" /\ JobsNext
    /\ UNCHANGED <<part, planVars, observerVars, enforceVars, userVars, imageVars,
                   confVars, quotaVars, logVars>>
ImagesStep ==
    /\ part = "images" /\ ImageNext
    /\ UNCHANGED <<part, planVars, observerVars, enforceVars, userVars, jobVars,
                   confVars, quotaVars, logVars>>
ConfigurationStep ==
    /\ part = "configuration" /\ ConfNext
    /\ UNCHANGED <<part, planVars, observerVars, enforceVars, userVars, jobVars,
                   imageVars, quotaVars, logVars>>
QuotaStep ==
    /\ part = "quota" /\ QuotaNext
    /\ UNCHANGED <<part, planVars, observerVars, enforceVars, userVars, jobVars, imageVars,
                   confVars, logVars>>
LogsStep ==
    /\ part = "logs" /\ LogNext
    /\ UNCHANGED <<part, planVars, observerVars, enforceVars, userVars, jobVars, imageVars,
                   confVars, quotaVars>>

MCNext ==
    \/ PlannerStep \/ ObserverStep \/ EnforcementStep \/ UsersStep \/ JobsStep
    \/ ImagesStep \/ ConfigurationStep \/ QuotaStep \/ LogsStep

MCSpec == MCInit /\ [][MCNext]_controlVars
=============================================================================
