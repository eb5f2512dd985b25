---------------------------- MODULE Publication ----------------------------
(***************************************************************************)
(* How routing decisions reach the data plane.  The control-plane store    *)
(* holds the account catalog and the route of every user; a publisher      *)
(* turns them into the auth snapshot file under a new generation; both     *)
(* gateway slots keep reloading the file; the edge forwards to the slot a  *)
(* selection file names (internal/controlplane/routes.go,                  *)
(* internal/failover/auth_snapshot.go, internal/gateway/loader.go,         *)
(* internal/edge/selection.go).                                            *)
(*                                                                         *)
(* A user here is an active user with one secret and a key record for      *)
(* every account: the users a plan may move (routableUsers).               *)
(***************************************************************************)
EXTENDS Integers

CONSTANTS
    User,
    Account,
    Slot,          \* gateway slots: blue and green
    NoAccount,     \* no route ("")
    NoSlot         \* a selection file that ParseSelection refuses

ASSUME PublicationAssumption ==
    /\ NoAccount \notin Account
    /\ NoSlot \notin Slot

VARIABLES
    catalog,    \* accounts table: status of every account
    routes,     \* user_routes table
    minted,     \* generations handed out by buildPayload (uuid.NewString)
    snap,       \* auth-snapshot.json
    loaded,     \* engine.auth of every gateway slot
    selection,  \* active-gateway.conf
    edge        \* selector.slot of the edge

dataPlane == <<loaded, selection, edge>>
store == <<catalog, routes>>

Status == {"enabled", "disabled", "absent"}
Target == Account \cup {NoAccount}
Routing == [User -> Target]
Snapshot == [gen : Nat, view : Routing]

\* buildPayload, one user: no record unless the route names an account of
\* the catalog whose group is enabled.
Served(a) ==
    IF a \in Account /\ catalog[a] = "enabled" THEN a ELSE NoAccount

Build == [u \in User |-> Served(routes[u])]

\* WithWriteFence around the reads, buildPayload and the atomic replacement:
\* the file gets what the store holds at that moment.
WriteSnapshot ==
    /\ minted' = minted + 1
    /\ snap' = [gen |-> minted + 1, view |-> Build]

-----------------------------------------------------------------------------
(* Route writes.  A plan names the users it moves by the targets it has for *)
(* them: NoAccount is "not in the plan".                                    *)

InPlan(assign) == {u \in User : assign[u] # NoAccount}

CanApply(assign, expected) ==
    \A u \in InPlan(assign) :
        /\ catalog[assign[u]] # "absent"
        /\ routes[u] = expected[u]

ApplyRoutesExpected(assign, expected) ==
    /\ CanApply(assign, expected)
    /\ routes' = [u \in User |->
                    IF u \in InPlan(assign) THEN assign[u] ELSE routes[u]]
    /\ UNCHANGED catalog

CanRestore(assign) == \A u \in InPlan(assign) : routes[u] = assign[u]

\* RestoreRoutesExpected does not look at the catalog.
RestoreRoutesExpected(assign, expected) ==
    /\ CanRestore(assign)
    /\ routes' = [u \in User |->
                    IF u \in InPlan(assign) THEN expected[u] ELSE routes[u]]
    /\ UNCHANGED catalog

-----------------------------------------------------------------------------
(* The data plane. *)

NothingLoaded == [gen |-> 0, view |-> [u \in User |-> NoAccount]]

\* Mutant: the loader reads the file once, at startup.
LoadOnce(s) ==
    /\ loaded[s].gen = 0 /\ snap.gen # 0
    /\ loaded' = [loaded EXCEPT ![s] = snap]
    /\ UNCHANGED <<selection, edge, minted, snap, catalog, routes>>

\* Refresh of the auth snapshot, from the ticker or a file event; the file
\* is replaced by a rename, so it is never half written.
Load(s) ==
    /\ loaded[s] # snap
    /\ loaded' = [loaded EXCEPT ![s] = snap]
    /\ UNCHANGED <<selection, edge, minted, snap, catalog, routes>>

GatewayRestart(s) ==
    /\ loaded[s].gen # 0
    /\ loaded' = [loaded EXCEPT ![s] = NothingLoaded]
    /\ UNCHANGED <<selection, edge, minted, snap, catalog, routes>>

\* A deployment replaces the selection file; it may also be damaged.
Select(s) ==
    /\ selection # s
    /\ selection' = s
    /\ UNCHANGED <<loaded, edge, minted, snap, catalog, routes>>

\* Mutant: a file that is refused is taken for a selection.
EdgeRefreshUnchecked ==
    /\ edge # selection
    /\ edge' = selection
    /\ UNCHANGED <<loaded, selection, minted, snap, catalog, routes>>

\* selector.Refresh keeps the previous slot when the file is refused.
EdgeRefresh ==
    /\ selection \in Slot
    /\ edge # selection
    /\ edge' = selection
    /\ UNCHANGED <<loaded, selection, minted, snap, catalog, routes>>

PublicationTypeOK ==
    /\ catalog \in [Account -> Status]
    /\ routes \in Routing
    /\ minted \in Nat
    /\ snap \in Snapshot
    /\ loaded \in [Slot -> Snapshot]
    /\ selection \in Slot \cup {NoSlot}
    /\ edge \in Slot

=============================================================================
