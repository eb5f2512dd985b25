----------------------------- MODULE Enforcement -----------------------------
(***************************************************************************)
(* What the gateway admits (internal/gateway/loader.go and authorize.go)   *)
(* given three files that others replace: auth-snapshot.json (Publication, *)
(* UserKeys), quota-snapshot.json and quota-heartbeat.json (Metering).     *)
(*                                                                         *)
(* A refresh loads the three one after the other, each of them alone able  *)
(* to fail, in which case what was loaded before stays.  Authentication is *)
(* fail-closed: what was loaded counts for AuthMaxAge.  Quota is fail-open:*)
(* it counts while the collector's last success and the load are recent.   *)
(***************************************************************************)
EXTENDS Integers

CONSTANTS
    AuthMaxAge,     \* AuthSnapshotMaxAge, in ticks
    FailOpenAfter,  \* fail_open_after_seconds, in ticks
    QuotaWeek,      \* ticks in a natural week
    MaxClock        \* bound on time

ASSUME EnforcementAssumption ==
    /\ AuthMaxAge \in Nat /\ FailOpenAfter \in Nat
    /\ QuotaWeek \in Nat \ {0} /\ MaxClock \in Nat

VARIABLES
    clock,          \* time.Now, from 1
    listed,         \* auth-snapshot.json lists the key
    unlistedAt,     \* observer: when it ceased to, 0 before
    record,         \* quota-snapshot.json: the user's record
    overAt,         \* observer: when the file last said "over", 0 for never
    success,        \* quota-heartbeat.json: last_success_at, 0 for never
    writing,        \* the collector's round: what is left to write
    loader,         \* the refresh: its step, and now as read at its start
    auth, limits,   \* engine.auth and engine.quota
    beat            \* engine.heartbeat

planeFiles == <<listed, unlistedAt, record, overAt, success, writing>>
engine == <<auth, limits, beat>>
enforceVars == <<clock, listed, unlistedAt, record, overAt, success, writing,
                 loader, auth, limits, beat>>

NoRecord == [found |-> FALSE, over |-> FALSE, weekEnd |-> 0]
QuotaWeekEnd == (clock \div QuotaWeek + 1) * QuotaWeek
LoaderIdle == [at |-> "idle", now |-> 0]

-----------------------------------------------------------------------------
(* The writers of the files *)

\* The user's key is taken out of the snapshot, or comes back.
PublishKeys ==
    /\ listed' = ~listed
    /\ unlistedAt' = IF listed THEN clock ELSE 0
    /\ UNCHANGED <<clock, record, overAt, success, writing, loader, engine>>

\* PublishQuotaSnapshot: the user, if active, with the usage of this moment.
WriteRecord(found, over) ==
    /\ writing = "record"
    /\ record' = [found |-> found, over |-> found /\ over,
                  weekEnd |-> IF found THEN QuotaWeekEnd ELSE 0]
    /\ overAt' = IF found /\ over THEN clock ELSE overAt
    /\ writing' = "success"
    /\ UNCHANGED <<clock, listed, unlistedAt, success, loader, engine>>

\* A round without an error counts as a success.
WriteHeartbeat ==
    /\ writing = "success"
    /\ success' = clock
    /\ writing' = "record"
    /\ UNCHANGED <<clock, listed, unlistedAt, record, overAt, loader, engine>>

\* A round with an error keeps the last success.
RoundFails ==
    /\ writing = "success"
    /\ writing' = "record"
    /\ UNCHANGED <<clock, listed, unlistedAt, record, overAt, success, loader, engine>>

PlaneTick ==
    /\ clock < MaxClock
    /\ clock' = clock + 1
    /\ overAt' = IF record.found /\ record.over THEN clock + 1 ELSE overAt
    /\ UNCHANGED <<listed, unlistedAt, record, success, writing, loader, engine>>

-----------------------------------------------------------------------------
(* The loader: one refresh at a time (refreshMu) *)

RefreshBegins ==
    /\ loader = LoaderIdle
    /\ loader' = [at |-> "auth", now |-> clock]
    /\ UNCHANGED <<clock, planeFiles, engine>>

Loaded(step, next) ==
    /\ loader.at = step
    /\ loader' = IF next = "idle" THEN LoaderIdle ELSE [loader EXCEPT !.at = next]

LoadAuth ==
    /\ Loaded("auth", "quota")
    /\ auth' = [loadedAt |-> loader.now, key |-> listed]
    /\ UNCHANGED <<clock, planeFiles, limits, beat>>

LoadQuota ==
    /\ Loaded("quota", "heartbeat")
    /\ limits' = [loadedAt |-> loader.now, record |-> record]
    /\ UNCHANGED <<clock, planeFiles, auth, beat>>

LoadHeartbeat ==
    /\ Loaded("heartbeat", "idle")
    /\ beat' = success
    /\ UNCHANGED <<clock, planeFiles, auth, limits>>

\* Mutant: freshness is advanced although nothing was loaded.
LoadFailsFresh ==
    /\ \/ Loaded("auth", "quota") /\ auth' = [auth EXCEPT !.loadedAt = loader.now]
       \/ Loaded("quota", "heartbeat") /\ UNCHANGED auth
       \/ Loaded("heartbeat", "idle") /\ UNCHANGED auth
    /\ UNCHANGED <<clock, planeFiles, limits, beat>>

\* A file is missing, unreadable or malformed.
LoadFails ==
    /\ \/ Loaded("auth", "quota")
       \/ Loaded("quota", "heartbeat")
       \/ Loaded("heartbeat", "idle")
    /\ UNCHANGED <<clock, planeFiles, engine>>

Restart ==
    /\ loader' = LoaderIdle
    /\ auth' = [loadedAt |-> 0, key |-> FALSE]
    /\ limits' = [loadedAt |-> 0, record |-> NoRecord]
    /\ beat' = 0
    /\ UNCHANGED <<clock, planeFiles>>

-----------------------------------------------------------------------------
(* Authorize *)

\* Otherwise 503.
AuthFresh == auth.loadedAt > 0 /\ clock - auth.loadedAt <= AuthMaxAge

\* Mutant: the collector being alive is taken for the loader being alive.
QuotaCountsByBeat == beat > 0 /\ clock - beat <= FailOpenAfter /\ limits.record.found

\* Otherwise the request is allowed with a warning.
QuotaCounts ==
    /\ beat > 0 /\ clock - beat <= FailOpenAfter
    /\ limits.loadedAt > 0 /\ clock - limits.loadedAt <= FailOpenAfter
    /\ limits.record.found /\ clock < limits.record.weekEnd

Accepted == AuthFresh /\ auth.key
Exceeded == Accepted /\ QuotaCounts /\ limits.record.over

-----------------------------------------------------------------------------

EnforceInit ==
    /\ clock = 1 /\ listed = TRUE /\ unlistedAt = 0
    /\ record = NoRecord /\ overAt = 0 /\ success = 0 /\ writing = "record"
    /\ loader = LoaderIdle
    /\ auth = [loadedAt |-> 0, key |-> FALSE]
    /\ limits = [loadedAt |-> 0, record |-> NoRecord]
    /\ beat = 0

EnforceNext ==
    \/ PublishKeys \/ WriteHeartbeat \/ RoundFails \/ PlaneTick
    \/ \E found, over \in BOOLEAN : WriteRecord(found, over)
    \/ RefreshBegins \/ LoadAuth \/ LoadQuota \/ LoadHeartbeat \/ LoadFails
    \/ Restart

EnforceSpec == EnforceInit /\ [][EnforceNext]_enforceVars

-----------------------------------------------------------------------------

\* A key that was taken out of the snapshot is accepted for at most
\* AuthMaxAge more, even when the loader fails from then on ("prolonged
\* failures naturally switch authorization to its fail-closed 503", Refresh).
StaleKeysExpire ==
    Accepted => listed \/ clock - unlistedAt <= AuthMaxAge

\* A request is refused for quota only if the snapshot file said so within
\* the last FailOpenAfter and the week is not over: one unreadable file of
\* the three does not keep a user out.
RefusedOnRecentGrounds ==
    Exceeded => /\ overAt > 0 /\ clock - overAt <= FailOpenAfter
                /\ clock < (overAt \div QuotaWeek + 1) * QuotaWeek

=============================================================================
