------------------------------ MODULE Metering ------------------------------
(***************************************************************************)
(* Usage collection and weekly quotas (internal/collector,                 *)
(* internal/usage/writer.go, quota_actions.go and portal_store.go,         *)
(* cmd/collector).                                                         *)
(*                                                                         *)
(* Every round of the collector synchronises identities, the time zone of  *)
(* the natural week and the expiry of personal policies, pops batches of   *)
(* request events from an account's queue into usage_events and the        *)
(* materialised user_weekly_usage, reads the weekly quotas and publishes   *)
(* them for the gateway (see Enforcement).  Each of these is a transaction *)
(* or a file of its own: the process may stop between any two of them, and *)
(* the popped batch is gone from the queue before it is written.           *)
(* Admin changes policies and settings beside it.                          *)
(***************************************************************************)
EXTENDS Integers, Sequences, FiniteSets, FiniteSetsExt

CONSTANTS
    MKey,           \* credentials a request can carry
    WeekLength,     \* ticks in a natural week
    Zone,           \* time zones, as offsets of the week in ticks
    DefaultTokens,  \* user_quota.default_weekly_tokens
    Multiplier,     \* weight of a request under the collector's policy
    BatchSize,
    MaxNow,         \* bound on time
    Scenario        \* bounds on requests, new keys, Admin's changes and their
                    \* kinds, zones and faults, and whether personal quotas end
                    \* with the week

ASSUME MeteringAssumption ==
    /\ MKey # {}
    /\ WeekLength \in Nat \ {0} /\ Zone \subseteq Nat /\ Zone # {}
    /\ DefaultTokens \in Nat \ {0} /\ Multiplier \in Nat /\ BatchSize \in Nat \ {0}
    /\ MaxNow \in Nat
    /\ Scenario \subseteq [requests : Nat, keys : SUBSET MKey, reset : BOOLEAN,
                           changes : Nat, kinds : SUBSET {"policy", "action", "zone", "switch"},
                           zones : SUBSET Zone, faults : Nat]

VARIABLES
    now,
    made,        \* requests made so far: their key and time
    issued,      \* keys the control plane lists for the user
    queue,       \* the usage queue of the account: numbers of requests
    batch,       \* popped and not yet committed
    identities,  \* key_identities
    events,      \* usage_events of the user
    weekly,      \* user_weekly_usage: week start -> weighted tokens
    zone,        \* usage_meta weekly_usage_timezone
    policy,      \* user_quota_policies: the user's row
    adjustments, \* user_quota_adjustments carried over from the old system
    setting,     \* what Admin keeps: the time zone, whether personal quotas end
                 \* with the week, the account's switch, a restart it owes
    collector,   \* the process: its step, its configuration, its round
    quotaFile,   \* quota-snapshot.json: the user's record
    heartbeat,   \* quota-heartbeat.json: whether the last round succeeded
    unmapped,    \* observer: requests dropped for an unknown key
    cuts,        \* observer: rounds that ended between an LPOP and its commit
    torn,        \* observer: a change of the zone did not reach the policy
    scenario,    \* the bounds of this behaviour
    changes, meterFaults

meterStore == <<identities, events, weekly, zone, policy, adjustments>>
meterFiles == <<quotaFile, heartbeat>>
observers == <<unmapped, cuts, torn>>
demand == <<now, made, issued, queue>>
meterVars == <<now, made, issued, queue, batch, identities, events, weekly, zone,
               policy, adjustments, setting, collector, quotaFile, heartbeat,
               unmapped, cuts, torn, scenario, changes, meterFaults>>

-----------------------------------------------------------------------------
(* Natural weeks and weights *)

\* The first tick of the week that holds t.
WeekStart(t, z) == ((t + z) \div WeekLength) * WeekLength - z
WeekEnd(t, z) == WeekStart(t, z) + WeekLength

\* Weight an old row gets that was written before weights existed.
Weight(e) == IF e.legacy /\ e.weighted = 0 THEN e.total ELSE e.weighted

\* rebuildWeeklyUsage: one counter per week that has events.
Rebuilt(es, z) ==
    LET weeks == {WeekStart(e.at, z) : e \in es}
    IN  [w \in weeks |->
           MapThenSumSet(Weight, {e \in es : WeekStart(e.at, z) = w})]

Rebucketed(as, z) ==
    {[a EXCEPT !.week = WeekStart(a.at, z)] : a \in as}

-----------------------------------------------------------------------------
(* The user's row, and what the gateway is told *)

Inherit == [mode |-> "inherit", scheduled |-> FALSE, resetAt |-> 0]
Expired(p) == p.scheduled /\ p.resetAt <= now
Valid == IF Expired(policy) THEN Inherit ELSE policy

Adjusted(kind, week) ==
    MapThenSumSet(LAMBDA a : a.amount,
                  {a \in adjustments : a.kind = kind /\ a.week = week})

Used(week) ==
    Max({0, (IF week \in DOMAIN weekly THEN weekly[week] ELSE 0)
              - Adjusted("usage_reset", week)})

\* WeeklyQuotas: one read transaction.
Quota ==
    LET week == WeekStart(now, zone)
        base == CASE Valid.mode = "inherit" -> DefaultTokens
                  [] Valid.mode = "custom" -> DefaultTokens + 1
                  [] Valid.mode = "unlimited" -> -1
    IN  [weekEnd |-> week + WeekLength, used |-> Used(week),
         limit |-> IF base = -1 THEN -1 ELSE base + Adjusted("bonus", week)]

NoQuotaFile == [weekEnd |-> 0, used |-> 0, limit |-> -1]

-----------------------------------------------------------------------------
(* Requests *)

\* An entry of the queue is an event to count, or one the collector skips: not
\* a JSON object, a listing of models, or without a key.
Request(k, counts) ==
    /\ k \in issued /\ Len(made) < scenario.requests
    /\ made' = Append(made, [key |-> k, at |-> now, counts |-> counts])
    /\ queue' = Append(queue, Len(made) + 1)
    /\ UNCHANGED <<now, issued, batch, meterStore, setting, collector, meterFiles,
                   observers, changes, meterFaults>>

\* An account reports a request a second time.
Redeliver ==
    \E r \in {q \in DOMAIN made : q = Len(made)} :
        /\ \A i \in DOMAIN queue : queue[i] # r
        /\ meterFaults < scenario.faults
        /\ meterFaults' = meterFaults + 1
        /\ queue' = Append(queue, r)
        /\ UNCHANGED <<now, made, issued, batch, meterStore, setting, collector,
                       meterFiles, observers, changes>>

\* A key or an internal key is made in the control plane.
IssueKey(k) ==
    /\ k \in scenario.keys \ issued
    /\ issued' = issued \cup {k}
    /\ UNCHANGED <<now, made, queue, batch, meterStore, setting, collector,
                   meterFiles, observers, changes, meterFaults>>

MeterTick ==
    /\ now < MaxNow
    /\ now' = now + 1
    /\ UNCHANGED <<made, issued, queue, batch, meterStore, setting, collector,
                   meterFiles, observers, changes, meterFaults>>

-----------------------------------------------------------------------------
(* Admin *)

Change(kind) ==
    kind \in scenario.kinds /\ changes < scenario.changes /\ changes' = changes + 1

\* The new row ends with the week of the stored time zone.
SetQuotaPolicy(mode) ==
    /\ Change("policy")
    /\ policy' = [mode |-> mode, scheduled |-> setting.reset,
                  resetAt |-> IF setting.reset THEN WeekEnd(now, zone) ELSE 0]
    /\ torn' = FALSE
    /\ UNCHANGED <<demand, batch, identities, events, weekly, zone, adjustments,
                   setting, collector, meterFiles, unmapped, cuts, meterFaults>>

\* ClearQuotaPolicy, and the quota action restore_default.
ClearQuotaPolicy ==
    /\ policy # Inherit
    /\ policy' = Inherit
    /\ torn' = FALSE
    /\ UNCHANGED <<demand, batch, identities, events, weekly, zone, adjustments,
                   setting, collector, meterFiles, unmapped, cuts, changes,
                   meterFaults>>

\* addQuotaBonus and resetQuotaUsage insert a UUID as the id of their row;
\* user_quota_adjustments.id is an INTEGER PRIMARY KEY, so the transaction is
\* rolled back.
AddBonus ==
    /\ Change("action")
    /\ UNCHANGED <<demand, batch, meterStore, setting, collector, meterFiles,
                   observers, meterFaults>>

\* A user without usage is skipped before that, to the same effect.
ResetUsage ==
    /\ Change("action")
    /\ UNCHANGED <<demand, batch, meterStore, setting, collector, meterFiles,
                   observers, meterFaults>>

\* The Configuration Center stores the time zone and then restarts the
\* collector.
SaveTimezone(z) ==
    /\ Change("zone")
    /\ z \in scenario.zones /\ z # setting.zone
    /\ setting' = [setting EXCEPT !.zone = z, !.restart = TRUE]
    /\ UNCHANGED <<demand, batch, meterStore, collector, meterFiles, observers,
                   meterFaults>>

\* The account is enabled or disabled.
SwitchAccount ==
    /\ Change("switch")
    /\ setting' = [setting EXCEPT !.enabled = ~@]
    /\ UNCHANGED <<demand, batch, meterStore, collector, meterFiles, observers,
                   meterFaults>>

-----------------------------------------------------------------------------
(* The collector *)

Down == [at |-> "down", zone |-> 0, reset |-> FALSE,
         changed |-> FALSE, ok |-> TRUE, quota |-> NoQuotaFile]

On(step) == collector.at = step
Goto(step) == collector' = [collector EXCEPT !.at = step]

\* RuntimeConfigFromSettings: the settings are read once.
StartCollector ==
    /\ On("down")
    /\ collector' = [Down EXCEPT !.at = "identities", !.zone = setting.zone,
                        !.reset = setting.reset]
    /\ UNCHANGED <<demand, batch, meterStore, setting, meterFiles, observers,
                   changes, meterFaults>>

SyncIdentities ==
    /\ On("identities")
    /\ identities' = identities \cup issued
    /\ Goto("zone")
    /\ UNCHANGED <<demand, batch, events, weekly, zone, policy, adjustments,
                   setting, meterFiles, observers, changes, meterFaults>>

\* One transaction: the counters are rebuilt and the adjustments moved to the
\* weeks of the new time zone.
EnsureWeekTimezone ==
    /\ On("zone")
    /\ zone' = collector.zone
    /\ IF zone = collector.zone THEN UNCHANGED <<weekly, adjustments>>
       ELSE /\ weekly' = Rebuilt(events, collector.zone)
            /\ adjustments' = Rebucketed(adjustments, collector.zone)
    /\ collector' = [collector EXCEPT !.at = "reset",
                                      !.changed = zone # collector.zone]
    /\ UNCHANGED <<demand, batch, identities, events, policy, setting, meterFiles,
                   observers, changes, meterFaults>>

\* Mutant: a changed time zone does not move the end of the policies.
ScheduledOnce(p) ==
    IF p.mode # "inherit" /\ ~p.scheduled
    THEN [p EXCEPT !.scheduled = TRUE, !.resetAt = WeekEnd(now, zone)] ELSE p

Scheduled(p) ==
    IF p.mode # "inherit" /\ (collector.changed \/ ~p.scheduled)
    THEN [p EXCEPT !.scheduled = TRUE, !.resetAt = WeekEnd(now, zone)] ELSE p

\* Another transaction: expired rows go, the others are scheduled or not.
ConfigurePersonalQuotaReset ==
    /\ On("reset")
    /\ policy' = IF collector.reset THEN Scheduled(Valid)
                 ELSE [Valid EXCEPT !.scheduled = FALSE, !.resetAt = 0]
    /\ torn' = (torn /\ ~collector.changed)
    /\ collector' = [collector EXCEPT !.at = "accounts", !.changed = FALSE]
    /\ UNCHANGED <<demand, batch, identities, events, weekly, zone, adjustments,
                   setting, meterFiles, unmapped, cuts, changes, meterFaults>>

\* ReadAccounts, once a round: a disabled account is skipped.
ReadAccounts ==
    /\ On("accounts")
    /\ Goto(IF setting.enabled THEN "drain" ELSE "quotas")
    /\ UNCHANGED <<demand, batch, meterStore, setting, meterFiles, observers,
                   changes, meterFaults>>

\* What one LPOP takes from the queue, and what it leaves.
Taken == IF Len(queue) < BatchSize THEN Len(queue) ELSE BatchSize
Left == SubSeq(queue, Taken + 1, Len(queue))

PopBatch ==
    /\ On("drain")
    /\ batch' = SubSeq(queue, 1, Taken)
    /\ queue' = Left
    /\ Goto(IF Taken = 0 THEN "quotas" ELSE "ingest")
    /\ UNCHANGED <<now, made, issued, meterStore, setting, meterFiles, observers,
                   changes, meterFaults>>

Row(r) == [request |-> r, at |-> made[r].at, total |-> 1, weighted |-> Multiplier,
           legacy |-> FALSE]

Recorded(r) == \E e \in events : e.request = r
InBatch == {batch[i] : i \in DOMAIN batch}
Valued == {r \in InBatch : made[r].counts}
Mapped == {r \in Valued : made[r].key \in identities}

Counted(rows) ==
    LET weeks == DOMAIN weekly \cup {WeekStart(e.at, zone) : e \in rows}
    IN  [w \in weeks |->
           (IF w \in DOMAIN weekly THEN weekly[w] ELSE 0)
             + MapThenSumSet(Weight, {e \in rows : WeekStart(e.at, zone) = w})]

AfterBatch == Goto(IF Len(batch) < BatchSize THEN "quotas" ELSE "drain")

\* Mutant: a duplicate is not inserted but counted.
IngestEventsRecounting ==
    /\ On("ingest")
    /\ events' = events \cup {Row(r) : r \in {q \in Mapped : ~Recorded(q)}}
    /\ weekly' = Counted({Row(r) : r \in Mapped})
    /\ unmapped' = unmapped \cup (Valued \ Mapped)
    /\ batch' = <<>>
    /\ AfterBatch
    /\ UNCHANGED <<demand, identities, zone, policy, adjustments, setting,
                   meterFiles, cuts, torn, changes, meterFaults>>

\* Mutant: one entry that cannot be counted fails the batch as a unit.
IngestEventsAsUnit ==
    /\ On("ingest")
    /\ LET new == IF Mapped = InBatch
                  THEN {Row(r) : r \in {q \in Mapped : ~Recorded(q)}} ELSE {}
       IN  events' = events \cup new /\ weekly' = Counted(new)
    /\ unmapped' = unmapped \cup (Valued \ Mapped)
    /\ batch' = <<>>
    /\ AfterBatch
    /\ UNCHANGED <<demand, identities, zone, policy, adjustments, setting,
                   meterFiles, cuts, torn, changes, meterFaults>>

\* One transaction per batch: entries that are no events to count are skipped,
\* unknown keys dropped, duplicates ignored.
IngestEvents ==
    /\ On("ingest")
    /\ LET new == {Row(r) : r \in {q \in Mapped : ~Recorded(q)}}
       IN  events' = events \cup new /\ weekly' = Counted(new)
    /\ unmapped' = unmapped \cup (Valued \ Mapped)
    /\ batch' = <<>>
    /\ AfterBatch
    /\ UNCHANGED <<demand, identities, zone, policy, adjustments, setting,
                   meterFiles, cuts, torn, changes, meterFaults>>

WeeklyQuotas ==
    /\ On("quotas")
    /\ collector' = [collector EXCEPT !.at = "publish", !.quota = Quota]
    /\ UNCHANGED <<demand, batch, meterStore, setting, meterFiles, observers,
                   changes, meterFaults>>

PublishQuotaSnapshot ==
    /\ On("publish")
    /\ quotaFile' = collector.quota
    /\ collector' = [collector EXCEPT !.at = "heartbeat", !.quota = NoQuotaFile]
    /\ UNCHANGED <<demand, batch, meterStore, setting, heartbeat, observers,
                   changes, meterFaults>>

\* The last success stays when the round had an error; the timer starts the
\* next round.
PublishQuotaHeartbeat ==
    /\ On("heartbeat")
    /\ heartbeat' = collector.ok
    /\ collector' = [collector EXCEPT !.at = "identities", !.ok = TRUE]
    /\ UNCHANGED <<demand, batch, meterStore, setting, quotaFile, observers,
                   changes, meterFaults>>

MeterFault == meterFaults < scenario.faults /\ meterFaults' = meterFaults + 1

\* A round that ends here.  A popped batch is lost; at an LPOP whose answer does
\* not come, the queue may have been popped or not.
Cut ==
    /\ batch' = <<>>
    /\ queue' \in IF On("drain") THEN {queue, Left} ELSE {queue}
    /\ cuts' = IF collector.at \in {"drain", "ingest"} THEN cuts + 1 ELSE cuts
    /\ torn' = (torn \/ (On("reset") /\ collector.changed))
    /\ UNCHANGED <<now, made, issued, meterStore, meterFiles, unmapped, changes>>

\* Mutant: an error ends the loop, the process staying up.
RoundStepHalts ==
    /\ collector.at # "down"
    /\ MeterFault
    /\ Cut
    /\ Goto("halted")
    /\ UNCHANGED setting

\* The fence or a transaction refuses, or the queue does not answer.  Before
\* the drain this ends the round without a heartbeat; later the round goes on
\* with an error.
RoundStepFails ==
    /\ collector.at # "down"
    /\ MeterFault
    /\ Cut
    /\ collector' =
         CASE collector.at \in {"identities", "zone", "reset", "accounts", "heartbeat"} ->
                [collector EXCEPT !.at = "identities", !.changed = FALSE, !.ok = TRUE]
           [] collector.at \in {"drain", "ingest"} ->
                [collector EXCEPT !.at = "quotas", !.ok = FALSE]
           [] collector.at \in {"quotas", "publish"} ->
                [collector EXCEPT !.at = "heartbeat", !.ok = FALSE, !.quota = NoQuotaFile]
    /\ UNCHANGED setting

\* A crash or a lost lease, or the restart Admin owes the collector: any of
\* them at any step.
StopCollector ==
    /\ collector.at # "down"
    /\ \/ MeterFault /\ UNCHANGED setting
       \/ /\ setting.restart
          /\ setting' = [setting EXCEPT !.restart = FALSE]
          /\ UNCHANGED meterFaults
    /\ Cut
    /\ collector' = Down

-----------------------------------------------------------------------------

\* The database of the old system: rows without weights, adjustments.
MeterInit ==
    /\ now = 0 /\ made = <<>> /\ issued = {CHOOSE k \in MKey : TRUE}
    /\ queue = <<>> /\ batch = <<>> /\ identities = {}
    /\ zone = Min(Zone)
    /\ scenario \in Scenario
    /\ setting = [zone |-> zone, reset |-> scenario.reset, enabled |-> TRUE, restart |-> FALSE]
    /\ events = {[request |-> 0, at |-> 0, total |-> 1, weighted |-> 0, legacy |-> TRUE]}
    /\ weekly = Rebuilt(events, zone)
    /\ \E kind \in {"bonus", "usage_reset"} :
          adjustments = {[kind |-> kind, at |-> 0, amount |-> 1,
                          week |-> WeekStart(0, zone)]}
    /\ policy = Inherit
    /\ collector = Down
    /\ quotaFile = NoQuotaFile /\ heartbeat = FALSE
    /\ unmapped = {} /\ cuts = 0 /\ torn = FALSE
    /\ changes = 0 /\ meterFaults = 0

CollectorStep ==
    \/ StartCollector \/ SyncIdentities \/ EnsureWeekTimezone \/ ConfigurePersonalQuotaReset
    \/ ReadAccounts \/ PopBatch \/ IngestEvents \/ WeeklyQuotas
    \/ PublishQuotaSnapshot \/ PublishQuotaHeartbeat

AdminChange ==
    \/ \E mode \in {"custom", "unlimited"} : SetQuotaPolicy(mode)
    \/ ClearQuotaPolicy \/ AddBonus \/ ResetUsage \/ SwitchAccount
    \/ \E z \in Zone : SaveTimezone(z)

MeterStep ==
    \/ \E k \in MKey : (\E counts \in BOOLEAN : Request(k, counts)) \/ IssueKey(k)
    \/ Redeliver \/ MeterTick
    \/ AdminChange \/ CollectorStep
    \/ RoundStepFails \/ StopCollector

MeterNext == MeterStep /\ UNCHANGED scenario

MeterSpec == MeterInit /\ [][MeterNext]_meterVars

\* The worker is restarted by its supervisor and its loop has no end.
FairMeterSpec == MeterSpec /\ WF_meterVars(CollectorStep /\ UNCHANGED scenario)

-----------------------------------------------------------------------------

\* user_weekly_usage is at every moment what a rebuild from usage_events in
\* the stored time zone would give, whatever is redelivered, restarted or
\* re-bucketed: quotas are decided on it and nobody recomputes it.
WeeklyMatchesEvents == weekly = Rebuilt(events, zone)

\* Requests to be counted that are nowhere any more.
Missing ==
    {r \in DOMAIN made :
        /\ made[r].counts /\ r \notin unmapped /\ ~Recorded(r)
        /\ r \notin InBatch /\ \A i \in DOMAIN queue : queue[i] # r}

\* A round that is cut between an LPOP and its commit, by a failure, a crash or
\* the restart for new settings, costs one batch at the most; nothing else loses
\* a request, whatever else is in its batch ("malformed queue entries ... can
\* never make a valid batch fail as a unit", DrainAccount).
OneBatchPerCut == Cardinality(Missing) <= BatchSize * cuts

\* With weekly reset on, a personal quota in force ends within a week, and with
\* the week of the stored time zone: but for the moment between the two
\* transactions that change the zone and the policies, and for a row that
\* moment has stranded, the round being cut there (EnsureWeekTimezone tells
\* of a change only once).
PolicyEndsWithWeek ==
    setting.reset /\ Valid.mode # "inherit" =>
        /\ policy.resetAt <= now + WeekLength
        /\ \/ policy.resetAt = WeekEnd(now, zone)
           \/ On("reset") /\ collector.changed
           \/ torn

\* Every request leaves the queue while its account is enabled, of the finitely
\* many that are made: the collector is restarted after a crash and a round
\* that fails is followed by another.
QueueDrained == []<>(queue = <<>> \/ ~setting.enabled)

=============================================================================
