-------------------------- MODULE WorkersProofs --------------------------
(***************************************************************************)
(* Proofs about the workers behind the gateway: the usage collector and    *)
(* its store, and the notifications.  They hold for every number of keys,  *)
(* requests, accounts and slots, every length of the week and size of the  *)
(* batch, and every bound on the faults.                                   *)
(***************************************************************************)
EXTENDS Metering, Notifications, InductionLemmas, SequenceTheorems,
        FiniteSetTheorems, TLAPS

-----------------------------------------------------------------------------
(* Notifications: how often a slot is reported for. *)

NRound == [phase : {"idle", "send", "failed", "record"}, due : SUBSET Slot,
           events : SUBSET NAccount, rows : [NAccount -> Level], base : [NAccount -> Nat],
           check : BOOLEAN]
NState == [scheduled : SUBSET Slot, base : [NAccount -> Nat], alerts : [NAccount -> Level]]
Cycle == [number : Nat, ended : Nat]

NotifyTypeOK ==
    /\ level \in [NAccount -> Level]
    /\ cycle \in [NAccount -> Cycle]
    /\ slots \in [Slot -> {"before", "open", "past"}]
    /\ settings \in [on : BOOLEAN, alerts : BOOLEAN]
    /\ nstate \in NState
    /\ nround \in NRound
    /\ delivered \in [Slot -> Nat]
    /\ nfaults \in Nat

\* Reported for more often than steps have failed: then the slot is recorded as
\* sent, or is about to be, or is over.
ReportsAccounted ==
    \A s \in Slot :
        /\ delivered[s] <= 1 + nfaults
        /\ \/ delivered[s] <= nfaults
           \/ s \in nstate.scheduled
           \/ slots[s] = "past"
           \/ nround.phase = "record" /\ s \in nround.due
        /\ nround.phase = "send" /\ s \in nround.due => delivered[s] <= nfaults

ReportInv == NotifyTypeOK /\ ReportsAccounted

\* A round that is not running is a round.
LEMMA NoNRoundType == NoNRound \in NRound /\ NoNRound.phase = "idle" /\ NoNRound.due = {}
BY DEF NoNRound, NRound, Level

\* The webhook accepts: one more message for every slot that is due.
LEMMA AcceptedCounts ==
  ASSUME NotifyTypeOK, Accepted
  PROVE  /\ delivered' \in [Slot -> Nat]
         /\ \A s \in Slot : delivered'[s] = delivered[s] + IF s \in nround.due THEN 1 ELSE 0
BY DEF NotifyTypeOK, Accepted

\* The inductive invariant behind ReportedOnce.
THEOREM ReportsAreAccounted == NotifySpec => []ReportInv
<1>1. NotifyInit => ReportInv
  <2> SUFFICES ASSUME NotifyInit PROVE ReportInv
    OBVIOUS
  <2>1. nround \in NRound
    BY NoNRoundType DEF NotifyInit
  <2>2. nstate \in NState /\ cycle \in [NAccount -> Cycle] /\ level \in [NAccount -> Level]
    BY DEF NotifyInit, NState, Level, Cycle
  <2> QED
    BY <2>1, <2>2 DEF NotifyInit, ReportInv, NotifyTypeOK, ReportsAccounted, NoNRound
<1>2. ReportInv /\ [NotifyNext]_notifyVars => ReportInv'
  <2> SUFFICES ASSUME ReportInv, [NotifyNext]_notifyVars PROVE ReportInv'
    OBVIOUS
  <2> USE DEF outsideVars, ghostVars
  <2>0. NotifyTypeOK /\ ReportsAccounted
    BY DEF ReportInv
  <2>a. /\ level \in [NAccount -> Level] /\ cycle \in [NAccount -> Cycle]
        /\ slots \in [Slot -> {"before", "open", "past"}]
        /\ settings \in [on : BOOLEAN, alerts : BOOLEAN] /\ nstate \in NState
        /\ nround \in NRound /\ delivered \in [Slot -> Nat] /\ nfaults \in Nat
    BY <2>0 DEF NotifyTypeOK
  <2>1. CASE IdleRound
    <3>1. /\ UNCHANGED <<level, cycle, slots, settings, nround, delivered, nfaults>>
          /\ nstate' = [nstate EXCEPT !.scheduled = PruneScheduled(@)]
      BY <2>1 DEF IdleRound
    <3>2. /\ nstate' \in NState
          /\ \A s \in nstate.scheduled : s \in nstate'.scheduled \/ slots[s] = "past"
      BY <2>a, <3>1 DEF NState, PruneScheduled
    <3> QED
      BY <2>0, <3>1, <3>2 DEF ReportInv, NotifyTypeOK, ReportsAccounted
  <2>2. CASE BeginNotifyRound
    <3>1. /\ UNCHANGED <<level, cycle, slots, settings, nstate, delivered, nfaults>>
          /\ nround.phase = "idle"
          /\ nround' = [phase  |-> IF DueSchedules = {} /\ Events = {} THEN "record" ELSE "send",
                        due    |-> DueSchedules,
                        events |-> Events,
                        rows   |-> level,
                        base   |-> Baseline,
                        check  |-> settings.alerts]
      BY <2>2 DEF BeginNotifyRound
    <3>2. /\ DueSchedules \subseteq Slot
          /\ \A s \in DueSchedules : slots[s] # "past" /\ s \notin nstate.scheduled
      BY <2>a DEF DueSchedules
    <3>3. Events \subseteq NAccount /\ Baseline \in [NAccount -> Nat]
      BY <2>a DEF Events, RefreshEvents, LevelEvents, Baseline, Cycle, NState
    <3>4. /\ nround' \in NRound /\ nround'.due = DueSchedules
          /\ nround'.phase = "send" \/ (nround'.phase = "record" /\ DueSchedules = {})
      BY <2>a, <3>1, <3>2, <3>3 DEF NRound
    <3>5. ReportsAccounted'
      BY <2>0, <3>1, <3>2, <3>4 DEF ReportsAccounted
    <3> QED
      BY <2>0, <3>1, <3>4, <3>5 DEF ReportInv, NotifyTypeOK
  <2>3. CASE Send
    <3>1. /\ UNCHANGED <<level, cycle, slots, settings, nstate, nfaults>> /\ Accepted
          /\ nround.phase = "send" /\ nround' = [nround EXCEPT !.phase = "record"]
      BY <2>3 DEF Send
    <3>2. nround' \in NRound /\ nround'.phase = "record" /\ nround'.due = nround.due
      BY <2>a, <3>1 DEF NRound
    <3>3. /\ delivered' \in [Slot -> Nat]
          /\ \A s \in Slot : delivered'[s] = delivered[s] + IF s \in nround.due THEN 1 ELSE 0
      BY <2>0, <3>1, AcceptedCounts
    <3>4. ReportsAccounted'
      BY <2>0, <2>a, <3>1, <3>2, <3>3 DEF ReportsAccounted
    <3> QED
      BY <2>0, <3>1, <3>2, <3>3, <3>4 DEF ReportInv, NotifyTypeOK
  <2>4. CASE SendFails
    <3>1. /\ UNCHANGED <<level, cycle, slots, settings, nstate>>
          /\ nround.phase = "send" /\ nround' = [nround EXCEPT !.phase = "failed"]
          /\ \/ UNCHANGED <<delivered, nfaults>>
             \/ UNCHANGED delivered /\ nfaults' = nfaults + 1
             \/ Accepted /\ nfaults' = nfaults + 1
      BY <2>4 DEF SendFails
    <3>2. nround' \in NRound /\ nround'.phase = "failed" /\ nround'.due = nround.due
      BY <2>a, <3>1 DEF NRound
    <3>3. CASE UNCHANGED <<delivered, nfaults>> \/ (UNCHANGED delivered /\ nfaults' = nfaults + 1)
      <4>1. ReportsAccounted' /\ nfaults' \in Nat
        BY <2>0, <2>a, <3>1, <3>2, <3>3 DEF ReportsAccounted
      <4> QED
        BY <2>0, <3>1, <3>2, <3>3, <4>1 DEF ReportInv, NotifyTypeOK
    <3>4. CASE Accepted /\ nfaults' = nfaults + 1
      <4>1. /\ delivered' \in [Slot -> Nat]
            /\ \A s \in Slot : delivered'[s] = delivered[s] + IF s \in nround.due THEN 1 ELSE 0
        BY <2>0, <3>4, AcceptedCounts
      <4>2. ReportsAccounted' /\ nfaults' \in Nat
        BY <2>0, <2>a, <3>1, <3>2, <3>4, <4>1 DEF ReportsAccounted
      <4> QED
        BY <2>0, <3>1, <3>2, <4>1, <4>2 DEF ReportInv, NotifyTypeOK
    <3> QED
      BY <3>1, <3>3, <3>4
  <2>5. CASE Record
    <3>1. /\ UNCHANGED <<level, cycle, slots, settings, delivered, nfaults>>
          /\ nround.phase = "record" /\ nround' = NoNRound
          /\ nstate' = [scheduled |-> PruneScheduled(nstate.scheduled \cup nround.due),
                        base      |-> nround.base,
                        alerts    |-> UpdatedAlerts]
      BY <2>5 DEF Record, Reported
    <3>2. UpdatedAlerts \in [NAccount -> Level]
      BY <2>a DEF UpdatedAlerts, NRound, NState
    <3>3. /\ nstate' \in NState
          /\ \A s \in nstate.scheduled \cup nround.due : s \in nstate'.scheduled \/ slots[s] = "past"
      BY <2>a, <3>1, <3>2 DEF NState, NRound, PruneScheduled
    <3>4. ReportsAccounted'
      BY <2>0, <3>1, <3>3, NoNRoundType DEF ReportsAccounted
    <3> QED
      BY <2>0, <3>1, <3>3, <3>4, NoNRoundType DEF ReportInv, NotifyTypeOK
  <2>6. CASE RecordError
    <3>1. /\ UNCHANGED <<level, cycle, slots, settings, delivered, nfaults>>
          /\ nround.phase = "failed" /\ nround' = NoNRound
          /\ nstate' = [scheduled |-> PruneScheduled(nstate.scheduled),
                        base      |-> nround.base,
                        alerts    |-> nstate.alerts]
      BY <2>6 DEF RecordError, AlertsKept
    <3>2. /\ nstate' \in NState
          /\ \A s \in nstate.scheduled : s \in nstate'.scheduled \/ slots[s] = "past"
      BY <2>a, <3>1 DEF NState, NRound, PruneScheduled
    <3>3. ReportsAccounted'
      BY <2>0, <3>1, <3>2, NoNRoundType DEF ReportsAccounted
    <3> QED
      BY <2>0, <3>1, <3>2, <3>3, NoNRoundType DEF ReportInv, NotifyTypeOK
  <2>7. CASE NotifyCrash
    <3>1. /\ UNCHANGED <<level, cycle, slots, settings, nstate, delivered>>
          /\ nround' = NoNRound /\ nfaults' = nfaults + 1
      BY <2>7 DEF NotifyCrash
    <3>2. nround' \in NRound /\ nround'.phase = "idle" /\ nfaults' \in Nat
      BY <2>a, <3>1, NoNRoundType
    <3>3. ReportsAccounted'
      BY <2>0, <2>a, <3>1, <3>2 DEF ReportsAccounted
    <3> QED
      BY <2>0, <3>1, <3>2, <3>3 DEF ReportInv, NotifyTypeOK
  <2>8. CASE \/ UpdateNotificationSettings \/ UpdateNotificationWebhook
             \/ ClearNotificationWebhook \/ DisableAfterClear
             \/ CheckInterval \/ UNCHANGED notifyVars
    <3>1. /\ UNCHANGED <<level, cycle, slots, nstate, nround, delivered, nfaults>>
          /\ \/ settings' = settings
             \/ settings' = [settings EXCEPT !.on = ~@]
             \/ settings' = [settings EXCEPT !.alerts = ~@]
             \/ settings' = [settings EXCEPT !.on = FALSE]
      BY <2>8 DEF UpdateNotificationSettings, UpdateNotificationWebhook,
           ClearNotificationWebhook, DisableAfterClear, CheckInterval, notifyVars
    <3>2. settings' \in [on : BOOLEAN, alerts : BOOLEAN]
      BY <2>a, <3>1
    <3> QED
      BY <2>0, <3>1, <3>2 DEF ReportInv, NotifyTypeOK, ReportsAccounted
  <2>9. CASE QuotaChanges
    <3>1. UNCHANGED <<slots, settings, nstate, nround, delivered, nfaults>>
      BY <2>9 DEF QuotaChanges
    <3>2. level' \in [NAccount -> Level] /\ cycle' \in [NAccount -> Cycle]
      <4>1. PICK a \in NAccount :
              \/ /\ \E l \in Level \ {level[a]} : level' = [level EXCEPT ![a] = l]
                 /\ UNCHANGED cycle
              \/ /\ cycle[a].number < nscenario.cycles
                 /\ \E ended \in {cycle[a].number, cycle[a].ended} :
                       cycle' = [cycle EXCEPT ![a] = [number |-> @.number + 1, ended |-> ended]]
                 /\ level' = [level EXCEPT ![a] = "normal"]
        BY <2>9 DEF QuotaChanges
      <4>2. cycle[a].number \in Nat /\ cycle[a].ended \in Nat
        BY <2>a DEF Cycle
      <4> QED
        BY SMTT(30), <2>a, <4>1, <4>2 DEF Level, Cycle
    <3> QED
      BY <2>0, <3>1, <3>2 DEF ReportInv, NotifyTypeOK, ReportsAccounted
  <2>10. CASE SlotTime
    <3>1. UNCHANGED <<level, cycle, settings, nstate, nround, delivered, nfaults>>
      BY <2>10 DEF SlotTime
    <3>2. /\ slots' \in [Slot -> {"before", "open", "past"}]
          /\ \A s \in Slot : slots[s] = "past" => slots'[s] = "past"
      BY <2>a, <2>10 DEF SlotTime
    <3> QED
      BY <2>0, <3>1, <3>2 DEF ReportInv, NotifyTypeOK, ReportsAccounted
  <2> QED
    BY <2>1, <2>2, <2>3, <2>4, <2>5, <2>6, <2>7, <2>8, <2>9, <2>10 DEF NotifyNext, NotifyAct,
       NotifyStep
<1> QED
  BY <1>1, <1>2, PTL DEF NotifySpec

\* A slot is reported for once, and once more for every crash or failed send at
\* the most, whatever slots overlap, pass during a round or are pruned, and
\* whatever Admin changes meanwhile (RunOnce).
THEOREM SlotsReportedOnce == NotifySpec => []ReportedOnce
<1>1. ReportInv => ReportedOnce
  BY DEF ReportInv, ReportsAccounted, ReportedOnce
<1> QED
  BY <1>1, ReportsAreAccounted, PTL

-----------------------------------------------------------------------------
(* The collector: where a request can be. *)

CollectorStepName == {"down", "identities", "zone", "reset", "accounts", "drain", "ingest",
                      "quotas", "publish", "heartbeat"}
CollectorFields == {"at", "zone", "reset", "changed", "ok", "quota"}
RequestRow == [key : MKey, at : Nat, counts : BOOLEAN]

Holds(s, r) == \E i \in DOMAIN s : s[i] = r
FirstOf(s, n) == {s[i] : i \in 1..n}

\* Missing, in these terms.
Accounted(r) == r \in unmapped \/ Recorded(r) \/ r \in InBatch \/ Holds(queue, r)

\* A popped batch is there only until the next step of the collector, and
\* nothing of it is lost by the others.
LossInv ==
    /\ made \in Seq(RequestRow) /\ queue \in Seq(Nat) /\ batch \in Seq(Nat)
    /\ Len(batch) <= BatchSize
    /\ now \in Nat /\ issued \subseteq MKey /\ cuts \in Nat
    /\ DOMAIN collector = CollectorFields /\ collector.at \in CollectorStepName
    /\ collector.at # "ingest" => batch = <<>>
    /\ OneBatchPerCut

\* A request is missing that is to be counted and is nowhere.
LEMMA MissingIs == \A r : r \in Missing <=> r \in DOMAIN made /\ made[r].counts /\ ~Accounted(r)
BY DEF Missing, Accounted, Holds

\* Finitely many requests have been made.
LEMMA MissingFinite == ASSUME made \in Seq(RequestRow) PROVE IsFiniteSet(Missing)
<1>1. Len(made) \in Nat /\ DOMAIN made = 1..Len(made) /\ Missing \subseteq DOMAIN made
  BY DEF Missing
<1>2. IsFiniteSet(1..Len(made))
  BY <1>1, FS_Interval
<1> QED
  BY <1>1, <1>2, FS_Subset

\* The first n elements of a sequence are n at the most.
LEMMA FirstOfBound ==
  ASSUME NEW s \in Seq(Nat), NEW n \in Nat, n <= Len(s)
  PROVE  IsFiniteSet(FirstOf(s, n)) /\ Cardinality(FirstOf(s, n)) <= n
<1> DEFINE f == [i \in 1..n |-> s[i]]
<1>1. f \in Surjection(1..n, FirstOf(s, n))
  BY DEF Surjection, FirstOf
<1>2. IsFiniteSet(1..n) /\ Cardinality(1..n) = n
  BY FS_Interval
<1>3. IsFiniteSet(FirstOf(s, n)) /\ Cardinality(FirstOf(s, n)) <= Cardinality(1..n)
  BY <1>1, <1>2, FS_Surjection
<1> QED
  BY <1>2, <1>3

\* A set within two others is no larger than both.
LEMMA WithinBoth ==
  ASSUME NEW A, NEW X, NEW B, IsFiniteSet(A), IsFiniteSet(X), B \subseteq A \cup X
  PROVE  /\ Cardinality(A) \in Nat /\ Cardinality(X) \in Nat /\ Cardinality(B) \in Nat
         /\ Cardinality(B) <= Cardinality(A) + Cardinality(X)
<1>1. IsFiniteSet(A \cup X) /\ Cardinality(A \cup X) = Cardinality(A) + Cardinality(X) - Cardinality(A \cap X)
  BY FS_Union
<1>2. IsFiniteSet(B) /\ Cardinality(B) <= Cardinality(A \cup X)
  BY <1>1, FS_Subset
<1>3. IsFiniteSet(A \cap X)
  BY FS_Subset
<1>4. Cardinality(A) \in Nat /\ Cardinality(X) \in Nat /\ Cardinality(B) \in Nat
      /\ Cardinality(A \cap X) \in Nat /\ Cardinality(A \cup X) \in Nat
  BY <1>1, <1>2, <1>3, FS_CardinalityType
<1> QED
  BY <1>1, <1>2, <1>4

\* A step that loses nothing keeps the bound.
LEMMA NothingLost ==
  ASSUME made \in Seq(RequestRow), cuts \in Nat, OneBatchPerCut, Missing' \subseteq Missing,
         cuts' = cuts
  PROVE  OneBatchPerCut'
<1>1. IsFiniteSet(Missing)
  BY MissingFinite
<1>2. Cardinality(Missing') <= Cardinality(Missing) /\ IsFiniteSet(Missing')
  BY <1>1, FS_Subset
<1>3. Cardinality(Missing) \in Nat /\ Cardinality(Missing') \in Nat
  BY <1>1, <1>2, FS_CardinalityType
<1>4. Cardinality(Missing) <= BatchSize * cuts
  BY DEF OneBatchPerCut
<1>5. BatchSize * cuts \in Nat
  BY MeteringAssumption
<1>6. Cardinality(Missing') <= BatchSize * cuts
  BY <1>2, <1>3, <1>4, <1>5
<1> QED
  BY <1>6 DEF OneBatchPerCut

\* A step that loses a batch.
LEMMA BatchLost ==
  ASSUME made \in Seq(RequestRow), cuts \in Nat, OneBatchPerCut, cuts' = cuts + 1,
         NEW X, IsFiniteSet(X), Cardinality(X) <= BatchSize, Missing' \subseteq Missing \cup X
  PROVE  OneBatchPerCut'
<1>1. IsFiniteSet(Missing)
  BY MissingFinite
<1>2. /\ Cardinality(Missing) \in Nat /\ Cardinality(X) \in Nat /\ Cardinality(Missing') \in Nat
      /\ Cardinality(Missing') <= Cardinality(Missing) + Cardinality(X)
  BY <1>1, WithinBoth
<1>3. Cardinality(Missing) <= BatchSize * cuts
  BY DEF OneBatchPerCut
<1>4. BatchSize \in Nat /\ BatchSize * (cuts + 1) = BatchSize * cuts + BatchSize /\ BatchSize * cuts \in Nat
  BY MeteringAssumption
<1>5. Cardinality(Missing') <= BatchSize * (cuts + 1)
  BY <1>2, <1>3, <1>4
<1> QED
  BY <1>5 DEF OneBatchPerCut

\* A request that is queued is in the queue, with those that were.
LEMMA Queued ==
  ASSUME NEW STATE q, queue \in Seq(Nat), q \in Nat, queue' = Append(queue, q)
  PROVE  /\ queue' \in Seq(Nat)
         /\ \A r : Holds(queue, r) => Holds(queue', r)
         /\ Holds(queue', q)
<1>1. /\ queue' \in Seq(Nat) /\ Len(queue') = Len(queue) + 1 /\ Len(queue) \in Nat
      /\ DOMAIN queue = 1..Len(queue) /\ DOMAIN queue' = 1..Len(queue')
      /\ \A i \in 1..Len(queue) : queue'[i] = queue[i]
      /\ queue'[Len(queue) + 1] = q
  OBVIOUS
<1>2. \A r : Holds(queue, r) => Holds(queue', r)
  BY <1>1 DEF Holds
<1>3. Len(queue) + 1 \in DOMAIN queue'
  BY <1>1
<1>4. Holds(queue', q)
  BY <1>1, <1>3 DEF Holds
<1> QED
  BY <1>1, <1>2, <1>4

\* The first n elements of a queue and the others are queues.
LEMMA PartsOfQueue ==
  ASSUME NEW q \in Seq(Nat), NEW n \in Nat, n <= Len(q)
  PROVE  /\ SubSeq(q, 1, n) \in Seq(Nat) /\ Len(SubSeq(q, 1, n)) = n
         /\ SubSeq(q, n + 1, Len(q)) \in Seq(Nat)
<1>1. Len(q) \in Nat /\ \A i \in 1..Len(q) : q[i] \in Nat
  OBVIOUS
<1>2. (\A i \in 1..n : q[i] \in Nat) /\ \A i \in (n + 1)..Len(q) : q[i] \in Nat
  BY <1>1
<1>3. SubSeq(q, 1, n) \in Seq(Nat) /\ Len(SubSeq(q, 1, n)) = IF 1 <= n THEN n - 1 + 1 ELSE 0
  <2>1. 1 \in Int /\ n \in Int
    OBVIOUS
  <2> QED
    BY <1>2, <2>1, SubSeqProperties
<1>4. SubSeq(q, n + 1, Len(q)) \in Seq(Nat)
  <2>1. n + 1 \in Int /\ Len(q) \in Int
    BY <1>1
  <2> QED
    BY <1>2, <2>1, SubSeqProperties
<1> QED
  BY <1>3, <1>4

\* Popping splits the queue in two.
LEMMA Popped ==
  ASSUME NEW n \in Nat, n <= Len(queue), queue \in Seq(Nat),
         batch' = SubSeq(queue, 1, n), queue' = SubSeq(queue, n + 1, Len(queue)),
         NEW r, Holds(queue, r)
  PROVE  Holds(queue', r) \/ r \in InBatch'
<1>1. PICK i \in 1..Len(queue) : queue[i] = r
  BY DEF Holds
<1>2. /\ Len(queue) \in Nat /\ DOMAIN batch' = 1..n
      /\ \A j \in 1..n : batch'[j] = queue[j]
  OBVIOUS
<1>3. /\ DOMAIN queue' = 1..(Len(queue) - n)
      /\ \A j \in 1..(Len(queue) - n) : queue'[j] = queue[n + j]
  OBVIOUS
<1>4. CASE i <= n
  <2>1. i \in DOMAIN batch' /\ batch'[i] = r
    BY <1>1, <1>2, <1>4
  <2> QED
    BY <2>1 DEF InBatch
<1>5. CASE i > n
  <2>1. i - n \in DOMAIN queue' /\ n + (i - n) = i
    BY <1>1, <1>2, <1>3, <1>5
  <2>2. queue'[i - n] = r
    BY <1>1, <1>3, <2>1
  <2> QED
    BY <2>1, <2>2 DEF Holds
<1> QED
  BY <1>1, <1>2, <1>4, <1>5

\* A step that takes no request away.
LEMMA NothingTaken ==
  ASSUME LossInv, made' = made, queue' = queue, now' \in Nat, issued' \subseteq MKey,
         cuts' = cuts, batch' = batch, events' = events, unmapped' = unmapped,
         DOMAIN collector' = CollectorFields, collector'.at \in CollectorStepName,
         collector'.at # "ingest" => batch = <<>>
  PROVE  LossInv'
<1>1. Missing' = Missing
  BY DEF Missing, InBatch, Recorded
<1>2. OneBatchPerCut'
  BY <1>1 DEF LossInv, OneBatchPerCut
<1> QED
  BY <1>2 DEF LossInv

\* Admin's changes leave the requests, the events and the collector alone.
LEMMA AdminLeaves ==
  ASSUME AdminChange
  PROVE  UNCHANGED <<now, made, issued, queue, batch, identities, events, weekly, zone,
                     adjustments, collector, quotaFile, unmapped, cuts, meterFaults>>
<1> USE DEF demand, meterStore, meterFiles, observers
<1>1. CASE \E mode \in {"custom", "unlimited"} : SetQuotaPolicy(mode)
  BY <1>1 DEF SetQuotaPolicy
<1>2. CASE ClearQuotaPolicy
  BY <1>2 DEF ClearQuotaPolicy
<1>3. CASE AddBonus \/ ResetUsage
  BY <1>3 DEF AddBonus, ResetUsage
<1>4. CASE SwitchAccount
  BY <1>4 DEF SwitchAccount
<1>5. CASE \E z \in Zone : SaveTimezone(z)
  BY <1>5 DEF SaveTimezone
<1> QED
  BY <1>1, <1>2, <1>3, <1>4, <1>5 DEF AdminChange

\* The inductive invariant behind OneBatchPerCut.
THEOREM QueueAccounted == MeterSpec => []LossInv
<1> USE MeteringAssumption
<1>1. MeterInit => LossInv
  <2> SUFFICES ASSUME MeterInit PROVE LossInv
    OBVIOUS
  <2>1. made = <<>> /\ queue = <<>> /\ batch = <<>> /\ collector = Down /\ cuts = 0
    BY DEF MeterInit
  <2>2. issued \subseteq MKey
    <3>1. (CHOOSE k \in MKey : TRUE) \in MKey
      OBVIOUS
    <3> QED
      BY <3>1 DEF MeterInit
  <2>3. OneBatchPerCut
    <3>1. Missing = {}
      BY <2>1 DEF Missing
    <3>2. Cardinality(Missing) = 0
      BY <3>1, FS_EmptySet
    <3>3. BatchSize * cuts = 0
      BY <2>1
    <3> QED
      BY <3>2, <3>3 DEF OneBatchPerCut
  <2>4. Len(batch) <= BatchSize /\ batch \in Seq(Nat) /\ queue \in Seq(Nat) /\ made \in Seq(RequestRow)
    BY <2>1
  <2>5. DOMAIN collector = CollectorFields /\ collector.at = "down"
    BY <2>1 DEF Down, CollectorFields
  <2> QED
    BY <2>1, <2>2, <2>3, <2>4, <2>5 DEF MeterInit, LossInv, CollectorStepName
<1>2. LossInv /\ [MeterNext]_meterVars => LossInv'
  <2> SUFFICES ASSUME LossInv, [MeterNext]_meterVars PROVE LossInv'
    OBVIOUS
  <2> USE DEF demand, meterStore, meterFiles, observers
  <2>0. /\ made \in Seq(RequestRow) /\ queue \in Seq(Nat) /\ batch \in Seq(Nat)
        /\ Len(batch) <= BatchSize
        /\ now \in Nat /\ issued \subseteq MKey /\ cuts \in Nat
        /\ DOMAIN collector = CollectorFields /\ collector.at \in CollectorStepName
        /\ collector.at # "ingest" => batch = <<>>
        /\ OneBatchPerCut
    BY DEF LossInv
  <2>1. ASSUME NEW k \in MKey, NEW counts \in BOOLEAN, Request(k, counts)
        PROVE  LossInv'
    <3>1. /\ UNCHANGED <<now, issued, batch, events, collector, unmapped, cuts>>
          /\ made' = Append(made, [key |-> k, at |-> now, counts |-> counts])
          /\ queue' = Append(queue, Len(made) + 1)
      BY <2>1 DEF Request
    <3>2. /\ made' \in Seq(RequestRow) /\ Len(made) \in Nat /\ DOMAIN made = 1..Len(made)
          /\ DOMAIN made' = 1..(Len(made) + 1) /\ \A r \in 1..Len(made) : made'[r] = made[r]
      <4> DEFINE row == [key |-> k, at |-> now, counts |-> counts]
      <4>1. row \in RequestRow
        BY <2>0 DEF RequestRow
      <4>2. made' = Append(made, row)
        BY <3>1
      <4> HIDE DEF row
      <4> QED
        BY SMTT(30), <2>0, <4>1, <4>2
    <3>3. queue' \in Seq(Nat) /\ Holds(queue', Len(made) + 1) /\ \A r : Holds(queue, r) => Holds(queue', r)
      <4>1. Len(made) + 1 \in Nat
        BY <3>2
      <4> QED
        BY <2>0, <3>1, <4>1, Queued
    <3>4. Missing' \subseteq Missing
      <4> SUFFICES ASSUME NEW r \in Missing' PROVE r \in Missing
        OBVIOUS
      <4>1. r \in DOMAIN made' /\ made'[r].counts /\ ~Accounted(r)'
        BY DEF Missing, Accounted, Holds
      <4>2. ~Accounted(r)' => r # Len(made) + 1 /\ ~Accounted(r)
        BY <3>1, <3>3 DEF Accounted, InBatch, Recorded, Holds
      <4>3. r \in DOMAIN made /\ made[r].counts
        BY <3>2, <4>1, <4>2
      <4> QED
        BY <4>1, <4>2, <4>3, MissingIs
    <3>5. OneBatchPerCut'
      BY <2>0, <3>1, <3>4, NothingLost
    <3> QED
      BY <2>0, <3>1, <3>2, <3>3, <3>5 DEF LossInv
  <2>2. CASE Redeliver
    <3>1. PICK r \in DOMAIN made : /\ queue' = Append(queue, r)
                                   /\ UNCHANGED <<now, made, issued, batch, collector, events, unmapped, cuts>>
      BY <2>2 DEF Redeliver
    <3>2. r \in Nat
      BY <2>0
    <3>3. queue' \in Seq(Nat) /\ \A q : Holds(queue, q) => Holds(queue', q)
      BY <2>0, <3>1, <3>2, Queued
    <3>4. Missing' \subseteq Missing
      BY <3>1, <3>3 DEF Missing, Holds, InBatch, Recorded
    <3>5. OneBatchPerCut'
      BY <2>0, <3>1, <3>4, NothingLost
    <3> QED
      BY <2>0, <3>1, <3>3, <3>5 DEF LossInv
  <2>3. CASE \/ \E k \in MKey : IssueKey(k)
             \/ MeterTick \/ AdminChange \/ UNCHANGED meterVars
    <3>1. /\ UNCHANGED <<made, queue, batch, events, collector, unmapped, cuts>>
          /\ now' \in Nat /\ issued' \subseteq MKey
      <4>1. CASE \E k \in MKey : IssueKey(k)
        BY <2>0, <4>1 DEF IssueKey
      <4>2. CASE MeterTick \/ UNCHANGED meterVars
        BY <2>0, <4>2 DEF MeterTick, meterVars
      <4>3. CASE AdminChange
        <5>1. UNCHANGED <<now, issued, made, queue, batch, events, collector, unmapped, cuts>>
          BY <4>3, AdminLeaves
        <5> QED
          BY <2>0, <5>1
      <4> QED
        BY <2>3, <4>1, <4>2, <4>3
    <3> QED
      BY <2>0, <3>1, NothingTaken
  <2>4. CASE \/ StartCollector \/ SyncIdentities \/ EnsureWeekTimezone
             \/ ConfigurePersonalQuotaReset \/ ReadAccounts \/ WeeklyQuotas
             \/ PublishQuotaSnapshot \/ PublishQuotaHeartbeat
    <3>1. UNCHANGED <<made, queue, now, issued, batch, events, unmapped, cuts>>
      BY <2>4 DEF StartCollector, SyncIdentities, EnsureWeekTimezone,
           ConfigurePersonalQuotaReset, ReadAccounts, WeeklyQuotas, PublishQuotaSnapshot,
           PublishQuotaHeartbeat
    <3>2. /\ collector.at # "ingest" /\ DOMAIN collector' = CollectorFields
          /\ collector'.at \in CollectorStepName
      <4> USE DEF CollectorFields, CollectorStepName, On, Goto
      <4>1. CASE StartCollector
        BY <4>1 DEF StartCollector, Down
      <4>2. CASE SyncIdentities \/ EnsureWeekTimezone
        BY <2>0, <4>2 DEF SyncIdentities, EnsureWeekTimezone
      <4>3. CASE ConfigurePersonalQuotaReset \/ ReadAccounts \/ WeeklyQuotas
        BY <2>0, <4>3 DEF ConfigurePersonalQuotaReset, ReadAccounts, WeeklyQuotas
      <4>4. CASE PublishQuotaSnapshot \/ PublishQuotaHeartbeat
        BY <2>0, <4>4 DEF PublishQuotaSnapshot, PublishQuotaHeartbeat
      <4> QED
        BY <2>4, <4>1, <4>2, <4>3, <4>4
    <3> QED
      BY <2>0, <3>1, <3>2, NothingTaken
  <2>5. CASE PopBatch
    <3>1. /\ UNCHANGED <<now, made, issued, events, unmapped, cuts>>
          /\ collector.at = "drain"
          /\ batch' = SubSeq(queue, 1, Taken) /\ queue' = SubSeq(queue, Taken + 1, Len(queue))
          /\ collector' = [collector EXCEPT !.at = IF Taken = 0 THEN "quotas" ELSE "ingest"]
      BY <2>5 DEF PopBatch, On, Goto, Left
    <3>2. Taken \in Nat /\ Taken <= Len(queue) /\ Taken <= BatchSize
      BY <2>0 DEF Taken
    <3>3. batch' \in Seq(Nat) /\ queue' \in Seq(Nat) /\ (Taken = 0 => batch' = <<>>)
          /\ Len(batch') = Taken
      <4>1. batch' \in Seq(Nat) /\ Len(batch') = Taken /\ queue' \in Seq(Nat)
        BY <2>0, <3>1, <3>2, PartsOfQueue
      <4>3. Taken = 0 => batch' = <<>>
        BY <4>1, EmptySeq
      <4> QED
        BY <4>1, <4>3
    <3>4. /\ DOMAIN collector' = CollectorFields
          /\ collector'.at = IF Taken = 0 THEN "quotas" ELSE "ingest"
      BY <2>0, <3>1 DEF CollectorFields
    <3>5. \A r : Holds(queue, r) => Holds(queue', r) \/ r \in InBatch'
      BY <2>0, <3>1, <3>2, Popped
    <3>6. InBatch = {}
      BY <2>0, <3>1 DEF InBatch
    <3>7. Missing' \subseteq Missing
      BY <3>1, <3>5, <3>6 DEF Missing, Holds, Recorded
    <3>8. OneBatchPerCut'
      BY <2>0, <3>1, <3>7, NothingLost
    <3> QED
      BY <2>0, <3>1, <3>2, <3>3, <3>4, <3>8 DEF LossInv, CollectorStepName
  <2>6. CASE IngestEvents
    <3> DEFINE new == {Row(r) : r \in {q \in Mapped : ~Recorded(q)}}
    <3>1. /\ UNCHANGED <<now, made, issued, queue, cuts>>
          /\ events' = events \cup new /\ unmapped' = unmapped \cup (Valued \ Mapped)
          /\ batch' = <<>>
          /\ collector' = [collector EXCEPT !.at = IF Len(batch) < BatchSize THEN "quotas"
                                                   ELSE "drain"]
      BY <2>6 DEF IngestEvents, AfterBatch, Goto
    <3>2. \A r : Recorded(r) => Recorded(r)'
      BY <3>1 DEF Recorded
    <3>3. \A r \in Valued : Recorded(r)' \/ r \in unmapped'
      <4> SUFFICES ASSUME NEW r \in Valued, r \in Mapped, ~Recorded(r)
                   PROVE  Recorded(r)'
        BY <3>1, <3>2
      <4>1. Row(r) \in events'
        BY <3>1
      <4>2. Row(r).request = r
        BY DEF Row
      <4> QED
        BY <4>1, <4>2 DEF Recorded
    <3>4. Missing' \subseteq Missing
      <4> SUFFICES ASSUME NEW r \in Missing' PROVE r \in Missing
        OBVIOUS
      <4>1. /\ r \in DOMAIN made /\ made[r].counts /\ r \notin unmapped' /\ ~Recorded(r)'
            /\ \A i \in DOMAIN queue : queue[i] # r
        BY <3>1 DEF Missing, Recorded
      <4>2. r \notin InBatch
        BY <3>3, <4>1 DEF Valued
      <4> QED
        BY <3>1, <3>2, <4>1, <4>2 DEF Missing
    <3>5. OneBatchPerCut'
      BY <2>0, <3>1, <3>4, NothingLost
    <3>6. DOMAIN collector' = CollectorFields /\ collector'.at \in CollectorStepName
      BY <2>0, <3>1 DEF CollectorFields, CollectorStepName
    <3>7. Len(batch') <= BatchSize /\ batch' \in Seq(Nat)
      BY <3>1
    <3> QED
      BY <2>0, <3>1, <3>5, <3>6, <3>7 DEF LossInv
  <2>7. CASE RoundStepFails \/ StopCollector
    <3>1. /\ UNCHANGED <<now, made, issued, events, unmapped>> /\ batch' = <<>>
          /\ queue' \in IF collector.at = "drain" THEN {queue, Left} ELSE {queue}
          /\ cuts' = IF collector.at \in {"drain", "ingest"} THEN cuts + 1 ELSE cuts
      BY <2>7 DEF RoundStepFails, StopCollector, Cut, On
    <3>2. DOMAIN collector' = CollectorFields /\ collector'.at \in CollectorStepName
      <4>1. CASE RoundStepFails
        BY <2>0, <4>1 DEF RoundStepFails, CollectorFields, CollectorStepName
      <4>2. CASE StopCollector
        BY <4>2 DEF StopCollector, Down, CollectorFields, CollectorStepName
      <4> QED
        BY <2>7, <4>1, <4>2
    <3>3. cuts' \in Nat /\ batch' \in Seq(Nat) /\ Len(batch') <= BatchSize
      BY <2>0, <3>1
    <3>4. Taken \in Nat /\ Taken <= Len(queue) /\ Taken <= BatchSize /\ Left = SubSeq(queue, Taken + 1, Len(queue))
      BY <2>0 DEF Taken, Left
    <3>5. queue' \in Seq(Nat)
      <4>1. Left \in Seq(Nat)
        BY <2>0, <3>4, PartsOfQueue
      <4>2. queue' = queue \/ queue' = Left
        BY <3>1
      <4> QED
        BY <2>0, <4>1, <4>2
    <3>6. OneBatchPerCut'
      <4>1. CASE collector.at = "ingest"
        <5>1. InBatch = FirstOf(batch, Len(batch)) /\ Len(batch) \in Nat
          BY <2>0 DEF InBatch, FirstOf
        <5>2. IsFiniteSet(InBatch) /\ Cardinality(InBatch) <= Len(batch)
          BY <2>0, <5>1, FirstOfBound
        <5>3. Cardinality(InBatch) \in Nat
          BY <5>2, FS_CardinalityType
        <5>4. Cardinality(InBatch) <= BatchSize
          BY <2>0, <5>1, <5>2, <5>3
        <5>5. Missing' \subseteq Missing \cup InBatch
          BY <3>1, <4>1 DEF Missing, Recorded
        <5>6. cuts' = cuts + 1
          BY <3>1, <4>1
        <5> QED
          BY <2>0, <5>2, <5>4, <5>5, <5>6, BatchLost
      <4>2. CASE collector.at = "drain"
        <5>1. IsFiniteSet(FirstOf(queue, Taken)) /\ Cardinality(FirstOf(queue, Taken)) <= Taken
          BY <2>0, <3>4, FirstOfBound
        <5>2. Cardinality(FirstOf(queue, Taken)) \in Nat
          BY <5>1, FS_CardinalityType
        <5>3. Cardinality(FirstOf(queue, Taken)) <= BatchSize
          BY <3>4, <5>1, <5>2
        <5>4. \A r : Holds(queue, r) => Holds(queue', r) \/ r \in FirstOf(queue, Taken)
          <6>1. CASE queue' = queue
            BY <6>1
          <6>2. CASE queue' = Left
            <7>1. /\ Len(queue) \in Nat /\ DOMAIN queue = 1..Len(queue)
                  /\ DOMAIN queue' = 1..(Len(queue) - Taken)
                  /\ \A j \in 1..(Len(queue) - Taken) : queue'[j] = queue[Taken + j]
              BY <2>0, <3>4, <6>2
            <7> SUFFICES ASSUME NEW r, NEW i \in DOMAIN queue, queue[i] = r, i > Taken
                         PROVE  Holds(queue', r)
              BY <3>4, <7>1 DEF Holds, FirstOf
            <7>2. i - Taken \in DOMAIN queue' /\ Taken + (i - Taken) = i
              BY <3>4, <7>1
            <7>3. queue'[i - Taken] = r
              BY <7>1, <7>2
            <7> QED
              BY <7>2, <7>3 DEF Holds
          <6> QED
            BY <3>1, <4>2, <6>1, <6>2
        <5>5. InBatch = {}
          BY <2>0, <4>2 DEF InBatch
        <5>6. Missing' \subseteq Missing \cup FirstOf(queue, Taken)
          BY <3>1, <5>4, <5>5 DEF Missing, Recorded, Holds
        <5>7. cuts' = cuts + 1
          BY <3>1, <4>2
        <5> QED
          BY <2>0, <5>1, <5>3, <5>6, <5>7, BatchLost
      <4>3. CASE collector.at \notin {"drain", "ingest"}
        <5>1. batch' = batch /\ queue' = queue /\ cuts' = cuts
          BY <2>0, <3>1, <4>3
        <5>2. Missing' \subseteq Missing
          BY <3>1, <5>1 DEF Missing, Recorded, InBatch
        <5> QED
          BY <2>0, <5>1, <5>2, NothingLost
      <4> QED
        BY <4>1, <4>2, <4>3
    <3> QED
      BY <2>0, <3>1, <3>2, <3>3, <3>5, <3>6 DEF LossInv
  <2> QED
    BY <2>1, <2>2, <2>3, <2>4, <2>5, <2>6, <2>7 DEF MeterNext, MeterStep, CollectorStep
<1> QED
  BY <1>1, <1>2, PTL DEF MeterSpec

\* A round cut between an LPOP and its commit costs one batch at the most and
\* nothing else loses a request that is to be counted, whatever else its batch
\* holds, however often requests are redelivered and whenever the collector
\* fails, crashes or is restarted (DrainAccount, IngestEvents,
\* RestartConfigurationTarget).
THEOREM RequestsAccounted == MeterSpec => []OneBatchPerCut
<1>1. LossInv => OneBatchPerCut
  BY DEF LossInv
<1> QED
  BY <1>1, QueueAccounted, PTL

-----------------------------------------------------------------------------
(* The collector: personal quotas and the week they end with. *)

\* The quotient and its bounds.
LEMMA DivFacts ==
  ASSUME NEW x \in Nat, NEW w \in Nat, w > 0
  PROVE  x \div w \in Nat /\ (x \div w) * w <= x /\ x < (x \div w) * w + w
OBVIOUS

\* A multiple below the next one of b * w is at most b * w.
LEMMA SmallerFactor ==
  ASSUME NEW a \in Int, NEW b \in Int, NEW w \in Nat, w > 0, a * w < b * w + w
  PROVE  a <= b
<1>1. b * w + w = (b + 1) * w
  OBVIOUS
<1>2. a < b + 1
  BY <1>1
<1> QED
  BY <1>2

\* A moment before the end of the week of an earlier one is in that week.
LEMMA SameWeek ==
  ASSUME NEW s \in Nat, NEW t \in Nat, NEW z \in Nat, s <= t, t < WeekEnd(s, z)
  PROVE  WeekEnd(t, z) = WeekEnd(s, z)
<1> DEFINE a == (s + z) \div WeekLength
<1> DEFINE b == (t + z) \div WeekLength
<1>0. WeekLength \in Nat /\ WeekLength > 0
  BY MeteringAssumption
<1>1. a \in Nat /\ a * WeekLength <= s + z /\ s + z < a * WeekLength + WeekLength
  BY <1>0, DivFacts
<1>2. b \in Nat /\ b * WeekLength <= t + z /\ t + z < b * WeekLength + WeekLength
  BY <1>0, DivFacts
<1>3. WeekEnd(s, z) = a * WeekLength - z + WeekLength /\ WeekEnd(t, z) = b * WeekLength - z + WeekLength
  BY DEF WeekEnd, WeekStart
<1> HIDE DEF a, b
<1>4. a * WeekLength \in Int /\ b * WeekLength \in Int
  BY <1>0, <1>1, <1>2
<1>5. b * WeekLength < a * WeekLength + WeekLength
  BY <1>0, <1>2, <1>3, <1>4
<1>6. a * WeekLength < b * WeekLength + WeekLength
  BY <1>0, <1>1, <1>2, <1>4
<1>7. b <= a /\ a <= b
  BY <1>0, <1>1, <1>2, <1>5, <1>6, SmallerFactor
<1> QED
  BY <1>1, <1>2, <1>3, <1>7

Policy == [mode : {"inherit", "custom", "unlimited"}, scheduled : BOOLEAN, resetAt : Int]

\* The zone has been changed and the policies not yet.
Changing == collector.at = "reset" /\ collector.changed = TRUE

\* A personal quota ends with a week that had begun: of the stored zone, unless
\* a change of the zone has not reached it.
EndsWithWeek(p) ==
    p.mode # "inherit" =>
        /\ p.scheduled = TRUE
        /\ \E t \in Nat, y \in Zone :
              t <= now /\ p.resetAt = WeekEnd(t, y) /\ (y = zone \/ Changing \/ torn = TRUE)

Up == collector.at # "down"

PolicyInv ==
    /\ now \in Nat /\ zone \in Zone /\ policy \in Policy /\ torn \in BOOLEAN
    /\ DOMAIN setting = {"zone", "reset", "enabled", "restart"}
    /\ setting.zone \in Zone /\ setting.reset \in BOOLEAN
    /\ DOMAIN collector = CollectorFields /\ collector.at \in CollectorStepName
    /\ collector.changed \in BOOLEAN
    /\ Up => collector.zone \in Zone /\ collector.reset = setting.reset
    /\ setting.reset = TRUE => EndsWithWeek(policy)

\* No personal quota is in force.
LEMMA InheritType == Inherit \in Policy /\ Inherit.mode = "inherit"
BY DEF Inherit, Policy

\* A row that has not expired is as it was.
LEMMA ValidPolicy ==
  ASSUME policy \in Policy
  PROVE  Valid \in Policy /\ (Valid.mode # "inherit" => Valid = policy /\ ~Expired(policy))
BY InheritType DEF Valid

\* The end of a week is a time, a week after it began at the latest.
LEMMA WeekEndInt ==
  \A t \in Nat, z \in Zone : WeekEnd(t, z) \in Int /\ WeekEnd(t, z) <= t + WeekLength
<1> SUFFICES ASSUME NEW t \in Nat, NEW z \in Zone
             PROVE  WeekEnd(t, z) \in Int /\ WeekEnd(t, z) <= t + WeekLength
  OBVIOUS
<1>1. t + z \in Nat /\ z \in Nat /\ WeekLength \in Nat /\ WeekLength > 0
  BY MeteringAssumption
<1> DEFINE a == (t + z) \div WeekLength
<1>2. a \in Nat /\ a * WeekLength <= t + z
  BY <1>1, DivFacts
<1>3. WeekEnd(t, z) = a * WeekLength - z + WeekLength
  BY DEF WeekEnd, WeekStart
<1> HIDE DEF a
<1>4. a * WeekLength \in Int
  BY <1>1, <1>2
<1> QED
  BY <1>1, <1>2, <1>3, <1>4

\* A row that is written now, in the stored zone.
EndsNow(p) == p.scheduled = TRUE /\ p.resetAt = WeekEnd(now, zone)

\* It ends with a week.
LEMMA EndNow ==
  ASSUME now \in Nat, zone \in Zone, EndsNow(policy)', now' = now, zone' = zone
  PROVE  EndsWithWeek(policy)'
<1>1. policy'.scheduled = TRUE /\ policy'.resetAt = WeekEnd(now', zone')
  BY DEF EndsNow, WeekEnd, WeekStart
<1>2. now' \in Nat /\ now' <= now' /\ zone' \in Zone
  OBVIOUS
<1> QED
  BY <1>1, <1>2 DEF EndsWithWeek, WeekEnd, WeekStart

\* Steps that leave the policy alone, time passing or not, and end no change of
\* the zone without a trace.
LEMMA PolicyStays ==
  ASSUME PolicyInv, policy' = policy, now' \in Nat, now <= now',
         zone' = zone \/ Changing', Changing \/ torn = TRUE => Changing' \/ torn' = TRUE
  PROVE  EndsWithWeek(policy) => EndsWithWeek(policy)'
<1> SUFFICES ASSUME EndsWithWeek(policy), policy.mode # "inherit"
             PROVE  policy.scheduled = TRUE
                    /\ \E t \in Nat, y \in Zone :
                          t <= now' /\ policy.resetAt = WeekEnd(t, y)
                          /\ (y = zone' \/ Changing' \/ torn' = TRUE)
  BY DEF EndsWithWeek, WeekEnd, WeekStart
<1>1. PICK t \in Nat, y \in Zone :
         t <= now /\ policy.resetAt = WeekEnd(t, y) /\ (y = zone \/ Changing \/ torn = TRUE)
  BY DEF EndsWithWeek
<1>2. t <= now'
  BY <1>1 DEF PolicyInv
<1>3. y = zone' \/ Changing' \/ torn' = TRUE
  BY <1>1
<1> QED
  BY <1>1, <1>2, <1>3 DEF EndsWithWeek

\* Nothing the policy depends on changes.
LEMMA PolicyElsewhere ==
  ASSUME PolicyInv, policy' = policy, zone' = zone, torn' = torn, now' \in Nat, now <= now',
         collector' = collector, DOMAIN setting' = {"zone", "reset", "enabled", "restart"},
         setting'.zone \in Zone, setting'.reset = setting.reset
  PROVE  PolicyInv'
<1>1. Changing' <=> Changing
  BY DEF Changing
<1>2. EndsWithWeek(policy) => EndsWithWeek(policy)'
  BY <1>1, PolicyStays
<1> QED
  BY <1>2 DEF PolicyInv, Up

\* A step of the collector that leaves the policy and the zone alone.
LEMMA PolicyRound ==
  ASSUME PolicyInv, policy' = policy, zone' = zone, now' = now, torn' = torn,
         setting' = setting, DOMAIN collector' = CollectorFields,
         collector'.at \in CollectorStepName \ {"down", "reset"},
         collector'.changed = collector.changed, collector'.reset = collector.reset,
         collector'.zone = collector.zone, collector.at \notin {"down", "reset"}
  PROVE  PolicyInv'
<1>1. now' \in Nat /\ now <= now' /\ ~Changing
  BY DEF PolicyInv, Changing
<1>2. EndsWithWeek(policy) => EndsWithWeek(policy)'
  BY <1>1, PolicyStays
<1>3. Up /\ Up'
  BY DEF Up
<1> QED
  BY <1>2, <1>3 DEF PolicyInv

\* The inductive invariant behind PolicyEndsWithWeek.
THEOREM PoliciesScheduled == MeterSpec => []PolicyInv
<1> USE MeteringAssumption
<1>1. MeterInit => PolicyInv
  <2> SUFFICES ASSUME MeterInit PROVE PolicyInv
    OBVIOUS
  <2>1. Min(Zone) \in Zone
    <3>1. \E m \in Zone : \A y \in Zone : m <= y
      BY LeastOf
    <3> QED
      BY <3>1 DEF Min
  <2>2. /\ now = 0 /\ policy = Inherit /\ collector = Down /\ torn = FALSE
        /\ zone = Min(Zone) /\ scenario \in Scenario
        /\ setting = [zone |-> zone, reset |-> scenario.reset, enabled |-> TRUE, restart |-> FALSE]
    BY DEF MeterInit
  <2>3. scenario.reset \in BOOLEAN
    BY <2>2
  <2>4. DOMAIN collector = CollectorFields /\ collector.at = "down" /\ collector.changed = FALSE
    BY <2>2 DEF Down, CollectorFields
  <2>5. EndsWithWeek(policy)
    BY <2>2, InheritType DEF EndsWithWeek
  <2> QED
    BY <2>1, <2>2, <2>3, <2>4, <2>5, InheritType DEF PolicyInv, Up, CollectorStepName
<1>2. PolicyInv /\ [MeterNext]_meterVars => PolicyInv'
  <2> SUFFICES ASSUME PolicyInv, [MeterNext]_meterVars PROVE PolicyInv'
    OBVIOUS
  <2> USE DEF demand, meterStore, meterFiles, observers
  <2>0. /\ now \in Nat /\ zone \in Zone /\ policy \in Policy /\ torn \in BOOLEAN
        /\ DOMAIN setting = {"zone", "reset", "enabled", "restart"} /\ setting.zone \in Zone
        /\ setting.reset \in BOOLEAN
        /\ DOMAIN collector = CollectorFields /\ collector.at \in CollectorStepName
        /\ collector.changed \in BOOLEAN
        /\ Up => collector.zone \in Zone /\ collector.reset = setting.reset
        /\ setting.reset = TRUE => EndsWithWeek(policy)
        /\ now <= now
    BY DEF PolicyInv
  <2>1. CASE \/ \E k \in MKey : (\E counts \in BOOLEAN : Request(k, counts)) \/ IssueKey(k)
             \/ Redeliver \/ MeterTick \/ AddBonus \/ ResetUsage \/ UNCHANGED meterVars
    <3>1. UNCHANGED <<policy, zone, torn, setting, collector>> /\ now' \in Nat /\ now <= now'
      <4>1. CASE \E k \in MKey : (\E counts \in BOOLEAN : Request(k, counts)) \/ IssueKey(k)
        BY <2>0, <4>1 DEF Request, IssueKey
      <4>2. CASE Redeliver \/ MeterTick
        BY <2>0, <4>2 DEF Redeliver, MeterTick
      <4>3. CASE AddBonus \/ ResetUsage \/ UNCHANGED meterVars
        BY <2>0, <4>3 DEF AddBonus, ResetUsage, meterVars
      <4> QED
        BY <2>1, <4>1, <4>2, <4>3
    <3> QED
      BY <2>0, <3>1, PolicyElsewhere
  <2>3. ASSUME NEW mode \in {"custom", "unlimited"}, SetQuotaPolicy(mode)
        PROVE  PolicyInv'
    <3>1. /\ UNCHANGED <<now, zone, setting, collector>> /\ torn' = FALSE
          /\ policy' = [mode |-> mode, scheduled |-> setting.reset,
                        resetAt |-> IF setting.reset THEN WeekEnd(now, zone) ELSE 0]
      BY <2>3 DEF SetQuotaPolicy
    <3>2. WeekEnd(now, zone) \in Int /\ 0 \in Int
      BY <2>0, WeekEndInt
    <3>3. policy' \in Policy
      BY <2>0, <3>1, <3>2 DEF Policy
    <3>4. setting.reset = TRUE => EndsWithWeek(policy)'
      <4> SUFFICES ASSUME setting.reset = TRUE PROVE EndsWithWeek(policy)'
        OBVIOUS
      <4>1. policy'.scheduled = TRUE /\ policy'.resetAt = WeekEnd(now, zone)
        BY <3>1
      <4>2. EndsNow(policy)'
        BY <3>1, <4>1 DEF EndsNow, WeekEnd, WeekStart
      <4> QED
        BY <2>0, <3>1, <4>2, EndNow
    <3> QED
      BY <2>0, <3>1, <3>3, <3>4 DEF PolicyInv, Up
  <2>4. CASE ClearQuotaPolicy
    <3>1. UNCHANGED <<now, zone, setting, collector>> /\ policy' = Inherit /\ torn' = FALSE
      BY <2>4 DEF ClearQuotaPolicy
    <3>2. policy' \in Policy /\ EndsWithWeek(policy)'
      BY <3>1, InheritType DEF EndsWithWeek
    <3> QED
      BY <2>0, <3>1, <3>2 DEF PolicyInv, Up
  <2>5. CASE SwitchAccount
    <3>1. /\ UNCHANGED <<now, policy, zone, torn, collector>>
          /\ setting' = [setting EXCEPT !.enabled = ~@]
      BY <2>5 DEF SwitchAccount
    <3>2. /\ DOMAIN setting' = {"zone", "reset", "enabled", "restart"} /\ setting'.zone = setting.zone
          /\ setting'.reset = setting.reset
      BY <2>0, <3>1
    <3> QED
      BY <2>0, <3>1, <3>2, PolicyElsewhere
  <2>a. ASSUME NEW y \in Zone, SaveTimezone(y)
        PROVE  PolicyInv'
    <3>1. /\ UNCHANGED <<now, policy, zone, torn, collector>>
          /\ setting' = [setting EXCEPT !.zone = y, !.restart = TRUE]
      BY <2>a DEF SaveTimezone
    <3>2. /\ DOMAIN setting' = {"zone", "reset", "enabled", "restart"} /\ setting'.zone = y
          /\ setting'.reset = setting.reset
      BY <2>0, <3>1
    <3> QED
      BY <2>0, <3>1, <3>2, PolicyElsewhere
  <2>6. CASE StartCollector
    <3>1. /\ UNCHANGED <<now, policy, zone, torn, setting>> /\ collector.at = "down"
          /\ collector' = [Down EXCEPT !.at = "identities", !.zone = setting.zone,
                                       !.reset = setting.reset]
      BY <2>6 DEF StartCollector, On
    <3>2. /\ DOMAIN collector' = CollectorFields /\ collector'.at = "identities"
          /\ collector'.zone = setting.zone /\ collector'.reset = setting.reset
          /\ collector'.changed = FALSE
      BY <3>1 DEF Down, CollectorFields
    <3>3. ~Changing /\ EndsWithWeek(policy) => EndsWithWeek(policy)'
      BY <2>0, <3>1, PolicyStays
    <3>4. ~Changing
      BY <3>1 DEF Changing
    <3> QED
      BY <2>0, <3>1, <3>2, <3>3, <3>4 DEF PolicyInv, Up, CollectorStepName
  <2>7. CASE SyncIdentities \/ ReadAccounts \/ PopBatch \/ IngestEvents \/ WeeklyQuotas
             \/ PublishQuotaSnapshot \/ PublishQuotaHeartbeat
    <3>1. UNCHANGED <<now, policy, zone, torn, setting>> /\ collector.at \notin {"down", "reset"}
      BY <2>7 DEF SyncIdentities, ReadAccounts, PopBatch, IngestEvents, WeeklyQuotas,
           PublishQuotaSnapshot, PublishQuotaHeartbeat, On
    <3>2. /\ DOMAIN collector' = CollectorFields
          /\ collector'.at \in CollectorStepName \ {"down", "reset"}
          /\ collector'.changed = collector.changed /\ collector'.reset = collector.reset
          /\ collector'.zone = collector.zone
      <4> USE DEF CollectorFields, CollectorStepName, Goto
      <4>1. CASE SyncIdentities \/ ReadAccounts
        BY <2>0, <4>1 DEF SyncIdentities, ReadAccounts
      <4>2. CASE PopBatch \/ IngestEvents
        BY <2>0, <4>2 DEF PopBatch, IngestEvents, AfterBatch
      <4>3. CASE WeeklyQuotas
        BY <2>0, <4>3 DEF WeeklyQuotas
      <4>4. CASE PublishQuotaSnapshot \/ PublishQuotaHeartbeat
        BY <2>0, <4>4 DEF PublishQuotaSnapshot, PublishQuotaHeartbeat
      <4> QED
        BY <2>7, <4>1, <4>2, <4>3, <4>4
    <3> QED
      BY <3>1, <3>2, PolicyRound
  <2>8. CASE EnsureWeekTimezone
    <3>1. /\ UNCHANGED <<now, policy, torn, setting>>
          /\ collector.at = "zone" /\ zone' = collector.zone
          /\ collector' = [collector EXCEPT !.at = "reset",
                                            !.changed = zone # collector.zone]
      BY <2>8 DEF EnsureWeekTimezone, On
    <3>2. /\ DOMAIN collector' = CollectorFields /\ collector'.at = "reset"
          /\ collector'.zone = collector.zone /\ collector'.reset = collector.reset
          /\ collector'.changed = (zone # collector.zone)
      BY <2>0, <3>1 DEF CollectorFields
    <3>3. Up /\ Up' /\ collector.zone \in Zone
      BY <2>0, <3>1, <3>2 DEF Up
    <3>4. collector'.changed \in BOOLEAN /\ (zone' = zone \/ Changing') /\ ~Changing
      BY <3>1, <3>2 DEF Changing
    <3>5. EndsWithWeek(policy) => EndsWithWeek(policy)'
      BY <2>0, <3>1, <3>4, PolicyStays
    <3> QED
      BY <2>0, <3>1, <3>2, <3>3, <3>4, <3>5 DEF PolicyInv, CollectorStepName
  <2>9. CASE ConfigurePersonalQuotaReset
    <3>1. /\ UNCHANGED <<now, zone, setting>> /\ collector.at = "reset"
          /\ policy' = IF collector.reset THEN Scheduled(Valid)
                       ELSE [Valid EXCEPT !.scheduled = FALSE, !.resetAt = 0]
          /\ torn' = (torn /\ ~collector.changed)
          /\ collector' = [collector EXCEPT !.at = "accounts", !.changed = FALSE]
      BY <2>9 DEF ConfigurePersonalQuotaReset, On
    <3>2. /\ DOMAIN collector' = CollectorFields /\ collector'.at = "accounts"
          /\ collector'.zone = collector.zone /\ collector'.reset = collector.reset
          /\ collector'.changed = FALSE
      BY <2>0, <3>1 DEF CollectorFields
    <3>3. Up /\ Up' /\ collector.reset = setting.reset
      BY <2>0, <3>1, <3>2 DEF Up
    <3>4. Valid \in Policy /\ (Valid.mode # "inherit" => Valid = policy)
      BY <2>0, ValidPolicy
    <3>5. WeekEnd(now, zone) \in Int
      BY <2>0, WeekEndInt
    <3>a. torn' \in BOOLEAN
      BY <3>1
    <3>6. policy' \in Policy /\ (setting.reset = TRUE => EndsWithWeek(policy)')
      <4>1. CASE collector.reset = TRUE /\ Valid.mode # "inherit" /\ (collector.changed \/ ~Valid.scheduled)
        <5>1. policy' = [Valid EXCEPT !.scheduled = TRUE, !.resetAt = WeekEnd(now, zone)]
          BY <3>1, <4>1 DEF Scheduled
        <5>2. policy' \in Policy /\ policy'.scheduled = TRUE /\ policy'.resetAt = WeekEnd(now, zone)
          BY <3>4, <3>5, <5>1 DEF Policy
        <5>3. EndsNow(policy)'
          BY <3>1, <5>2 DEF EndsNow, WeekEnd, WeekStart
        <5> QED
          BY <2>0, <3>1, <5>2, <5>3, EndNow
      <4>2. CASE collector.reset = TRUE /\ ~(Valid.mode # "inherit" /\ (collector.changed \/ ~Valid.scheduled))
        <5>1. policy' = Valid
          BY <3>1, <4>2 DEF Scheduled
        <5>2. CASE Valid.mode = "inherit"
          BY <3>4, <5>1, <5>2 DEF EndsWithWeek
        <5>3. CASE Valid.mode # "inherit"
          <6>1. policy' = policy /\ ~(collector.changed = TRUE)
            BY <3>4, <4>2, <5>1, <5>3
          <6>2. ~Changing /\ (torn = TRUE => torn' = TRUE)
            BY <2>0, <3>1, <6>1 DEF Changing
          <6>3. EndsWithWeek(policy) => EndsWithWeek(policy)'
            BY <2>0, <3>1, <6>1, <6>2, PolicyStays
          <6> QED
            BY <2>0, <6>1, <6>3
        <5> QED
          BY <5>2, <5>3
      <4>3. CASE collector.reset = FALSE
        <5>1. policy' = [Valid EXCEPT !.scheduled = FALSE, !.resetAt = 0]
          BY <3>1, <4>3
        <5>2. FALSE \in BOOLEAN /\ 0 \in Int
          OBVIOUS
        <5>3. policy' \in Policy
          BY <3>4, <5>1, <5>2 DEF Policy
        <5> QED
          BY <3>3, <4>3, <5>3
      <4> QED
        BY <2>0, <3>3, <4>1, <4>2, <4>3
    <3> QED
      BY <2>0, <3>1, <3>2, <3>3, <3>6, <3>a DEF PolicyInv, CollectorStepName
  <2>10. CASE RoundStepFails
    <3>1. /\ UNCHANGED <<now, policy, zone, setting>> /\ collector.at # "down"
          /\ torn' = (torn \/ (collector.at = "reset" /\ collector.changed))
      BY <2>10 DEF RoundStepFails, Cut, On
    <3>2. /\ DOMAIN collector' = CollectorFields
          /\ collector'.at \in {"identities", "quotas", "heartbeat"}
          /\ collector'.zone = collector.zone /\ collector'.reset = collector.reset
          /\ collector'.changed \in {collector.changed, FALSE}
      BY <2>0, <2>10 DEF RoundStepFails, CollectorFields, CollectorStepName
    <3>3. torn' \in BOOLEAN /\ (Changing \/ torn = TRUE => torn' = TRUE) /\ collector'.changed \in BOOLEAN
      BY <2>0, <3>1, <3>2 DEF Changing
    <3>4. EndsWithWeek(policy) => EndsWithWeek(policy)'
      BY <2>0, <3>1, <3>3, PolicyStays
    <3>5. Up /\ Up'
      BY <3>1, <3>2 DEF Up
    <3> QED
      BY <2>0, <3>1, <3>2, <3>3, <3>4, <3>5 DEF PolicyInv, CollectorStepName
  <2>11. CASE StopCollector
    <3>1. /\ UNCHANGED <<now, policy, zone>> /\ collector' = Down
          /\ torn' = (torn \/ (collector.at = "reset" /\ collector.changed))
          /\ setting' = setting \/ setting' = [setting EXCEPT !.restart = FALSE]
      BY <2>11 DEF StopCollector, Cut, On
    <3>2. DOMAIN collector' = CollectorFields /\ collector'.at = "down" /\ collector'.changed = FALSE
      BY <3>1 DEF Down, CollectorFields
    <3>3. torn' \in BOOLEAN /\ (Changing \/ torn = TRUE => torn' = TRUE)
      BY <2>0, <3>1 DEF Changing
    <3>4. EndsWithWeek(policy) => EndsWithWeek(policy)'
      BY <2>0, <3>1, <3>3, PolicyStays
    <3>5. /\ DOMAIN setting' = {"zone", "reset", "enabled", "restart"} /\ setting'.zone = setting.zone
          /\ setting'.reset = setting.reset
      BY <2>0, <3>1
    <3>6. ~Up'
      BY <3>2 DEF Up
    <3> QED
      BY <2>0, <3>1, <3>2, <3>3, <3>4, <3>5, <3>6 DEF PolicyInv, CollectorStepName
  <2> QED
    BY <2>1, <2>3, <2>4, <2>5, <2>6, <2>7, <2>8, <2>9, <2>10, <2>11, <2>a
    DEF MeterNext, MeterStep, CollectorStep, AdminChange
<1> QED
  BY <1>1, <1>2, PTL DEF MeterSpec

\* With weekly reset on, a personal quota in force ends within a week of now, and
\* with the week of the stored time zone unless a change of the zone has not
\* reached it: however often the zone is changed, and wherever the collector
\* fails, crashes or is restarted (EnsureWeekTimezone,
\* ConfigurePersonalQuotaReset, SetQuotaPolicy).
THEOREM PoliciesEndWithWeek == MeterSpec => []PolicyEndsWithWeek
<1>1. PolicyInv => PolicyEndsWithWeek
  <2> SUFFICES ASSUME PolicyInv, setting.reset, Valid.mode # "inherit"
               PROVE  /\ policy.resetAt <= now + WeekLength
                      /\ \/ policy.resetAt = WeekEnd(now, zone)
                         \/ On("reset") /\ collector.changed
                         \/ torn
    BY DEF PolicyEndsWithWeek
  <2>0. now \in Nat /\ zone \in Zone /\ policy \in Policy /\ setting.reset = TRUE
        /\ WeekLength \in Nat /\ Zone \subseteq Nat
    BY MeteringAssumption DEF PolicyInv
  <2>1. Valid = policy /\ ~Expired(policy) /\ policy.mode # "inherit"
    BY <2>0, ValidPolicy
  <2>2. EndsWithWeek(policy)
    BY <2>0 DEF PolicyInv
  <2>3. PICK t \in Nat, y \in Zone :
           t <= now /\ policy.resetAt = WeekEnd(t, y) /\ (y = zone \/ Changing \/ torn = TRUE)
    BY <2>1, <2>2 DEF EndsWithWeek
  <2>4. policy.scheduled = TRUE
    BY <2>1, <2>2 DEF EndsWithWeek
  <2>5. WeekEnd(t, y) \in Int /\ WeekEnd(t, y) <= t + WeekLength
    BY WeekEndInt
  <2>6. now < WeekEnd(t, y)
    BY <2>0, <2>1, <2>3, <2>4, <2>5 DEF Expired
  <2>7. policy.resetAt <= now + WeekLength
    BY <2>0, <2>3, <2>5
  <2>8. y = zone => policy.resetAt = WeekEnd(now, zone)
    <3> SUFFICES ASSUME y = zone PROVE policy.resetAt = WeekEnd(now, zone)
      OBVIOUS
    <3>1. WeekEnd(now, y) = WeekEnd(t, y)
      BY <2>0, <2>3, <2>6, SameWeek
    <3> QED
      BY <2>3, <3>1
  <2> QED
    BY <2>3, <2>7, <2>8 DEF Changing, On
<1> QED
  BY <1>1, PoliciesScheduled, PTL

-----------------------------------------------------------------------------
(* Sums over a finite set, as the folds of FiniteSetsExt compute them. *)

Event == [request : Nat, at : Nat, total : Nat, weighted : Nat, legacy : BOOLEAN]

Sum(S) == MapThenSumSet(Weight, S)

\* The element a sum takes first, and one round of the recursion.
First(S) == CHOOSE x \in S : TRUE
Fold(S, f) ==
    [s \in SUBSET S |-> IF s = {} THEN 0 ELSE Weight(First(s)) + f[s \ {First(s)}]]

\* The first element of a set is in it.
LEMMA FirstIn == \A S : S # {} => First(S) \in S
BY DEF First

\* Less of a finite set without its first element.
LEMMA Smaller ==
  ASSUME NEW S, IsFiniteSet(S), NEW x \in S
  PROVE  /\ IsFiniteSet(S \ {x}) /\ Cardinality(S \ {x}) = Cardinality(S) - 1
         /\ Cardinality(S) \in Nat /\ Cardinality(S) > 0
<1>1. IsFiniteSet(S \ {x}) /\ Cardinality(S \ {x}) = Cardinality(S) - 1
  BY FS_RemoveElement
<1>2. Cardinality(S) \in Nat /\ Cardinality(S \ {x}) \in Nat
  BY <1>1, FS_CardinalityType
<1> QED
  BY <1>1, <1>2

\* There is a function that satisfies the equation of the fold.
LEMMA FoldExists ==
  ASSUME NEW S, IsFiniteSet(S)
  PROVE  \E f : f = Fold(S, f)
<1> DEFINE Card(s) == Cardinality(s)
<1> DEFINE Good(f, n) == \A s \in SUBSET S : Card(s) <= n => f[s] = Fold(S, f)[s]
<1> DEFINE P == {n \in Nat : \E f : f = [s \in SUBSET S |-> f[s]] /\ Good(f, n)}
<1>0. \A s \in SUBSET S : IsFiniteSet(s) /\ Card(s) \in Nat /\ Card(s) <= Card(S)
  BY FS_Subset, FS_CardinalityType
<1>1. 0 \in P
  <2> DEFINE f == [s \in SUBSET S |-> 0]
  <2>1. f = [s \in SUBSET S |-> f[s]]
    OBVIOUS
  <2>2. Good(f, 0)
    <3> SUFFICES ASSUME NEW s \in SUBSET S, Card(s) <= 0 PROVE f[s] = Fold(S, f)[s]
      OBVIOUS
    <3>1. s = {}
      BY <1>0, FS_EmptySet
    <3> QED
      BY <3>1 DEF Fold
  <2> HIDE DEF f, Good
  <2> QED
    BY <2>1, <2>2
<1>2. \A n \in Nat : n \in P => n + 1 \in P
  <2> SUFFICES ASSUME NEW n \in P PROVE n + 1 \in P
    OBVIOUS
  <2>1. PICK f : f = [s \in SUBSET S |-> f[s]] /\ Good(f, n)
    OBVIOUS
  <2> DEFINE g == [s \in SUBSET S |-> IF Card(s) <= n THEN f[s] ELSE Fold(S, f)[s]]
  <2>2. g = [s \in SUBSET S |-> g[s]]
    OBVIOUS
  <2>3. Good(g, n + 1)
    <3> SUFFICES ASSUME NEW s \in SUBSET S, Card(s) <= n + 1 PROVE g[s] = Fold(S, g)[s]
      OBVIOUS
    <3>1. g[s] = Fold(S, f)[s]
      BY <2>1
    <3>2. CASE s = {}
      BY <3>1, <3>2 DEF Fold
    <3>3. CASE s # {}
      <4> DEFINE r == s \ {First(s)}
      <4>1. First(s) \in s
        BY <3>3, FirstIn
      <4>2. r \in SUBSET S /\ Card(r) = Card(s) - 1
        BY <1>0, <4>1, Smaller
      <4>3. Card(r) <= n
        BY <1>0, <4>2
      <4>4. g[r] = f[r]
        BY <4>2, <4>3
      <4>5. Fold(S, f)[s] = Weight(First(s)) + f[r] /\ Fold(S, g)[s] = Weight(First(s)) + g[r]
        <5> HIDE DEF g
        <5> QED
          BY <3>3 DEF Fold
      <4> QED
        BY <3>1, <4>4, <4>5
    <3> QED
      BY <3>2, <3>3
  <2>4. n + 1 \in Nat
    OBVIOUS
  <2> HIDE DEF g, Good
  <2> QED
    BY <2>2, <2>3, <2>4
<1>3. Card(S) \in P
  <2> HIDE DEF P
  <2>1. Nat \subseteq P
    BY <1>1, <1>2, InductionOverNat
  <2> QED
    BY <1>0, <2>1
<1>4. PICK f : f = [s \in SUBSET S |-> f[s]] /\ Good(f, Card(S))
  BY <1>3
<1>5. \A s \in SUBSET S : f[s] = Fold(S, f)[s]
  BY <1>0, <1>4
<1>6. Fold(S, f) = [s \in SUBSET S |-> Fold(S, f)[s]]
  BY DEF Fold
<1> QED
  BY <1>4, <1>5, <1>6

\* A sum is the value of such a function.
LEMMA SumIsFold ==
  ASSUME NEW S, IsFiniteSet(S)
  PROVE  \E f : f = Fold(S, f) /\ Sum(S) = f[S]
<1>1. \E f : f = Fold(S, f)
  BY FoldExists
<1> QED
  BY <1>1 DEF Fold, First, Sum, MapThenSumSet, MapThenFoldSet

\* Folds over a set and a part of it agree on the part.
LEMMA FoldsAgree ==
  ASSUME NEW S, IsFiniteSet(S), NEW T \in SUBSET S, NEW f, f = Fold(S, f), NEW g, g = Fold(T, g)
  PROVE  f[T] = g[T]
<1> DEFINE P == {n \in Nat : \A t \in SUBSET T : Cardinality(t) = n => f[t] = g[t]}
<1>0. \A t \in SUBSET T : IsFiniteSet(t) /\ Cardinality(t) \in Nat
  BY FS_Subset, FS_CardinalityType
<1>1. 0 \in P
  <2> SUFFICES ASSUME NEW t \in SUBSET T, Cardinality(t) = 0 PROVE f[t] = g[t]
    OBVIOUS
  <2>1. t = {}
    BY <1>0, FS_EmptySet
  <2>2. Fold(S, f)[t] = 0 /\ Fold(T, g)[t] = 0
    BY <2>1 DEF Fold
  <2> QED
    BY <2>2
<1>2. \A n \in Nat : n \in P => n + 1 \in P
  <2> SUFFICES ASSUME NEW n \in P, NEW t \in SUBSET T, Cardinality(t) = n + 1
               PROVE  f[t] = g[t]
    OBVIOUS
  <2>1. t # {}
    BY FS_EmptySet
  <2> DEFINE r == t \ {First(t)}
  <2>2. First(t) \in t
    BY <2>1, FirstIn
  <2>3. r \in SUBSET T /\ Cardinality(r) = n
    BY <1>0, <2>2, Smaller
  <2>4. f[r] = g[r]
    BY <2>3
  <2>5. Fold(S, f)[t] = Weight(First(t)) + f[r] /\ Fold(T, g)[t] = Weight(First(t)) + g[r]
    BY <2>1 DEF Fold
  <2> QED
    BY <2>4, <2>5
<1>3. Nat \subseteq P
  <2> HIDE DEF P
  <2> QED
    BY <1>1, <1>2, InductionOverNat
<1>4. T \in SUBSET T /\ Cardinality(T) \in P
  BY <1>0, <1>3
<1> QED
  BY <1>4

\* A sum is the weight of the first element and the sum of the others.
LEMMA SumStep ==
  /\ Sum({}) = 0
  /\ \A S : IsFiniteSet(S) /\ S # {} => Sum(S) = Weight(First(S)) + Sum(S \ {First(S)})
<1>1. Sum({}) = 0
  <2>1. PICK f : f = Fold({}, f) /\ Sum({}) = f[{}]
    BY SumIsFold, FS_EmptySet
  <2>2. Fold({}, f)[{}] = 0
    BY DEF Fold
  <2> QED
    BY <2>1, <2>2
<1>2. ASSUME NEW S, IsFiniteSet(S), S # {}
      PROVE  Sum(S) = Weight(First(S)) + Sum(S \ {First(S)})
  <2> DEFINE T == S \ {First(S)}
  <2>1. PICK f : f = Fold(S, f) /\ Sum(S) = f[S]
    BY <1>2, SumIsFold
  <2>2. IsFiniteSet(T) /\ T \in SUBSET S
    BY <1>2, FirstIn, Smaller
  <2>3. PICK g : g = Fold(T, g) /\ Sum(T) = g[T]
    BY <2>2, SumIsFold
  <2>4. f[T] = g[T]
    BY <1>2, <2>1, <2>2, <2>3, FoldsAgree
  <2>5. Fold(S, f)[S] = Weight(First(S)) + f[T]
    BY <1>2 DEF Fold
  <2> QED
    BY <2>1, <2>3, <2>4, <2>5
<1> QED
  BY <1>1, <1>2

-----------------------------------------------------------------------------
(* What the weekly counters add up to. *)

\* An event weighs a natural number.
LEMMA WeightNat == \A e \in Event : Weight(e) \in Nat
BY DEF Event, Weight

\* A sum of weights is a natural number.
LEMMA SumNat ==
  ASSUME NEW S, IsFiniteSet(S), S \subseteq Event
  PROVE  Sum(S) \in Nat
<1> DEFINE P == {n \in Nat : \A s \in SUBSET S : Cardinality(s) = n => Sum(s) \in Nat}
<1>0. \A s \in SUBSET S : IsFiniteSet(s) /\ Cardinality(s) \in Nat
  BY FS_Subset, FS_CardinalityType
<1>1. 0 \in P
  BY <1>0, SumStep, FS_EmptySet
<1>2. \A n \in Nat : n \in P => n + 1 \in P
  <2> SUFFICES ASSUME NEW n \in P, NEW s \in SUBSET S, Cardinality(s) = n + 1
               PROVE  Sum(s) \in Nat
    OBVIOUS
  <2>1. First(s) \in s
    BY FS_EmptySet, FirstIn
  <2>2. s \ {First(s)} \in SUBSET S /\ Cardinality(s \ {First(s)}) = n
    BY <1>0, <2>1, Smaller
  <2>3. Sum(s) = Weight(First(s)) + Sum(s \ {First(s)})
    BY <1>0, <2>1, SumStep
  <2>4. Weight(First(s)) \in Nat
    BY <2>1, WeightNat
  <2> QED
    BY <2>2, <2>3, <2>4
<1>3. Nat \subseteq P
  <2> HIDE DEF P
  <2> QED
    BY <1>1, <1>2, InductionOverNat
<1>4. S \in SUBSET S /\ Cardinality(S) \in P
  BY <1>0, <1>3
<1> QED
  BY <1>4

\* Two summands change places.
LEMMA AddSwap == \A a, b, c \in Nat : a + (b + c) = b + (a + c)
OBVIOUS

\* The order of the elements does not matter.
LEMMA SumRemove ==
  ASSUME NEW S, IsFiniteSet(S), S \subseteq Event
  PROVE  \A y \in S : Sum(S) = Weight(y) + Sum(S \ {y})
<1> DEFINE P == {n \in Nat : \A s \in SUBSET S : Cardinality(s) = n =>
                                \A y \in s : Sum(s) = Weight(y) + Sum(s \ {y})}
<1>0. \A s \in SUBSET S : IsFiniteSet(s) /\ Cardinality(s) \in Nat
  BY FS_Subset, FS_CardinalityType
<1>1. 0 \in P
  BY <1>0, FS_EmptySet
<1>2. \A n \in Nat : n \in P => n + 1 \in P
  <2> SUFFICES ASSUME NEW n \in P, NEW s \in SUBSET S, Cardinality(s) = n + 1, NEW y \in s
               PROVE  Sum(s) = Weight(y) + Sum(s \ {y})
    OBVIOUS
  <2> DEFINE x == First(s)
  <2>1. x \in s /\ Sum(s) = Weight(x) + Sum(s \ {x})
    BY <1>0, FirstIn, SumStep
  <2> HIDE DEF x
  <2>2. CASE y = x
    BY <2>1, <2>2
  <2>3. CASE y # x
    <3>1. /\ s \ {x} \in SUBSET S /\ Cardinality(s \ {x}) = n /\ y \in s \ {x}
          /\ s \ {y} \in SUBSET S /\ Cardinality(s \ {y}) = n /\ x \in s \ {y}
      BY <1>0, <2>1, <2>3, Smaller
    <3>2. Sum(s \ {x}) = Weight(y) + Sum((s \ {x}) \ {y})
      BY <3>1
    <3>3. Sum(s \ {y}) = Weight(x) + Sum((s \ {y}) \ {x})
      BY <3>1
    <3>4. (s \ {x}) \ {y} = (s \ {y}) \ {x}
      OBVIOUS
    <3>5. Weight(x) \in Nat /\ Weight(y) \in Nat /\ Sum((s \ {y}) \ {x}) \in Nat
      <4>1. (s \ {y}) \ {x} \in SUBSET S
        OBVIOUS
      <4> QED
        BY <1>0, <2>1, <4>1, WeightNat, SumNat
    <3> DEFINE rest == Sum((s \ {y}) \ {x})
    <3>6. Sum(s) = Weight(x) + (Weight(y) + rest)
      BY <2>1, <3>2, <3>4
    <3>7. Weight(x) + (Weight(y) + rest) = Weight(y) + (Weight(x) + rest)
      BY <3>5, AddSwap
    <3> QED
      BY <3>3, <3>6, <3>7
  <2> QED
    BY <2>2, <2>3
<1>3. Nat \subseteq P
  <2> HIDE DEF P
  <2> QED
    BY <1>1, <1>2, InductionOverNat
<1>4. S \in SUBSET S /\ Cardinality(S) \in P
  BY <1>0, <1>3
<1> QED
  BY <1>4

\* The sum over two sets without a common element is that of their sums.
LEMMA SumUnion ==
  ASSUME NEW S, IsFiniteSet(S), S \subseteq Event, NEW T, IsFiniteSet(T), T \subseteq Event,
         S \cap T = {}
  PROVE  Sum(S \cup T) = Sum(S) + Sum(T)
<1> DEFINE P == {n \in Nat : \A t \in SUBSET T : Cardinality(t) = n =>
                                Sum(S \cup t) = Sum(S) + Sum(t)}
<1>0. \A t \in SUBSET T : IsFiniteSet(t) /\ Cardinality(t) \in Nat
  BY FS_Subset, FS_CardinalityType
<1>1. 0 \in P
  <2> SUFFICES ASSUME NEW t \in SUBSET T, Cardinality(t) = 0
               PROVE  Sum(S \cup t) = Sum(S) + Sum(t)
    OBVIOUS
  <2>1. t = {}
    BY <1>0, FS_EmptySet
  <2>2. S \cup t = S /\ Sum(t) = 0 /\ Sum(S) \in Nat
    BY <2>1, SumStep, SumNat
  <2>3. Sum(S) + 0 = Sum(S)
    BY <2>2
  <2> QED
    BY <2>2, <2>3
<1>2. \A n \in Nat : n \in P => n + 1 \in P
  <2> SUFFICES ASSUME NEW n \in P, NEW t \in SUBSET T, Cardinality(t) = n + 1
               PROVE  Sum(S \cup t) = Sum(S) + Sum(t)
    OBVIOUS
  <2>1. PICK y \in t : TRUE
    BY FS_EmptySet
  <2>2. t \ {y} \in SUBSET T /\ Cardinality(t \ {y}) = n
    BY <1>0, Smaller
  <2>3. Sum(S \cup (t \ {y})) = Sum(S) + Sum(t \ {y})
    BY <2>2
  <2>4. (S \cup t) \ {y} = S \cup (t \ {y}) /\ y \in S \cup t /\ S \cup t \subseteq Event
    OBVIOUS
  <2>5. IsFiniteSet(S \cup t)
    BY <1>0, FS_Union
  <2>6. Sum(S \cup t) = Weight(y) + Sum(S \cup (t \ {y}))
    BY <2>4, <2>5, SumRemove
  <2>7. Sum(t) = Weight(y) + Sum(t \ {y})
    BY <1>0, SumRemove
  <2>8. Weight(y) \in Nat /\ Sum(S) \in Nat /\ Sum(t \ {y}) \in Nat
    BY <1>0, <2>2, WeightNat, SumNat
  <2> QED
    BY <2>3, <2>6, <2>7, <2>8
<1>3. Nat \subseteq P
  <2> HIDE DEF P
  <2> QED
    BY <1>1, <1>2, InductionOverNat
<1>4. T \in SUBSET T /\ Cardinality(T) \in P
  BY <1>0, <1>3
<1> QED
  BY <1>4

-----------------------------------------------------------------------------

InWeek(es, z, w) == {e \in es : WeekStart(e.at, z) = w}
Weeks(es, z) == {WeekStart(e.at, z) : e \in es}

\* A rebuild has a sum for every week that has an event.
LEMMA RebuiltIs == \A es, z : Rebuilt(es, z) = [w \in Weeks(es, z) |-> Sum(InWeek(es, z, w))]
BY DEF Rebuilt, Weeks, Sum, InWeek

\* Counting adds, week by week, the sum of the new rows.
LEMMA CountedIs ==
  \A rows : Counted(rows) =
     [w \in DOMAIN weekly \cup Weeks(rows, zone) |->
        (IF w \in DOMAIN weekly THEN weekly[w] ELSE 0) + Sum(InWeek(rows, zone, w))]
BY DEF Counted, Weeks, Sum, InWeek

\* Counting new rows is what a rebuild gives.
LEMMA CountedRebuilds ==
  ASSUME NEW es, IsFiniteSet(es), es \subseteq Event, NEW rows, IsFiniteSet(rows),
         rows \subseteq Event, es \cap rows = {}, weekly = Rebuilt(es, zone)
  PROVE  Counted(rows) = Rebuilt(es \cup rows, zone)
<1>1. DOMAIN weekly = Weeks(es, zone) /\ \A w \in Weeks(es, zone) : weekly[w] = Sum(InWeek(es, zone, w))
  BY RebuiltIs
<1>2. Weeks(es \cup rows, zone) = Weeks(es, zone) \cup Weeks(rows, zone)
  BY DEF Weeks
<1>3. ASSUME NEW w \in Weeks(es \cup rows, zone)
      PROVE  (IF w \in Weeks(es, zone) THEN weekly[w] ELSE 0) + Sum(InWeek(rows, zone, w))
               = Sum(InWeek(es \cup rows, zone, w))
  <2>1. /\ InWeek(es \cup rows, zone, w) = InWeek(es, zone, w) \cup InWeek(rows, zone, w)
        /\ InWeek(es, zone, w) \cap InWeek(rows, zone, w) = {}
        /\ InWeek(es, zone, w) \in SUBSET es /\ InWeek(rows, zone, w) \in SUBSET rows
    BY DEF InWeek
  <2>2. IsFiniteSet(InWeek(es, zone, w)) /\ IsFiniteSet(InWeek(rows, zone, w))
    BY <2>1, FS_Subset
  <2>3. Sum(InWeek(es \cup rows, zone, w)) = Sum(InWeek(es, zone, w)) + Sum(InWeek(rows, zone, w))
    BY <2>1, <2>2, SumUnion
  <2>4. w \notin Weeks(es, zone) => InWeek(es, zone, w) = {}
    BY DEF Weeks, InWeek
  <2>5. (IF w \in Weeks(es, zone) THEN weekly[w] ELSE 0) = Sum(InWeek(es, zone, w))
    BY <1>1, <2>4, SumStep
  <2> QED
    BY <2>3, <2>5
<1>4. Counted(rows) = [w \in Weeks(es \cup rows, zone) |->
         (IF w \in Weeks(es, zone) THEN weekly[w] ELSE 0) + Sum(InWeek(rows, zone, w))]
  BY <1>1, <1>2, CountedIs
<1>5. Rebuilt(es \cup rows, zone) =
         [w \in Weeks(es \cup rows, zone) |-> Sum(InWeek(es \cup rows, zone, w))]
  BY RebuiltIs
<1> QED
  BY <1>3, <1>4, <1>5

-----------------------------------------------------------------------------
(* The collector: the weekly counters. *)

\* The queue and the batch are of requests that were made, and the counters are
\* those of the recorded ones.
Known(s) == \A i \in DOMAIN s : s[i] \in DOMAIN made

WeeklyInv ==
    /\ Known(queue) /\ Known(batch)
    /\ IsFiniteSet(events) /\ events \subseteq Event
    /\ WeeklyMatchesEvents

\* A batch has finitely many requests.
LEMMA BatchFinite == ASSUME batch \in Seq(Nat) PROVE IsFiniteSet(InBatch)
<1>1. Len(batch) \in Nat /\ DOMAIN batch = 1..Len(batch) /\ batch \in [1..Len(batch) -> Nat]
  OBVIOUS
<1>2. batch \in [1..Len(batch) -> InBatch]
  BY <1>1 DEF InBatch
<1>3. batch \in Surjection(1..Len(batch), InBatch)
  BY <1>1, <1>2 DEF Surjection, InBatch
<1>4. IsFiniteSet(1..Len(batch))
  BY <1>1, FS_Interval
<1> QED
  BY <1>3, <1>4, FS_Surjection

\* Finitely many requests have finitely many rows.
LEMMA RowsFinite == ASSUME NEW X, IsFiniteSet(X) PROVE IsFiniteSet({Row(r) : r \in X})
<1> DEFINE f == [r \in X |-> Row(r)]
<1>1. f \in Surjection(X, {Row(r) : r \in X})
  BY DEF Surjection
<1> QED
  BY <1>1, FS_Surjection

\* The row of a request is an event of that request.
LEMMA RowType ==
  ASSUME LossInv, NEW r \in DOMAIN made
  PROVE  Row(r) \in Event /\ Row(r).request = r
<1>0. made \in Seq(RequestRow)
  BY DEF LossInv
<1>a. Len(made) \in Nat /\ r \in 1..Len(made)
  BY <1>0, LenProperties
<1>b. made[r] \in RequestRow
  BY <1>0, <1>a, ElementOfSeq
<1>1. made[r].at \in Nat /\ r \in Nat
  BY <1>a, <1>b DEF RequestRow
<1>2. 1 \in Nat /\ Multiplier \in Nat /\ FALSE \in BOOLEAN
  BY MeteringAssumption
<1>3. Row(r) = [request |-> r, at |-> made[r].at, total |-> 1,
                weighted |-> Multiplier, legacy |-> FALSE]
  BY DEF Row
<1>4. Row(r) \in Event
  BY <1>1, <1>2, <1>3 DEF Event
<1> QED
  BY <1>3, <1>4

\* The inductive invariant behind WeeklyMatchesEvents.
THEOREM CountersKept == MeterSpec => []WeeklyInv
<1> USE MeteringAssumption
<1>1. MeterInit => WeeklyInv
  <2> SUFFICES ASSUME MeterInit PROVE WeeklyInv
    OBVIOUS
  <2>1. queue = <<>> /\ batch = <<>> /\ weekly = Rebuilt(events, zone)
        /\ events = {[request |-> 0, at |-> 0, total |-> 1, weighted |-> 0, legacy |-> TRUE]}
    BY DEF MeterInit
  <2>2. IsFiniteSet(events)
    BY <2>1, FS_Singleton
  <2>3. events \subseteq Event
    BY <2>1 DEF Event
  <2> QED
    BY <2>1, <2>2, <2>3 DEF WeeklyInv, WeeklyMatchesEvents, Known
<1>2. WeeklyInv /\ LossInv /\ [MeterNext]_meterVars => WeeklyInv'
  <2> SUFFICES ASSUME WeeklyInv, LossInv, [MeterNext]_meterVars PROVE WeeklyInv'
    OBVIOUS
  <2> USE DEF demand, meterStore, meterFiles, observers
  <2>0. made \in Seq(RequestRow) /\ queue \in Seq(Nat) /\ batch \in Seq(Nat)
    BY DEF LossInv
  <2>1. CASE UNCHANGED <<made, queue, batch, events, weekly, zone>>
    BY <2>1 DEF WeeklyInv, WeeklyMatchesEvents, Known
  <2>2. ASSUME NEW k \in MKey, NEW counts \in BOOLEAN, Request(k, counts)
        PROVE  WeeklyInv'
    <3>1. /\ UNCHANGED <<batch, events, weekly, zone>>
          /\ made' = Append(made, [key |-> k, at |-> now, counts |-> counts])
          /\ queue' = Append(queue, Len(made) + 1)
      BY <2>2 DEF Request
    <3>2. /\ DOMAIN made = 1..Len(made) /\ DOMAIN made' = 1..(Len(made) + 1) /\ Len(made) \in Nat
          /\ DOMAIN queue = 1..Len(queue) /\ DOMAIN queue' = 1..(Len(queue) + 1)
          /\ Len(queue) \in Nat /\ queue'[Len(queue) + 1] = Len(made) + 1
          /\ \A i \in 1..Len(queue) : queue'[i] = queue[i]
      BY <2>0, <3>1
    <3>3. Known(queue)' /\ Known(batch)'
      BY <3>1, <3>2 DEF WeeklyInv, Known
    <3> QED
      BY <3>1, <3>3 DEF WeeklyInv, WeeklyMatchesEvents
  <2>3. CASE Redeliver
    <3>1. PICK r \in DOMAIN made : queue' = Append(queue, r)
      BY <2>3 DEF Redeliver
    <3>2. UNCHANGED <<made, batch, events, weekly, zone>>
      BY <2>3 DEF Redeliver
    <3>3. r \in Nat
      BY <2>0
    <3>4. /\ DOMAIN queue = 1..Len(queue) /\ DOMAIN queue' = 1..(Len(queue) + 1)
          /\ Len(queue) \in Nat /\ queue'[Len(queue) + 1] = r
          /\ \A i \in 1..Len(queue) : queue'[i] = queue[i]
      BY <2>0, <3>1, <3>3
    <3>5. Known(queue)' /\ Known(batch)'
      BY <3>2, <3>4 DEF WeeklyInv, Known
    <3> QED
      BY <3>2, <3>5 DEF WeeklyInv, WeeklyMatchesEvents
  <2>4. CASE EnsureWeekTimezone
    <3>1. /\ UNCHANGED <<made, queue, batch, events>> /\ zone' = collector.zone
          /\ \/ zone = collector.zone /\ weekly' = weekly
             \/ weekly' = Rebuilt(events, collector.zone)
      BY <2>4 DEF EnsureWeekTimezone
    <3>2. WeeklyMatchesEvents'
      BY <3>1 DEF WeeklyInv, WeeklyMatchesEvents
    <3> QED
      BY <3>1, <3>2 DEF WeeklyInv, Known
  <2>5. CASE PopBatch
    <3> DEFINE n == Taken
    <3>1. /\ UNCHANGED <<made, events, weekly, zone>>
          /\ batch' = SubSeq(queue, 1, n) /\ queue' = SubSeq(queue, n + 1, Len(queue))
      BY <2>5 DEF PopBatch, Left
    <3>2. n \in Nat /\ n <= Len(queue) /\ Len(queue) \in Nat
      BY <2>0 DEF Taken
    <3> HIDE DEF n
    <3>3. /\ DOMAIN batch' = 1..n /\ \A i \in 1..n : batch'[i] = queue[i]
      BY <2>0, <3>1, <3>2
    <3>4. /\ DOMAIN queue' = 1..(Len(queue) - n)
          /\ \A i \in 1..(Len(queue) - n) : queue'[i] = queue[n + i]
      BY <2>0, <3>1, <3>2
    <3>5. DOMAIN queue = 1..Len(queue)
      BY <2>0
    <3>6. Known(batch)'
      BY <3>1, <3>2, <3>3, <3>5 DEF WeeklyInv, Known
    <3>7. Known(queue)'
      BY <3>1, <3>2, <3>4, <3>5 DEF WeeklyInv, Known
    <3> QED
      BY <3>1, <3>6, <3>7 DEF WeeklyInv, WeeklyMatchesEvents
  <2>6. CASE IngestEvents
    <3> DEFINE X == {q \in Mapped : ~Recorded(q)}
    <3> DEFINE new == {Row(r) : r \in X}
    <3>1. /\ UNCHANGED <<made, queue, zone>> /\ events' = events \cup new
          /\ weekly' = Counted(new) /\ batch' = <<>>
      BY <2>6 DEF IngestEvents
    <3>2. X \subseteq InBatch /\ InBatch \subseteq DOMAIN made
      BY DEF Mapped, Valued, InBatch, WeeklyInv, Known
    <3>3. IsFiniteSet(new)
      <4>1. IsFiniteSet(X)
        BY <2>0, <3>2, BatchFinite, FS_Subset
      <4> HIDE DEF X
      <4> QED
        BY <4>1, RowsFinite
    <3>4. new \subseteq Event
      BY <3>2, RowType
    <3>5. events \cap new = {}
      BY <3>2, RowType DEF Recorded
    <3> HIDE DEF new
    <3>6. Counted(new) = Rebuilt(events \cup new, zone)
      BY <3>3, <3>4, <3>5, CountedRebuilds DEF WeeklyInv, WeeklyMatchesEvents
    <3>7. WeeklyMatchesEvents'
      BY <3>1, <3>6 DEF WeeklyMatchesEvents, Rebuilt, WeekStart
    <3>8. IsFiniteSet(events') /\ events' \subseteq Event
      BY <3>1, <3>3, <3>4, FS_Union DEF WeeklyInv
    <3> QED
      BY <3>1, <3>7, <3>8 DEF WeeklyInv, Known
  <2>7. CASE RoundStepFails \/ StopCollector
    <3>1. /\ UNCHANGED <<made, events, weekly, zone>> /\ batch' = <<>>
          /\ queue' = queue \/ queue' = Left
      BY <2>7 DEF RoundStepFails, StopCollector, Cut
    <3>2. Known(queue)'
      <4>1. CASE queue' = queue
        BY <3>1, <4>1 DEF WeeklyInv, Known
      <4>2. CASE queue' = Left
        <5>1. Taken \in Nat /\ Taken <= Len(queue) /\ Len(queue) \in Nat /\ DOMAIN queue = 1..Len(queue)
          BY <2>0 DEF Taken
        <5>2. /\ DOMAIN queue' = 1..(Len(queue) - Taken)
              /\ \A i \in 1..(Len(queue) - Taken) : queue'[i] = queue[Taken + i]
          BY <2>0, <4>2, <5>1 DEF Left
        <5> QED
          BY <3>1, <5>1, <5>2 DEF WeeklyInv, Known
      <4> QED
        BY <3>1, <4>1, <4>2
    <3> QED
      BY <3>1, <3>2 DEF WeeklyInv, WeeklyMatchesEvents, Known
  <2>8. CASE \/ \E k \in MKey : IssueKey(k)
             \/ MeterTick \/ AdminChange \/ UNCHANGED meterVars
             \/ StartCollector \/ SyncIdentities
             \/ ConfigurePersonalQuotaReset \/ ReadAccounts \/ WeeklyQuotas
             \/ PublishQuotaSnapshot \/ PublishQuotaHeartbeat
    BY <2>1, <2>8, AdminLeaves DEF IssueKey, MeterTick, meterVars, StartCollector, SyncIdentities,
       ConfigurePersonalQuotaReset, ReadAccounts, WeeklyQuotas, PublishQuotaSnapshot,
       PublishQuotaHeartbeat
  <2> QED
    BY <2>2, <2>3, <2>4, <2>5, <2>6, <2>7, <2>8 DEF MeterNext, MeterStep, CollectorStep
<1> QED
  BY <1>1, <1>2, QueueAccounted, PTL DEF MeterSpec

\* The materialised weekly counters are at every moment what a rebuild from the
\* recorded events in the stored time zone would give, however many requests,
\* redeliveries, restarts, faults and changes of the zone there are
\* (IngestEvents, EnsureWeekTimezone, rebuildWeeklyUsage).
THEOREM CountersMatchEvents == MeterSpec => []WeeklyMatchesEvents
<1>1. WeeklyInv => WeeklyMatchesEvents
  BY DEF WeeklyInv
<1> QED
  BY <1>1, CountersKept, PTL

=============================================================================
