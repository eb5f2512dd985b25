------------------------ MODULE ControlPlaneProofs ------------------------
(***************************************************************************)
(* Proofs about the components of the control plane that share no state:   *)
(* for every number of accounts, operators, log lines, backups and         *)
(* requests, every length of the timeouts and every bound on the faults.   *)
(* Each section has the inductive invariant of one component and the       *)
(* properties that follow from it.                                         *)
(***************************************************************************)
EXTENDS StatusObserver, Enforcement, RuntimeJobs, ImageUpdate, Configuration,
        QuotaWorker, AccessLog, InductionLemmas, SequenceTheorems, TLAPS

-----------------------------------------------------------------------------
(* The account status observer: an account found selectable was selectable
   not long ago. *)

\* What an account can be shown as.
Shown == {"none", "available", "degraded", "quota_exhausted", "credential_unavailable",
          "transient_cooldown", "runtime_unknown"}

AskType == [phase : {"idle", "waiting", "answered"}, query : Query \cup {"none"}, state : Shown]

ObserverTypeOK ==
    /\ seconds \in Nat /\ openAt \in Nat /\ container \in RuntimeState
    /\ cache.expires \in Nat /\ cache.state \in Shown
    /\ flights \in [Query -> [on : BOOLEAN, at : Nat, saw : Shown]]
    /\ asks \in [Asker -> AskType]

\* The account was asked and found selectable.
Sighted(state) == MaySwitchTo(state) /\ state \notin {"none", "runtime_unknown"}

OpenNow == MaySwitchTo(PresentRuntime(ProbeNative(container))) => openAt = seconds

\* A refresh in flight has not reached its deadline, and what it saw it saw
\* after it began.
FlightsAreYoung ==
    \A q \in Query :
        /\ flights[q].on =>
              flights[q].at <= seconds /\ seconds <= flights[q].at + ProbeTime
        /\ flights[q].saw # "none" => flights[q].on
        /\ Sighted(flights[q].saw) => flights[q].at <= openAt

\* The cache outlives what it holds by the refresh and its own period.
CacheIsDated ==
    /\ cache.state = "none" => cache.expires = 0
    /\ Sighted(cache.state) => cache.expires <= openAt + CacheTTL + ProbeTime

AnswersAreRecent ==
    \A r \in Asker : asks[r].phase = "answered" =>
        /\ asks[r].state # "none"
        /\ Sighted(asks[r].state) =>
              seconds < openAt + CacheTTL + ProbeTime \/ seconds <= openAt + ProbeTime

ObserverInv ==
    /\ ObserverTypeOK
    /\ openAt <= seconds
    /\ OpenNow
    /\ FlightsAreYoung
    /\ CacheIsDated
    /\ AnswersAreRecent

\* What a probe finds is shown as one of the states, and never as none.
LEMMA ShownType == \A n \in RuntimeState : /\ PresentRuntime(ProbeNative(n)) \in Shown
                                           /\ PresentRuntime(ProbeNative(n)) # "none"
BY DEF RuntimeState, PresentRuntime, ProbeNative, Shown

\* A sight in time for a moment is in time for a later one.
LEMMA LaterSight ==
  ASSUME NEW s \in Nat, NEW a \in Nat, NEW b \in Nat, a <= b
  PROVE  /\ s < a + CacheTTL + ProbeTime => s < b + CacheTTL + ProbeTime
         /\ s <= a + ProbeTime => s <= b + ProbeTime
BY ObserverAssumption

\* A refresh that begins is one under way that has seen the present.
LEMMA FlightStarts ==
  ASSUME ObserverInv, NEW q \in Query, RefreshSnapshot(q),
         seconds' = seconds, openAt' = openAt
  PROVE  /\ flights' \in [Query -> [on : BOOLEAN, at : Nat, saw : Shown]]
         /\ FlightsAreYoung'
<1>1. CASE flights[q].on
  BY <1>1 DEF RefreshSnapshot, ObserverInv, ObserverTypeOK, FlightsAreYoung
<1>2. CASE ~flights[q].on
  <2> DEFINE flight == [NoFlight EXCEPT !.on = TRUE, !.at = seconds]
  <2>1. flights' = [flights EXCEPT ![q] = flight]
    BY <1>2 DEF RefreshSnapshot
  <2>a. flight \in [on : BOOLEAN, at : Nat, saw : Shown]
    BY DEF NoFlight, ObserverInv, ObserverTypeOK, Shown
  <2>b. flight.on /\ flight.at = seconds /\ flight.saw = "none"
    BY DEF NoFlight
  <2> HIDE DEF flight
  <2>2. flights' \in [Query -> [on : BOOLEAN, at : Nat, saw : Shown]]
    BY <2>1, <2>a DEF ObserverInv, ObserverTypeOK
  <2>3. FlightsAreYoung'
    <3>1. ProbeTime \in Nat
      BY ObserverAssumption
    <3>2. SUFFICES ASSUME NEW p \in Query
          PROVE  /\ flights'[p].on =>
                      flights'[p].at <= seconds /\ seconds <= flights'[p].at + ProbeTime
                 /\ flights'[p].saw # "none" => flights'[p].on
                 /\ Sighted(flights'[p].saw) => flights'[p].at <= openAt
      BY DEF FlightsAreYoung, Sighted, MaySwitchTo
    <3>3. CASE p = q
      BY <2>1, <2>b, <3>1, <3>3 DEF ObserverInv, ObserverTypeOK, Sighted
    <3>4. CASE p # q
      BY <2>1, <3>4 DEF ObserverInv, ObserverTypeOK, FlightsAreYoung
    <3> QED
      BY <3>3, <3>4
  <2> QED
    BY <2>2, <2>3
<1> QED
  BY <1>1, <1>2

\* The inductive invariant behind SwitchesOnRecentSight.
THEOREM SightsAreDated == ObserverSpec => []ObserverInv
<1> USE ObserverAssumption
<1>1. ObserverInit => ObserverInv
  BY DEF ObserverInit, ObserverInv, ObserverTypeOK, OpenNow, FlightsAreYoung, CacheIsDated,
       AnswersAreRecent, NoFlight, NoAsk, AskType, RuntimeState, Shown, Sighted
<1>2. ObserverInv /\ [ObserverNext]_observerVars => ObserverInv'
  <2> SUFFICES ASSUME ObserverInv, [ObserverNext]_observerVars PROVE ObserverInv'
    OBVIOUS
  <2>0. /\ seconds \in Nat /\ openAt \in Nat /\ container \in RuntimeState
        /\ cache.expires \in Nat /\ cache.state \in Shown
        /\ flights \in [Query -> [on : BOOLEAN, at : Nat, saw : Shown]]
        /\ asks \in [Asker -> AskType] /\ openAt <= seconds
    BY DEF ObserverInv, ObserverTypeOK
  <2>1. ASSUME NEW r \in Asker, Observe(r)
        PROVE  ObserverInv'
    <3>0. UNCHANGED <<seconds, container, openAt, cache>>
      BY <2>1 DEF Observe
    <3>1. PICK q \in Query :
            IF Cached(q)
            THEN /\ asks' = [asks EXCEPT ![r] = [phase |-> "answered", query |-> q,
                                                 state |-> cache.state]]
                 /\ UNCHANGED flights
            ELSE /\ asks' = [asks EXCEPT ![r] = [NoAsk EXCEPT !.phase = "waiting",
                                                              !.query = q]]
                 /\ RefreshSnapshot(q)
      BY <2>1 DEF Observe
    <3>2. CASE Cached(q)
      <4>1. cache.state # "none" /\ seconds < cache.expires
        BY <2>0, <3>2 DEF Cached, ObserverInv, CacheIsDated
      <4>2. AnswersAreRecent'
        <5>1. Sighted(cache.state) => seconds < openAt + CacheTTL + ProbeTime
          BY <2>0, <4>1 DEF ObserverInv, CacheIsDated
        <5> QED
          BY <2>0, <3>0, <3>1, <3>2, <4>1, <5>1 DEF ObserverInv, AnswersAreRecent, Sighted,
               MaySwitchTo
      <4>3. asks' \in [Asker -> AskType]
        BY <2>0, <3>1, <3>2 DEF AskType
      <4> QED
        BY <2>0, <3>0, <3>1, <3>2, <4>2, <4>3
        DEF ObserverInv, ObserverTypeOK, OpenNow, FlightsAreYoung, CacheIsDated
    <3>3. CASE ~Cached(q)
      <4>1. AnswersAreRecent' /\ asks' \in [Asker -> AskType]
        <5>1. asks' = [asks EXCEPT ![r] = [phase |-> "waiting", query |-> q, state |-> "none"]]
          BY <3>1, <3>3 DEF NoAsk
        <5>2. asks' \in [Asker -> AskType]
          BY <2>0, <5>1 DEF AskType, Shown
        <5> QED
          BY <2>0, <3>0, <5>1, <5>2 DEF ObserverInv, AnswersAreRecent
      <4>2. /\ flights' \in [Query -> [on : BOOLEAN, at : Nat, saw : Shown]]
            /\ FlightsAreYoung'
        BY <3>0, <3>1, <3>3, FlightStarts
      <4> QED
        BY <2>0, <3>0, <4>1, <4>2 DEF ObserverInv, ObserverTypeOK, OpenNow, CacheIsDated
    <3> QED
      BY <3>2, <3>3
  <2>2. ASSUME NEW r \in Asker, AskCancelled(r) \/ Decide(r)
        PROVE  ObserverInv'
    <3>1. UNCHANGED <<seconds, container, openAt, cache, flights>>
      BY <2>2 DEF AskCancelled, Decide
    <3>2. asks' \in [Asker -> AskType]
      BY <2>0, <2>2 DEF AskCancelled, Decide, NoAsk, AskType, Shown
    <3>3. \A a \in Asker : \/ asks'[a] = asks[a]
                            \/ asks'[a].phase # "answered"
                            \/ asks'[a].state = "runtime_unknown"
      BY <2>0, <2>2 DEF AskCancelled, Decide, NoAsk, AskType
    <3>4. AnswersAreRecent'
      BY <3>1, <3>3 DEF ObserverInv, AnswersAreRecent, Sighted
    <3> QED
      BY <3>1, <3>2, <3>4 DEF ObserverInv, ObserverTypeOK, OpenNow, FlightsAreYoung,
           CacheIsDated
  <2>3. CASE ObserveForDisplay
    <3>0. UNCHANGED <<seconds, container, openAt, cache, asks>>
      BY <2>3 DEF ObserveForDisplay
    <3>1. PICK q \in Query : RefreshSnapshot(q)
      BY <2>3 DEF ObserveForDisplay
    <3>2. /\ flights' \in [Query -> [on : BOOLEAN, at : Nat, saw : Shown]]
          /\ FlightsAreYoung'
      BY <3>0, <3>1, FlightStarts
    <3> QED
      BY <3>0, <3>2 DEF ObserverInv, ObserverTypeOK, OpenNow, CacheIsDated, AnswersAreRecent
  <2>4. ASSUME NEW q \in Query, RefreshReads(q)
        PROVE  ObserverInv'
    <3> DEFINE shown == PresentRuntime(ProbeNative(container))
    <3>0. UNCHANGED <<seconds, container, openAt, cache, asks>> /\ flights[q].on
      BY <2>4 DEF RefreshReads
    <3>1. shown \in Shown /\ shown # "none" /\ (Sighted(shown) => openAt = seconds)
      BY <2>0, ShownType DEF ObserverInv, OpenNow, Sighted
    <3>2. flights' = [flights EXCEPT ![q].saw = shown]
      BY <2>4 DEF RefreshReads
    <3> HIDE DEF shown
    <3>3. /\ flights' \in [Query -> [on : BOOLEAN, at : Nat, saw : Shown]]
      BY <2>0, <3>1, <3>2
    <3>4. FlightsAreYoung'
      BY <2>0, <3>0, <3>1, <3>2 DEF ObserverInv, FlightsAreYoung, Sighted, MaySwitchTo
    <3> QED
      BY <3>0, <3>3, <3>4 DEF ObserverInv, ObserverTypeOK, OpenNow, CacheIsDated,
           AnswersAreRecent
  <2>5. ASSUME NEW q \in Query, RefreshEnds(q)
        PROVE  ObserverInv'
    <3>0. UNCHANGED <<seconds, container, openAt>> /\ flights[q].saw # "none"
      BY <2>5 DEF RefreshEnds
    <3>1. Sighted(flights[q].saw) => seconds <= openAt + ProbeTime
      BY <2>0, <3>0 DEF ObserverInv, FlightsAreYoung
    <3>2. /\ cache'.expires = seconds + CacheTTL /\ cache'.state = flights[q].saw
          /\ flights' = [flights EXCEPT ![q] = NoFlight]
      BY <2>5 DEF RefreshEnds
    <3>3. CacheIsDated' /\ cache'.expires \in Nat /\ cache'.state \in Shown
      BY <2>0, <3>0, <3>1, <3>2 DEF CacheIsDated, Sighted, MaySwitchTo
    <3>4. FlightsAreYoung' /\ flights' \in [Query -> [on : BOOLEAN, at : Nat, saw : Shown]]
      BY <2>0, <3>0, <3>2 DEF ObserverInv, FlightsAreYoung, NoFlight, Shown, Sighted, MaySwitchTo
    <3>5. asks' \in [Asker -> AskType]
      BY <2>0, <2>5 DEF RefreshEnds, AskType
    <3>6. AnswersAreRecent'
      <4> SUFFICES ASSUME NEW r \in Asker, asks'[r].phase = "answered"
                   PROVE  /\ asks'[r].state # "none"
                          /\ Sighted(asks'[r].state) =>
                               \/ seconds < openAt + CacheTTL + ProbeTime
                               \/ seconds <= openAt + ProbeTime
        BY <3>0 DEF AnswersAreRecent, Sighted, MaySwitchTo
      <4>1. CASE asks[r].phase = "waiting" /\ asks[r].query = q
        <5>1. asks'[r] = [asks[r] EXCEPT !.phase = "answered", !.state = flights[q].saw]
          BY <2>5, <4>1 DEF RefreshEnds
        <5>2. asks'[r].state = flights[q].saw
          BY <2>0, <5>1 DEF AskType
        <5> QED
          BY <3>0, <3>1, <5>2
      <4>2. CASE ~(asks[r].phase = "waiting" /\ asks[r].query = q)
        <5>1. asks'[r] = asks[r]
          BY <2>5, <4>2 DEF RefreshEnds
        <5> QED
          BY <5>1 DEF ObserverInv, AnswersAreRecent
      <4> QED
        BY <4>1, <4>2
    <3> QED
      BY <2>0, <3>0, <3>3, <3>4, <3>5, <3>6 DEF ObserverInv, ObserverTypeOK, OpenNow
  <2>6. CASE Second
    <3>1. /\ UNCHANGED <<container, cache, flights, asks>> /\ seconds' = seconds + 1
          /\ openAt' = IF MaySwitchTo(PresentRuntime(ProbeNative(container)))
                       THEN seconds + 1 ELSE openAt
          /\ \A q \in Query : flights[q].on => seconds - flights[q].at < ProbeTime
          /\ \A r \in Asker : asks[r].phase # "answered"
      BY <2>6 DEF Second
    <3>2. openAt <= openAt' /\ openAt' \in Nat /\ openAt' <= seconds'
      <4>1. openAt' = seconds + 1 \/ openAt' = openAt
        BY <3>1
      <4> QED
        BY <2>0, <3>1, <4>1
    <3>3. OpenNow'
      BY <2>0, <3>1 DEF OpenNow
    <3>4. FlightsAreYoung'
      BY <2>0, <3>1, <3>2 DEF ObserverInv, FlightsAreYoung
    <3>5. CacheIsDated'
      BY <2>0, <3>1, <3>2 DEF ObserverInv, CacheIsDated
    <3>6. AnswersAreRecent'
      BY <3>1 DEF AnswersAreRecent
    <3> QED
      BY <2>0, <3>1, <3>2, <3>3, <3>4, <3>5, <3>6 DEF ObserverInv, ObserverTypeOK
  <2>7. CASE RuntimeChanges
    <3>1. UNCHANGED <<seconds, cache, flights, asks>>
      BY <2>7 DEF RuntimeChanges
    <3>2. openAt <= openAt' /\ openAt' \in Nat /\ openAt' <= seconds
          /\ container' \in RuntimeState /\ OpenNow'
      BY <2>0, <2>7, <3>1 DEF RuntimeChanges, OpenNow
    <3>3. FlightsAreYoung' /\ CacheIsDated'
      BY <2>0, <3>1, <3>2 DEF ObserverInv, FlightsAreYoung, CacheIsDated
    <3>4. AnswersAreRecent'
      <4>1. /\ seconds < openAt + CacheTTL + ProbeTime =>
                  seconds < openAt' + CacheTTL + ProbeTime
            /\ seconds <= openAt + ProbeTime => seconds <= openAt' + ProbeTime
        BY <2>0, <3>2, LaterSight
      <4> QED
        BY <3>1, <4>1 DEF ObserverInv, AnswersAreRecent
    <3> QED
      BY <2>0, <3>1, <3>2, <3>3, <3>4 DEF ObserverInv, ObserverTypeOK
  <2>8. CASE UNCHANGED observerVars
    BY <2>8 DEF observerVars, ObserverInv, ObserverTypeOK, OpenNow, FlightsAreYoung,
         CacheIsDated, AnswersAreRecent
  <2> QED
    BY <2>1, <2>2, <2>3, <2>4, <2>5, <2>6, <2>7, <2>8 DEF ObserverNext
<1> QED
  BY <1>1, <1>2, PTL DEF ObserverSpec

\* A route change that finds the account selectable decides on a moment no
\* further back than a cache period and a refresh (Observe, refreshSnapshot).
THEOREM SwitchesAreRecent == ObserverSpec => []SwitchesOnRecentSight
<1>1. ObserverInv => SwitchesOnRecentSight
  <2> SUFFICES ASSUME ObserverInv, NEW r \in Asker, asks[r].phase = "answered",
                      MaySwitchTo(asks[r].state), asks[r].state # "runtime_unknown"
               PROVE  \/ seconds - openAt < CacheTTL + ProbeTime
                      \/ seconds - openAt <= ProbeTime
    BY DEF SwitchesOnRecentSight
  <2>1. seconds < openAt + CacheTTL + ProbeTime \/ seconds <= openAt + ProbeTime
    BY DEF ObserverInv, AnswersAreRecent, Sighted
  <2> QED
    BY <2>1, ObserverAssumption DEF ObserverInv, ObserverTypeOK
<1> QED
  BY <1>1, SightsAreDated, PTL

-----------------------------------------------------------------------------
(* The gateway: what it admits and what it refuses. *)

\* The end of the natural week that holds t (QuotaWeekEnd).
EndOfWeek(t) == (t \div QuotaWeek + 1) * QuotaWeek

\* Division by one number keeps the order.
LEMMA DivMonotone ==
  ASSUME NEW a \in Nat, NEW b \in Nat, a <= b, NEW q \in Nat \ {0}
  PROVE  (a \div q) \in Nat /\ (b \div q) \in Nat /\ a \div q <= b \div q
  OBVIOUS

\* A later moment is in a week that does not end earlier.
LEMMA EndOfWeekMonotone ==
  ASSUME NEW a \in Nat, NEW b \in Nat, a <= b
  PROVE  EndOfWeek(a) \in Nat /\ EndOfWeek(a) <= EndOfWeek(b)
  BY DivMonotone, EnforcementAssumption DEF EndOfWeek

EnforceTypeOK ==
    /\ clock \in Nat /\ listed \in BOOLEAN /\ unlistedAt \in Nat
    /\ record \in [found : BOOLEAN, over : BOOLEAN, weekEnd : Nat]
    /\ overAt \in Nat /\ success \in Nat
    /\ writing \in {"record", "success"}
    /\ loader \in [at : {"idle", "auth", "quota", "heartbeat"}, now : Nat]
    /\ auth \in [loadedAt : Nat, key : BOOLEAN]
    /\ limits \in [loadedAt : Nat,
                   record : [found : BOOLEAN, over : BOOLEAN, weekEnd : Nat]]
    /\ beat \in Nat

\* Nothing is dated later than now.
NotAhead ==
    /\ loader.now <= clock /\ auth.loadedAt <= clock
    /\ overAt <= clock

\* A refresh dates what it loads from its start, so a key that is still held
\* and no longer listed was taken out after that.
HeldSinceListed == auth.key /\ ~listed => auth.loadedAt <= unlistedAt

\* The file says "over" now, for a week that is not past; what the gateway
\* holds says so of the file at the start of its refresh or later.
OverDated ==
    /\ record.over => overAt = clock /\ record.weekEnd <= EndOfWeek(overAt)
    /\ limits.record.over => /\ 0 < overAt /\ limits.loadedAt <= overAt
                             /\ limits.record.weekEnd <= EndOfWeek(overAt)

EnforceInv ==
    EnforceTypeOK /\ clock > 0 /\ NotAhead /\ HeldSinceListed /\ OverDated
    /\ (record.over => record.found)

\* The inductive invariant behind both promises of the gateway: every date is
\* in the past, a held key was listed when its refresh began, and a held
\* "over" is backed by the file after its refresh began, in the same week.
THEOREM EnforceInvariance == EnforceSpec => []EnforceInv
<1>1. EnforceInit => EnforceInv
  BY EnforcementAssumption
  DEF EnforceInit, EnforceInv, EnforceTypeOK, NotAhead, HeldSinceListed, OverDated,
      NoRecord, LoaderIdle
<1>2. EnforceInv /\ [EnforceNext]_enforceVars => EnforceInv'
  <2> SUFFICES ASSUME EnforceInv, [EnforceNext]_enforceVars PROVE EnforceInv'
    OBVIOUS
  <2> USE EnforcementAssumption
      DEF EnforceInv, EnforceTypeOK, NotAhead, HeldSinceListed, OverDated
  <2>1. CASE PublishKeys
    BY <2>1 DEF PublishKeys, engine
  <2>2. CASE WriteHeartbeat \/ RoundFails
    BY <2>2 DEF WriteHeartbeat, RoundFails, engine
  <2>3. CASE PlaneTick
    <3>1. EndOfWeek(clock) <= EndOfWeek(clock + 1) /\ EndOfWeek(clock) \in Nat
            /\ EndOfWeek(clock + 1) \in Nat
      BY EndOfWeekMonotone
    <3>2. EndOfWeek(overAt) <= EndOfWeek(overAt') /\ EndOfWeek(overAt) \in Nat
            /\ EndOfWeek(overAt') \in Nat
      BY <2>3, EndOfWeekMonotone DEF PlaneTick
    <3> QED
      BY <2>3, <3>1, <3>2 DEF PlaneTick, engine
  <2>4. ASSUME NEW found \in BOOLEAN, NEW over \in BOOLEAN, WriteRecord(found, over)
        PROVE  EnforceInv'
    <3>1. QuotaWeekEnd = EndOfWeek(clock) /\ EndOfWeek(clock) \in Nat
      BY EndOfWeekMonotone DEF QuotaWeekEnd, EndOfWeek
    <3>2. EndOfWeek(overAt) <= EndOfWeek(overAt') /\ EndOfWeek(overAt) \in Nat
            /\ EndOfWeek(overAt') \in Nat
      BY <2>4, EndOfWeekMonotone DEF WriteRecord
    <3> QED
      BY <2>4, <3>1, <3>2 DEF WriteRecord, engine
  <2>5. CASE RefreshBegins
    BY <2>5 DEF RefreshBegins, planeFiles, engine
  <2>6. CASE LoadAuth
    BY <2>6 DEF LoadAuth, Loaded, LoaderIdle, planeFiles
  <2>7. CASE LoadQuota
    BY <2>7 DEF LoadQuota, Loaded, LoaderIdle, planeFiles
  <2>8. CASE LoadHeartbeat \/ LoadFails
    BY <2>8 DEF LoadHeartbeat, LoadFails, Loaded, LoaderIdle, planeFiles, engine
  <2>9. CASE Restart
    BY <2>9 DEF Restart, NoRecord, LoaderIdle, planeFiles
  <2>10. CASE UNCHANGED enforceVars
    BY <2>10 DEF enforceVars
  <2> QED
    BY <2>1, <2>2, <2>3, <2>4, <2>5, <2>6, <2>7, <2>8, <2>9, <2>10 DEF EnforceNext
<1> QED
  BY <1>1, <1>2, PTL DEF EnforceSpec

\* A key that was taken out of the snapshot is accepted for at most AuthMaxAge
\* more, whatever the loader fails to read (Refresh, Authorize).
THEOREM StaleKeysExpireSafe == EnforceSpec => []StaleKeysExpire
<1>1. EnforceInv => StaleKeysExpire
  BY EnforcementAssumption
  DEF EnforceInv, EnforceTypeOK, NotAhead, HeldSinceListed, StaleKeysExpire, Accepted, AuthFresh
<1> QED
  BY <1>1, EnforceInvariance, PTL

\* A request is refused for quota on grounds the file gave within FailOpenAfter
\* and within the week that has not ended (Authorize's fail-open checks).
THEOREM RefusalsGrounded == EnforceSpec => []RefusedOnRecentGrounds
<1>1. EnforceInv => RefusedOnRecentGrounds
  <2> SUFFICES ASSUME EnforceInv, Exceeded
               PROVE  /\ overAt > 0 /\ clock - overAt <= FailOpenAfter
                      /\ clock < EndOfWeek(overAt)
    BY DEF RefusedOnRecentGrounds, EndOfWeek
  <2>1. EndOfWeek(overAt) \in Nat
    BY EndOfWeekMonotone DEF EnforceInv, EnforceTypeOK
  <2> QED
    BY <2>1, EnforcementAssumption
    DEF EnforceInv, EnforceTypeOK, NotAhead, OverDated, Exceeded, QuotaCounts
<1> QED
  BY <1>1, EnforceInvariance, PTL

-----------------------------------------------------------------------------
(* Runtime jobs: the history is trimmed, and no two unfinished jobs have one *)
(* name for their targets.                                                   *)

\* An order of the jobs that has all of S in it.
OrderOf(s, ids, S) ==
    /\ s \in Seq(Nat) /\ ToSet(s) \subseteq ToSet(ids) /\ S \subseteq ToSet(s)

\* The last index of a sequence and the others.
LEMMA LastIndex ==
  ASSUME NEW n \in Nat, n >= 1
  PROVE  /\ \A i \in 1..n : i = n \/ i \in 1..(n - 1)
         /\ n \in 1..n /\ \A i \in 1..(n - 1) : i \in 1..n
OBVIOUS

\* One turn drops a finished job only.
LEMMA TurnKeeps ==
  ASSUME NEW js, NEW ids \in Seq(Nat), NEW s \in Seq(Nat),
         NEW S, \A id \in S : js[id].status \notin Terminal,
         OrderOf(s, ids, S)
  PROVE  OrderOf(TrimOldest(js, s), ids, S)
<1>0. History \in Nat /\ History >= 1
  BY JobsAssumption
<1>1. CASE Len(s) <= History
  BY <1>1 DEF TrimOldest
<1>2. CASE ~(Len(s) <= History)
  <2>1. Len(s) \in Nat /\ Len(s) >= 1 /\ DOMAIN s = 1..Len(s) /\ s # <<>>
    BY <1>0, <1>2
  <2>2. Head(s) = s[1] /\ Tail(s) \in Seq(Nat) /\ Len(Tail(s)) = Len(s) - 1
        /\ \A i \in 1..(Len(s) - 1) : Tail(s)[i] = s[i + 1]
    BY <2>1, HeadTailProperties
  <2>3. DOMAIN Tail(s) = 1..(Len(s) - 1) /\ Head(s) \in Nat
    BY <2>1, <2>2
  <2>4. \A x \in ToSet(s) : x = Head(s) \/ x \in ToSet(Tail(s))
    <3> SUFFICES ASSUME NEW i \in 1..Len(s), i # 1
                 PROVE  s[i] \in ToSet(Tail(s))
      BY <2>1, <2>2 DEF ToSet
    <3>1. i - 1 \in 1..(Len(s) - 1) /\ (i - 1) + 1 = i
      BY <2>1
    <3>2. Tail(s)[i - 1] = s[i]
      BY <2>2, <3>1
    <3> QED
      BY <2>3, <3>1, <3>2 DEF ToSet
  <2>5. ToSet(Tail(s)) \subseteq ToSet(s) /\ Head(s) \in ToSet(s)
    <3>1. \A i \in 1..(Len(s) - 1) : i + 1 \in 1..Len(s)
      BY <2>1
    <3>2. ASSUME NEW i \in 1..(Len(s) - 1) PROVE Tail(s)[i] \in ToSet(s)
      BY <2>1, <2>2, <3>1 DEF ToSet
    <3>3. 1 \in DOMAIN s
      BY <2>1
    <3>4. Head(s) \in ToSet(s)
      BY <2>2, <3>3 DEF ToSet
    <3> QED
      BY <2>3, <3>2, <3>4 DEF ToSet
  <2>6. CASE js[Head(s)].status \in Terminal
    <3>1. TrimOldest(js, s) = Tail(s)
      BY <1>2, <2>6 DEF TrimOldest
    <3> QED
      BY <2>2, <2>4, <2>5, <2>6, <3>1 DEF OrderOf
  <2>7. CASE js[Head(s)].status \notin Terminal
    <3> DEFINE t == Append(Tail(s), Head(s))
    <3>1. TrimOldest(js, s) = t
      BY <1>2, <2>7 DEF TrimOldest
    <3>2. t \in Seq(Nat) /\ Len(t) = Len(s) /\ DOMAIN t = 1..Len(s)
          /\ t[Len(s)] = Head(s) /\ \A i \in 1..(Len(s) - 1) : t[i] = Tail(s)[i]
      BY <2>1, <2>2, <2>3, AppendProperties
    <3> HIDE DEF t
    <3>3. /\ \A i \in 1..Len(s) : i = Len(s) \/ i \in 1..(Len(s) - 1)
          /\ Len(s) \in 1..Len(s) /\ \A i \in 1..(Len(s) - 1) : i \in 1..Len(s)
      BY <2>1, LastIndex
    <3>4. ToSet(t) \subseteq ToSet(Tail(s)) \cup {Head(s)}
      <4> SUFFICES ASSUME NEW i \in 1..Len(s) PROVE t[i] \in ToSet(Tail(s)) \cup {Head(s)}
        BY <3>2 DEF ToSet
      <4>1. CASE i = Len(s)
        BY <3>2, <4>1
      <4>2. CASE i \in 1..(Len(s) - 1)
        BY <2>3, <3>2, <4>2 DEF ToSet
      <4> QED
        BY <3>3, <4>1, <4>2
    <3>5. Head(s) \in ToSet(t)
      BY <3>2, <3>3 DEF ToSet
    <3>6. ToSet(Tail(s)) \subseteq ToSet(t)
      <4> SUFFICES ASSUME NEW i \in 1..(Len(s) - 1) PROVE Tail(s)[i] \in ToSet(t)
        BY <2>3 DEF ToSet
      <4> QED
        BY <3>2, <3>3 DEF ToSet
    <3> QED
      BY <2>4, <2>5, <3>1, <3>2, <3>4, <3>5, <3>6 DEF OrderOf
  <2> QED
    BY <2>6, <2>7
<1> QED
  BY <1>1, <1>2

\* The turns of the loop.
Turns(js, ids, n, f) ==
    f = [k \in 0..n |-> IF k = 0 THEN ids ELSE TrimOldest(js, f[k - 1])]

\* The turns can be taken one after the other.
LEMMA TurnsExist == \A js, ids : \A n \in Nat : \E f : Turns(js, ids, n, f)
<1> SUFFICES ASSUME NEW js, NEW ids PROVE \A n \in Nat : \E f : Turns(js, ids, n, f)
  OBVIOUS
<1> DEFINE P == {n \in Nat : \E f : Turns(js, ids, n, f)}
<1>1. 0 \in P
  <2> DEFINE f == [k \in 0..0 |-> ids]
  <2>1. f = [k \in 0..0 |-> IF k = 0 THEN ids ELSE TrimOldest(js, f[k - 1])]
    OBVIOUS
  <2> QED
    BY <2>1 DEF Turns
<1>2. ASSUME NEW n \in Nat, n \in P PROVE n + 1 \in P
  <2>1. PICK g : g = [k \in 0..n |-> IF k = 0 THEN ids ELSE TrimOldest(js, g[k - 1])]
    BY <1>2 DEF Turns
  <2> DEFINE f == [k \in 0..(n + 1) |-> IF k = n + 1 THEN TrimOldest(js, g[n]) ELSE g[k]]
  <2>2. ASSUME NEW k \in 0..(n + 1)
        PROVE  f[k] = IF k = 0 THEN ids ELSE TrimOldest(js, f[k - 1])
    <3>1. CASE k = n + 1
      <4>1. k # 0 /\ k - 1 = n /\ n \in 0..(n + 1) /\ n # n + 1
        BY <3>1
      <4>2. f[k] = TrimOldest(js, g[n]) /\ f[k - 1] = g[n]
        BY <3>1, <4>1
      <4> QED
        BY <4>1, <4>2
    <3>2. CASE k # n + 1
      <4>1. k \in 0..n
        BY <3>2
      <4>2. f[k] = g[k] /\ g[k] = IF k = 0 THEN ids ELSE TrimOldest(js, g[k - 1])
        BY <2>1, <3>2, <4>1
      <4>3. k # 0 => f[k - 1] = g[k - 1]
        BY <4>1
      <4> QED
        BY <4>2, <4>3
    <3> QED
      BY <3>1, <3>2
  <2>3. f = [k \in 0..(n + 1) |-> IF k = 0 THEN ids ELSE TrimOldest(js, f[k - 1])]
    BY <2>2
  <2>4. \E h : h = [k \in 0..(n + 1) |-> IF k = 0 THEN ids ELSE TrimOldest(js, h[k - 1])]
    BY <2>3
  <2> QED
    BY <2>4 DEF Turns
<1> HIDE DEF P
<1>3. Nat \subseteq P
  BY <1>1, <1>2, InductionOverNat
<1> QED
  BY <1>3 DEF P

\* Trimming is the last of the turns.
LEMMA TrimIs ==
  ASSUME NEW js, NEW ids, \E f : Turns(js, ids, Len(ids), f)
  PROVE  \E f : Turns(js, ids, Len(ids), f) /\ Trim(js, ids) = f[Len(ids)]
BY Zenon DEF Turns, Trim

\* Trimming adds no job and drops no unfinished one.
LEMMA TrimKeeps ==
  ASSUME NEW js, NEW ids \in Seq(Nat), NEW S, S \subseteq ToSet(ids),
         \A id \in S : js[id].status \notin Terminal
  PROVE  OrderOf(Trim(js, ids), ids, S)
<1>0. Len(ids) \in Nat
  OBVIOUS
<1>1. PICK f : Turns(js, ids, Len(ids), f) /\ Trim(js, ids) = f[Len(ids)]
  BY <1>0, TrimIs, TurnsExist
<1> DEFINE P == {n \in Nat : n <= Len(ids) => OrderOf(f[n], ids, S)}
<1>2. 0 \in P
  <2>1. 0 \in 0..Len(ids)
    BY <1>0
  <2>2. f[0] = ids
    BY <1>1, <2>1 DEF Turns
  <2> QED
    BY <2>2 DEF OrderOf
<1>3. ASSUME NEW n \in Nat, n \in P PROVE n + 1 \in P
  <2> SUFFICES ASSUME n + 1 <= Len(ids) PROVE OrderOf(f[n + 1], ids, S)
    OBVIOUS
  <2>1. n + 1 \in 0..Len(ids) /\ n + 1 # 0 /\ (n + 1) - 1 = n /\ n <= Len(ids)
    BY <1>0
  <2>2. f[n + 1] = TrimOldest(js, f[n])
    BY <1>1, <2>1 DEF Turns
  <2>3. OrderOf(f[n], ids, S)
    BY <1>3, <2>1
  <2>4. f[n] \in Seq(Nat)
    BY <2>3 DEF OrderOf
  <2> QED
    BY <2>2, <2>3, <2>4, TurnKeeps
<1> HIDE DEF P
<1>4. Len(ids) \in P
  BY <1>0, <1>2, <1>3, InductionOverNat
<1> QED
  BY <1>0, <1>1, <1>4 DEF P

JobStatus == {"queued", "running", "cancelling"} \cup Terminal
Job == [action : JobAction, target : JobTarget, status : JobStatus, ctx : {"live", "cancelled"}]

JobTypeOK ==
    /\ submitted \in Nat /\ order \in Seq(Nat) /\ waiting \in Seq(Nat)
    /\ DOMAIN jobs = ToSet(order)
    /\ \A id \in DOMAIN jobs : id \in 1..submitted /\ jobs[id] \in Job
    /\ DOMAIN tasks \subseteq 1..submitted

\* manager.active has the unfinished jobs, each under its target, and no two of
\* its targets overlap.
ActiveAgrees ==
    /\ \A t \in DOMAIN active : /\ active[t] \in DOMAIN jobs
                                /\ jobs[active[t]].status \notin Terminal
                                /\ jobs[active[t]].target = t
    /\ \A id \in DOMAIN jobs : jobs[id].status \notin Terminal =>
           jobs[id].target \in DOMAIN active /\ active[jobs[id].target] = id
    /\ \A t, u \in DOMAIN active : t # u => ~Overlap(t, u)

\* A job in the pool's queue is there once, its task has not begun, and if it
\* was finished meanwhile its context says so.
QueueAgrees ==
    /\ \A i \in DOMAIN waiting : waiting[i] \in DOMAIN tasks /\ tasks[waiting[i]] = "pending"
    /\ \A i, j \in DOMAIN waiting : waiting[i] = waiting[j] => i = j
    /\ \A i \in DOMAIN waiting : waiting[i] \in DOMAIN jobs =>
           \/ jobs[waiting[i]].status \notin Terminal
           \/ jobs[waiting[i]].ctx = "cancelled"

JobsInv == JobTypeOK /\ ActiveAgrees /\ QueueAgrees

\* A job of the given record is finished: its target is free, the others are
\* as they were, and trimming takes finished jobs only.
LEMMA FinishKeeps ==
  ASSUME JobTypeOK, ActiveAgrees, NEW id \in DOMAIN jobs, jobs[id].status \notin Terminal,
         NEW js, DOMAIN js = DOMAIN jobs, js[id] \in Job, js[id].status \in Terminal,
         \A k \in DOMAIN jobs \ {id} : js[k] = jobs[k],
         active' = Without(active, jobs[id].target), Kept(js, order), submitted' = submitted,
         waiting' = waiting, DOMAIN tasks' \subseteq DOMAIN tasks
  PROVE  /\ JobTypeOK' /\ ActiveAgrees'
         /\ \A k \in DOMAIN jobs' : k \in DOMAIN jobs /\ jobs'[k] = js[k]
<1> DEFINE S == {k \in DOMAIN jobs : js[k].status \notin Terminal}
<1>0. order \in Seq(Nat) /\ DOMAIN jobs = ToSet(order)
  BY DEF JobTypeOK
<1>1. OrderOf(Trim(js, order), order, S)
  <2>1. S \subseteq ToSet(order) /\ \A k \in S : js[k].status \notin Terminal
    BY <1>0
  <2> HIDE DEF S
  <2> QED
    BY <1>0, <2>1, TrimKeeps
<1>2. /\ order' \in Seq(Nat) /\ DOMAIN jobs' = ToSet(order') /\ ToSet(order') \subseteq DOMAIN jobs
      /\ S \subseteq DOMAIN jobs' /\ \A k \in DOMAIN jobs' : jobs'[k] = js[k]
  BY <1>0, <1>1 DEF OrderOf, Kept
<1>3. DOMAIN active' = DOMAIN active \ {jobs[id].target}
      /\ \A t \in DOMAIN active' : active'[t] = active[t]
  BY DEF Without
<1>4. \A k \in DOMAIN jobs : js[k] \in Job /\ k \in 1..submitted
  BY DEF JobTypeOK
<1>5. JobTypeOK'
  BY <1>2, <1>4 DEF JobTypeOK
<1>6. ASSUME NEW t \in DOMAIN active'
      PROVE  /\ active'[t] \in DOMAIN jobs' /\ jobs'[active'[t]].status \notin Terminal
             /\ jobs'[active'[t]].target = t
  <2>1. /\ active'[t] = active[t] /\ active[t] \in DOMAIN jobs /\ active[t] # id
        /\ jobs[active[t]].status \notin Terminal /\ jobs[active[t]].target = t
    BY <1>3, <1>6 DEF ActiveAgrees
  <2>2. js[active[t]] = jobs[active[t]]
    BY <2>1
  <2> QED
    BY <1>2, <2>1, <2>2
<1>7. ASSUME NEW k \in DOMAIN jobs', jobs'[k].status \notin Terminal
      PROVE  jobs'[k].target \in DOMAIN active' /\ active'[jobs'[k].target] = k
  <2>1. k \in DOMAIN jobs /\ jobs'[k] = js[k] /\ k # id
    BY <1>2, <1>7
  <2>2. jobs'[k] = jobs[k]
    BY <2>1
  <2>3. /\ jobs[k].target \in DOMAIN active /\ active[jobs[k].target] = k
        /\ active[jobs[id].target] = id
    BY <1>7, <2>1, <2>2 DEF ActiveAgrees
  <2>4. jobs[k].target # jobs[id].target
    BY <2>1, <2>3
  <2> QED
    BY <1>3, <2>2, <2>3, <2>4
<1>8. \A t, u \in DOMAIN active' : t # u => ~Overlap(t, u)
  BY <1>3 DEF ActiveAgrees
<1>9. ActiveAgrees'
  BY <1>6, <1>7, <1>8 DEF ActiveAgrees, Overlap
<1> QED
  BY <1>2, <1>5, <1>9

\* The inductive invariant behind JobsExclusive.
THEOREM JobsAgree == JobsSpec => []JobsInv
<1>1. JobsInit => JobsInv
  <2> SUFFICES ASSUME JobsInit PROVE JobsInv
    OBVIOUS
  <2>1. /\ jobs = <<>> /\ order = <<>> /\ active = <<>> /\ waiting = <<>> /\ tasks = <<>>
        /\ submitted = 0
    BY DEF JobsInit
  <2>2. DOMAIN jobs = {} /\ ToSet(order) = {} /\ DOMAIN active = {} /\ DOMAIN waiting = {}
        /\ DOMAIN tasks = {}
    BY <2>1 DEF ToSet
  <2> QED
    BY <2>1, <2>2 DEF JobsInv, JobTypeOK, ActiveAgrees, QueueAgrees
<1>2. JobsInv /\ [JobsNext]_jobVars => JobsInv'
  <2> SUFFICES ASSUME JobsInv, [JobsNext]_jobVars PROVE JobsInv'
    OBVIOUS
  <2> USE DEF JobsInv
  <2>0. waiting \in Seq(Nat) /\ Len(waiting) \in Nat /\ DOMAIN waiting = 1..Len(waiting)
        /\ submitted \in Nat
    BY DEF JobTypeOK
  <2>1. ASSUME NEW action \in JobAction, NEW target \in JobTarget, Submit(action, target)
        PROVE  JobsInv'
    <3> DEFINE id == submitted + 1
    <3> DEFINE job == [action |-> action, target |-> target, status |-> "queued", ctx |-> "live"]
    <3>1. /\ jobs' = With(jobs, id, job) /\ order' = Append(order, id)
          /\ active' = With(active, target, id) /\ waiting' = Append(waiting, id)
          /\ tasks' = With(tasks, id, "pending") /\ submitted' = id
          /\ FindConflict(target) = {}
      BY <2>1 DEF Submit
    <3>2. id \in Nat /\ id \notin 1..submitted /\ 1..id = 1..submitted \cup {id}
      BY <2>0
    <3>3. job \in Job /\ job.status = "queued" /\ job.target = target /\ "queued" \notin Terminal
      BY DEF Job, JobStatus, Terminal
    <3> HIDE DEF id, job
    <3>4. id \notin DOMAIN jobs /\ id \notin DOMAIN tasks
      BY <3>2 DEF JobTypeOK
    <3>5. /\ DOMAIN jobs' = DOMAIN jobs \cup {id} /\ jobs'[id] = job
          /\ \A k \in DOMAIN jobs : jobs'[k] = jobs[k]
      BY <3>1, <3>4 DEF With
    <3>6. /\ DOMAIN active' = DOMAIN active \cup {target} /\ active'[target] = id
          /\ \A t \in DOMAIN active : t # target => active'[t] = active[t]
      BY <3>1 DEF With
    <3>7. /\ DOMAIN tasks' = DOMAIN tasks \cup {id} /\ tasks'[id] = "pending"
          /\ \A k \in DOMAIN tasks : tasks'[k] = tasks[k]
      BY <3>1, <3>4 DEF With
    <3>8. \A t \in DOMAIN active : t # target /\ ~Overlap(t, target) /\ ~Overlap(target, t)
      BY <3>1 DEF FindConflict, Overlap
    <3>9. order' \in Seq(Nat) /\ ToSet(order') = ToSet(order) \cup {id}
      <4>1. order \in Seq(Nat) /\ Len(order) \in Nat /\ DOMAIN order = 1..Len(order)
        BY DEF JobTypeOK
      <4>2. /\ order' \in Seq(Nat) /\ DOMAIN order' = 1..(Len(order) + 1)
            /\ order'[Len(order) + 1] = id /\ \A i \in 1..Len(order) : order'[i] = order[i]
        BY <3>1, <3>2, <4>1, AppendProperties
      <4>3. /\ \A i \in 1..(Len(order) + 1) : i = Len(order) + 1 \/ i \in 1..Len(order)
            /\ Len(order) + 1 \in 1..(Len(order) + 1)
            /\ \A i \in 1..Len(order) : i \in 1..(Len(order) + 1)
        BY <4>1
      <4>4. ToSet(order') \subseteq ToSet(order) \cup {id}
        BY <4>1, <4>2, <4>3 DEF ToSet
      <4>5. ToSet(order) \subseteq ToSet(order') /\ id \in ToSet(order')
        BY <4>1, <4>2, <4>3 DEF ToSet
      <4> QED
        BY <4>2, <4>4, <4>5
    <3>10. /\ waiting' \in Seq(Nat) /\ DOMAIN waiting' = 1..(Len(waiting) + 1)
           /\ waiting'[Len(waiting) + 1] = id
           /\ \A i \in 1..Len(waiting) : waiting'[i] = waiting[i]
      BY <2>0, <3>1, <3>2, AppendProperties
    <3>11. \A i \in 1..(Len(waiting) + 1) : i = Len(waiting) + 1 \/ i \in DOMAIN waiting
      BY <2>0
    <3>12. JobTypeOK'
      BY <3>1, <3>2, <3>3, <3>5, <3>7, <3>9, <3>10 DEF JobTypeOK
    <3>13. ASSUME NEW t \in DOMAIN active'
           PROVE  /\ active'[t] \in DOMAIN jobs' /\ jobs'[active'[t]].status \notin Terminal
                  /\ jobs'[active'[t]].target = t
      <4>1. CASE t = target
        BY <3>3, <3>5, <3>6, <4>1
      <4>2. CASE t # target
        BY <3>5, <3>6, <3>13, <4>2 DEF ActiveAgrees
      <4> QED
        BY <4>1, <4>2
    <3>14. ASSUME NEW k \in DOMAIN jobs', jobs'[k].status \notin Terminal
           PROVE  jobs'[k].target \in DOMAIN active' /\ active'[jobs'[k].target] = k
      <4>1. CASE k = id
        BY <3>3, <3>5, <3>6, <4>1
      <4>2. CASE k # id
        <5>1. k \in DOMAIN jobs /\ jobs'[k] = jobs[k]
          BY <3>5, <4>2
        <5>2. jobs[k].target \in DOMAIN active /\ active[jobs[k].target] = k
          BY <3>14, <5>1 DEF ActiveAgrees
        <5> QED
          BY <3>6, <3>8, <5>1, <5>2
      <4> QED
        BY <4>1, <4>2
    <3>15. \A t, u \in DOMAIN active' : t # u => ~Overlap(t, u)
      BY <3>6, <3>8 DEF ActiveAgrees
    <3>16. ActiveAgrees'
      BY <3>13, <3>14, <3>15 DEF ActiveAgrees, Overlap
    <3>17. QueueAgrees'
      <4>1. ASSUME NEW i \in DOMAIN waiting'
            PROVE  /\ waiting'[i] \in DOMAIN tasks' /\ tasks'[waiting'[i]] = "pending"
                   /\ waiting'[i] \in DOMAIN jobs' => \/ jobs'[waiting'[i]].status \notin Terminal
                                                      \/ jobs'[waiting'[i]].ctx = "cancelled"
        <5>1. CASE i = Len(waiting) + 1
          BY <3>3, <3>5, <3>7, <3>10, <5>1
        <5>2. CASE i \in DOMAIN waiting
          <6>1. waiting'[i] = waiting[i] /\ waiting[i] \in DOMAIN tasks /\ tasks[waiting[i]] = "pending"
            BY <2>0, <3>10, <5>2 DEF QueueAgrees
          <6>2. waiting[i] # id
            BY <3>4, <6>1
          <6>3. waiting[i] \in DOMAIN jobs' => waiting[i] \in DOMAIN jobs
                                               /\ jobs'[waiting[i]] = jobs[waiting[i]]
            BY <3>5, <6>2
          <6> QED
            BY <3>7, <5>2, <6>1, <6>3 DEF QueueAgrees
        <5> QED
          BY <3>10, <3>11, <5>1, <5>2
      <4>2. ASSUME NEW i \in DOMAIN waiting', NEW j \in DOMAIN waiting', waiting'[i] = waiting'[j]
            PROVE  i = j
        <5>1. \A k \in DOMAIN waiting : waiting'[k] = waiting[k] /\ waiting[k] # id
          BY <2>0, <3>4, <3>10 DEF QueueAgrees
        <5> QED
          BY <3>10, <3>11, <4>2, <5>1 DEF QueueAgrees
      <4> QED
        BY <4>1, <4>2 DEF QueueAgrees
    <3> QED
      BY <3>12, <3>16, <3>17
  <2>2. ASSUME NEW id \in JobId, Cancel(id) PROVE JobsInv'
    <3>0. id \in DOMAIN jobs /\ jobs[id] \in Job /\ jobs[id].status \in {"queued", "running"}
          /\ waiting' = waiting /\ tasks' = tasks /\ submitted' = submitted
          /\ jobs[id].status \notin Terminal
      BY <2>2 DEF Cancel, JobTypeOK, Terminal
    <3>1. CASE jobs[id].status = "queued"
      <4> DEFINE js == [jobs EXCEPT ![id].status = "cancelled", ![id].ctx = "cancelled"]
      <4>1. active' = Without(active, jobs[id].target) /\ Kept(js, order)
        BY <2>2, <3>1 DEF Cancel
      <4>2. /\ DOMAIN js = DOMAIN jobs /\ \A k \in DOMAIN jobs \ {id} : js[k] = jobs[k]
            /\ js[id] = [jobs[id] EXCEPT !.status = "cancelled", !.ctx = "cancelled"]
        BY <3>0
      <4>3. /\ js[id] \in Job /\ js[id].status = "cancelled" /\ js[id].ctx = "cancelled"
            /\ js[id].status \in Terminal
        BY <3>0, <4>2 DEF Job, JobStatus, Terminal
      <4> HIDE DEF js
      <4>4. /\ JobTypeOK' /\ ActiveAgrees'
            /\ \A k \in DOMAIN jobs' : k \in DOMAIN jobs /\ jobs'[k] = js[k]
        <5>1. DOMAIN tasks' \subseteq DOMAIN tasks
          BY <3>0
        <5>2. id \in DOMAIN jobs /\ jobs[id].status \notin Terminal
              /\ submitted' = submitted /\ waiting' = waiting
          BY <3>0
        <5>3. DOMAIN js = DOMAIN jobs /\ \A k \in DOMAIN jobs \ {id} : js[k] = jobs[k]
          BY <4>2
        <5>4. js[id] \in Job /\ js[id].status \in Terminal
          BY <4>3
        <5> QED
          BY <4>1, <5>1, <5>2, <5>3, <5>4, FinishKeeps
      <4>5. ASSUME NEW i \in DOMAIN waiting, waiting[i] \in DOMAIN jobs'
            PROVE  jobs'[waiting[i]].status \notin Terminal \/ jobs'[waiting[i]].ctx = "cancelled"
        <5>1. waiting[i] \in DOMAIN jobs /\ jobs'[waiting[i]] = js[waiting[i]]
          BY <4>4, <4>5
        <5>2. waiting[i] # id => js[waiting[i]] = jobs[waiting[i]]
          BY <4>2, <5>1
        <5> QED
          BY <4>3, <5>1, <5>2 DEF QueueAgrees
      <4>6. QueueAgrees'
        BY <3>0, <4>5 DEF QueueAgrees
      <4> QED
        BY <4>4, <4>6
    <3>2. CASE jobs[id].status = "running"
      <4>1. /\ jobs' = [jobs EXCEPT ![id].status = "cancelling", ![id].ctx = "cancelled"]
            /\ order' = order /\ active' = active
        BY <2>2, <3>2 DEF Cancel
      <4>2. /\ DOMAIN jobs' = DOMAIN jobs /\ \A k \in DOMAIN jobs \ {id} : jobs'[k] = jobs[k]
            /\ jobs'[id] = [jobs[id] EXCEPT !.status = "cancelling", !.ctx = "cancelled"]
        BY <3>0, <4>1
      <4>3. /\ jobs'[id] \in Job /\ jobs'[id].status = "cancelling" /\ jobs'[id].ctx = "cancelled"
            /\ jobs'[id].target = jobs[id].target /\ jobs'[id].status \notin Terminal
        BY <3>0, <4>2 DEF Job, JobStatus, Terminal
      <4>4. \A k \in DOMAIN jobs : /\ jobs'[k].target = jobs[k].target
                                   /\ jobs'[k].status \in Terminal <=> jobs[k].status \in Terminal
        BY <3>0, <4>2, <4>3
      <4>5. JobTypeOK'
        BY <3>0, <4>1, <4>2, <4>3 DEF JobTypeOK
      <4>6. ActiveAgrees'
        BY <4>1, <4>2, <4>4 DEF ActiveAgrees, Overlap
      <4>7. \A i \in DOMAIN waiting : waiting[i] \in DOMAIN jobs =>
               jobs'[waiting[i]].status \notin Terminal \/ jobs'[waiting[i]].ctx = "cancelled"
        <5> SUFFICES ASSUME NEW i \in DOMAIN waiting, waiting[i] \in DOMAIN jobs
                     PROVE  \/ jobs'[waiting[i]].status \notin Terminal
                            \/ jobs'[waiting[i]].ctx = "cancelled"
          OBVIOUS
        <5>1. CASE waiting[i] = id
          BY <4>3, <5>1
        <5>2. CASE waiting[i] # id
          BY <4>2, <5>2 DEF QueueAgrees
        <5> QED
          BY <5>1, <5>2
      <4>8. QueueAgrees'
        BY <3>0, <4>2, <4>7 DEF QueueAgrees
      <4> QED
        BY <4>5, <4>6, <4>8
    <3> QED
      BY <3>0, <3>1, <3>2
  <2>3. CASE Execute
    <3> DEFINE id == Head(waiting)
    <3>0. /\ waiting # <<>> /\ waiting' = Tail(waiting) /\ order' = order /\ active' = active
          /\ submitted' = submitted
      BY <2>3 DEF Execute
    <3>1. Len(waiting) >= 1
      BY <2>0, <3>0
    <3>2. /\ id = waiting[1] /\ waiting' \in Seq(Nat) /\ DOMAIN waiting' = 1..(Len(waiting) - 1)
          /\ \A i \in 1..(Len(waiting) - 1) : waiting'[i] = waiting[i + 1]
      BY <2>0, <3>0, <3>1, HeadTailProperties
    <3>3. /\ \A i \in DOMAIN waiting' : i + 1 \in DOMAIN waiting /\ i + 1 # 1
          /\ \A i, j \in DOMAIN waiting' : i + 1 = j + 1 => i = j
          /\ 1 \in DOMAIN waiting
      BY SMTT(30), <2>0, <3>1, <3>2
    <3> HIDE DEF id
    <3>4. \A i \in DOMAIN waiting' : waiting'[i] # id
      BY <3>2, <3>3 DEF QueueAgrees
    <3>5. id \in DOMAIN tasks /\ tasks[id] = "pending"
      BY <3>2, <3>3 DEF QueueAgrees
    <3>6. DOMAIN tasks' = DOMAIN tasks /\ \A k \in DOMAIN tasks \ {id} : tasks'[k] = tasks[k]
      BY <2>3, <3>5 DEF Execute, id
    <3>7. /\ DOMAIN jobs' = DOMAIN jobs /\ \A k \in DOMAIN jobs \ {id} : jobs'[k] = jobs[k]
          /\ id \in DOMAIN jobs => jobs'[id] \in Job /\ jobs'[id].target = jobs[id].target
                /\ (jobs'[id].status \in Terminal <=> jobs[id].status \in Terminal)
      <4>1. CASE jobs' = jobs
        BY <4>1 DEF JobTypeOK
      <4>2. CASE ~Cancelled(id) /\ jobs' = [jobs EXCEPT ![id].status = "running"]
        <5>1. id \in DOMAIN jobs /\ jobs[id].ctx # "cancelled" /\ jobs[id] \in Job
          BY <4>2 DEF Cancelled, JobTypeOK
        <5>2. jobs[id].status \notin Terminal
          BY <3>2, <3>3, <5>1 DEF QueueAgrees
        <5>3. /\ DOMAIN jobs' = DOMAIN jobs /\ \A k \in DOMAIN jobs \ {id} : jobs'[k] = jobs[k]
              /\ jobs'[id] = [jobs[id] EXCEPT !.status = "running"]
          BY <4>2, <5>1
        <5>4. jobs'[id] \in Job /\ jobs'[id].target = jobs[id].target
              /\ jobs'[id].status = "running" /\ "running" \notin Terminal
          BY <5>1, <5>3 DEF Job, JobStatus, Terminal
        <5> QED
          BY <5>2, <5>3, <5>4
      <4> QED
        BY <2>3, <4>1, <4>2 DEF Execute, id
    <3>8. JobTypeOK'
      BY <3>0, <3>2, <3>6, <3>7 DEF JobTypeOK
    <3>9. ActiveAgrees'
      <4>1. \A k \in DOMAIN jobs : /\ jobs'[k].target = jobs[k].target
                                   /\ jobs'[k].status \in Terminal <=> jobs[k].status \in Terminal
        BY <3>7
      <4> QED
        BY <3>0, <3>7, <4>1 DEF ActiveAgrees, Overlap
    <3>10. QueueAgrees'
      <4>1. \A i \in DOMAIN waiting' :
              /\ waiting'[i] = waiting[i + 1] /\ i + 1 \in DOMAIN waiting /\ waiting'[i] # id
              /\ waiting[i + 1] \in DOMAIN tasks /\ tasks[waiting[i + 1]] = "pending"
        BY <3>2, <3>3, <3>4 DEF QueueAgrees
      <4>2. \A i \in DOMAIN waiting' : waiting'[i] \in DOMAIN tasks' /\ tasks'[waiting'[i]] = "pending"
        BY <3>6, <4>1
      <4>3. \A i, j \in DOMAIN waiting' : waiting'[i] = waiting'[j] => i = j
        BY <3>3, <4>1 DEF QueueAgrees
      <4>4. \A i \in DOMAIN waiting' : waiting'[i] \in DOMAIN jobs' =>
                jobs'[waiting'[i]].status \notin Terminal \/ jobs'[waiting'[i]].ctx = "cancelled"
        BY <3>7, <4>1 DEF QueueAgrees
      <4> QED
        BY <4>2, <4>3, <4>4 DEF QueueAgrees
    <3> QED
      BY <3>8, <3>9, <3>10
  <2>4. ASSUME NEW id \in JobId, TakeLock(id) \/ Return(id) PROVE JobsInv'
    <3>1. /\ id \in DOMAIN tasks /\ tasks[id] # "pending" /\ UNCHANGED <<jobs, order, active, waiting, submitted>>
          /\ DOMAIN tasks' = DOMAIN tasks /\ \A k \in DOMAIN tasks \ {id} : tasks'[k] = tasks[k]
      BY <2>4 DEF TakeLock, Return
    <3>2. \A i \in DOMAIN waiting : waiting[i] # id
      BY <3>1 DEF QueueAgrees
    <3>3. JobTypeOK'
      BY <3>1 DEF JobTypeOK
    <3>4. ActiveAgrees'
      BY <3>1 DEF ActiveAgrees, Overlap
    <3>5. QueueAgrees'
      BY <3>1, <3>2 DEF QueueAgrees
    <3> QED
      BY <3>3, <3>4, <3>5
  <2>5. ASSUME NEW id \in JobId, Finish(id) PROVE JobsInv'
    <3>1. /\ id \in DOMAIN tasks /\ tasks[id] # "pending" /\ waiting' = waiting /\ submitted' = submitted
          /\ DOMAIN tasks' = DOMAIN tasks \ {id} /\ \A k \in DOMAIN tasks \ {id} : tasks'[k] = tasks[k]
      BY <2>5 DEF Finish, Without
    <3>2. \A i \in DOMAIN waiting : waiting[i] # id
      BY <3>1 DEF QueueAgrees
    <3>3. CASE Finished(id)
      <4>1. UNCHANGED <<jobs, order, active>>
        BY <2>5, <3>3 DEF Finish
      <4>2. JobTypeOK'
        BY <3>1, <4>1 DEF JobTypeOK
      <4>3. ActiveAgrees'
        BY <4>1 DEF ActiveAgrees, Overlap
      <4>4. QueueAgrees'
        BY <3>1, <3>2, <4>1 DEF QueueAgrees
      <4> QED
        BY <4>2, <4>3, <4>4
    <3>4. CASE ~Finished(id)
      <4>1. PICK status \in Terminal :
               /\ active' = Without(active, jobs[id].target)
               /\ Kept([jobs EXCEPT ![id].status = status], order)
        BY <2>5, <3>4 DEF Finish, Terminal
      <4> DEFINE js == [jobs EXCEPT ![id].status = status]
      <4>2. id \in DOMAIN jobs /\ jobs[id].status \notin Terminal /\ jobs[id] \in Job
        BY <3>4 DEF Finished, JobTypeOK
      <4>3. /\ DOMAIN js = DOMAIN jobs /\ \A k \in DOMAIN jobs \ {id} : js[k] = jobs[k]
            /\ js[id] = [jobs[id] EXCEPT !.status = status]
        BY <4>2
      <4>4. js[id] \in Job /\ js[id].status \in Terminal
        BY <4>2, <4>3 DEF Job, JobStatus
      <4>5. Kept(js, order)
        BY <4>1
      <4> HIDE DEF js
      <4>6. /\ JobTypeOK' /\ ActiveAgrees'
            /\ \A k \in DOMAIN jobs' : k \in DOMAIN jobs /\ jobs'[k] = js[k]
        BY ZenonT(60), <3>1, <4>1, <4>2, <4>3, <4>4, <4>5, FinishKeeps
      <4>7. QueueAgrees'
        BY <3>1, <3>2, <4>3, <4>6 DEF QueueAgrees
      <4> QED
        BY <4>6, <4>7
    <3> QED
      BY <3>3, <3>4
  <2>6. CASE LifecycleLocks \/ LifecycleUnlocks \/ UNCHANGED jobVars
    <3>1. UNCHANGED <<jobs, order, active, waiting, tasks, submitted>>
      BY <2>6 DEF LifecycleLocks, LifecycleUnlocks, jobVars
    <3> QED
      BY <3>1 DEF JobTypeOK, ActiveAgrees, Overlap, QueueAgrees
  <2> QED
    BY <2>1, <2>2, <2>3, <2>4, <2>5, <2>6 DEF JobsNext
<1> QED
  BY <1>1, <1>2, PTL DEF JobsSpec

\* Two unfinished jobs never have the same name for a target, and a job on
\* "all" is alone, for any number of jobs and names, however cancellations,
\* resubmissions, late finishes and the
\* trimming of the history interleave (Submit, Cancel, finish, trimLocked).
THEOREM JobsStayExclusive == JobsSpec => []JobsExclusive
<1>1. JobsInv => JobsExclusive
  <2> SUFFICES ASSUME JobsInv PROVE JobsExclusive
    OBVIOUS
  <2> DEFINE unfinished == {id \in DOMAIN jobs : jobs[id].status \notin Terminal}
  <2>1. ASSUME NEW i \in unfinished, NEW j \in unfinished, i # j
        PROVE  ~Overlap(jobs[i].target, jobs[j].target)
    BY <2>1 DEF JobsInv, ActiveAgrees
  <2>2. {active[t] : t \in DOMAIN active} = unfinished
    BY DEF JobsInv, ActiveAgrees
  <2> QED
    BY <2>1, <2>2 DEF JobsExclusive
<1> QED
  BY <1>1, JobsAgree, PTL

-----------------------------------------------------------------------------
(* Image updates: what an update has changed it can put back. *)

Container == [image : Nat, up : BOOLEAN]
Update == [phase : {"replace"}, image : Nat, todo : SUBSET ImageAccount,
           attempted : Seq(ImageAccount), account : ImageAccount \cup {NoImage},
           step : {"next", "remove", "create", "probe", "project"},
           cancelled : BOOLEAN, error : BOOLEAN, stuck : SUBSET ImageAccount,
           unrestored : BOOLEAN, before : [ImageAccount -> Container],
           appliedBefore : Nat]

ImageTypeOK ==
    /\ pulled \in Nat /\ channel \in Nat /\ applied \in Nat
    /\ runs \in [ImageAccount -> Container]
    /\ rollbackTag \in [ImageAccount -> Nat]
    /\ work = NoWork \/ work \in Update

Attempted == {work.attempted[i] : i \in 1..Len(work.attempted)}

\* An account runs what it ran before the update unless the update has turned
\* to it, and those it turns to are tagged with that.
UpdateUndoable ==
    work # NoWork =>
        /\ \A a \in ImageAccount : \/ a \in Attempted \/ a \in work.stuck
                                   \/ runs[a] = work.before[a]
        /\ \A a \in work.todo \cup Attempted :
              work.before[a].up /\ rollbackTag[a] = work.before[a].image
        /\ work.step \in {"remove", "create", "probe"} /\ ~work.error =>
              work.account \in Attempted
        /\ work.step # "project" \/ work.error =>
              work.unrestored \/ applied = work.appliedBefore

ImageInv == ImageTypeOK /\ UpdateUndoable

\* An update under way differs from none.
LEMMA NoWorkIsNone == \A w \in Update : w # NoWork /\ w.phase = "replace"
BY DEF Update, NoWork

\* While containers are replaced there is an update.
LEMMA UnderWay == ASSUME ImageInv, work.phase = "replace" PROVE work \in Update /\ work # NoWork
BY DEF ImageInv, ImageTypeOK, NoWork

\* Appending to a sequence adds one element to those in it.
LEMMA AttemptedGrows ==
  ASSUME NEW S, NEW s \in Seq(S), NEW x \in S
  PROVE  {Append(s, x)[i] : i \in 1..Len(Append(s, x))} = {s[i] : i \in 1..Len(s)} \cup {x}
<1>1. /\ Len(Append(s, x)) = Len(s) + 1 /\ Len(s) \in Nat
      /\ \A i \in 1..Len(s) : Append(s, x)[i] = s[i]
      /\ Append(s, x)[Len(s) + 1] = x
  OBVIOUS
<1>2. \A i : i \in 1..(Len(s) + 1) <=> i \in 1..Len(s) \/ i = Len(s) + 1
  BY <1>1
<1> QED
  BY <1>1, <1>2

\* Nothing the update could undo is touched.
LEMMA UpdateStays ==
  ASSUME ImageInv, work' = work, runs' = runs, rollbackTag' = rollbackTag, applied' = applied
  PROVE  UpdateUndoable'
BY DEF ImageInv, UpdateUndoable, Attempted

\* A step changes only the account the update has turned to.
LEMMA AttemptedRuns ==
  ASSUME ImageInv, work \in Update, work' \in Update,
         work'.attempted = work.attempted, work'.before = work.before,
         work'.stuck = work.stuck, work'.todo = work.todo, work'.account = work.account,
         rollbackTag' = rollbackTag,
         NEW a \in Attempted, NEW c \in Container, runs' = [runs EXCEPT ![a] = c]
  PROVE  /\ Attempted' = Attempted
         /\ \A b \in ImageAccount : \/ b \in Attempted' \/ b \in work'.stuck
                                    \/ runs'[b] = work'.before[b]
         /\ \A b \in work'.todo \cup Attempted' :
               work'.before[b].up /\ rollbackTag'[b] = work'.before[b].image
<1>1. Attempted' = Attempted
  BY DEF Attempted
<1>2. work # NoWork
  BY NoWorkIsNone
<1> QED
  BY <1>1, <1>2 DEF ImageInv, ImageTypeOK, UpdateUndoable

\* The inductive invariant behind FailedUpdateUndone.
THEOREM UpdatesUndoable == ImageSpec => []ImageInv
<1>1. ImageInit => ImageInv
  BY DEF ImageInit, ImageInv, ImageTypeOK, UpdateUndoable, Container, NoImage
<1>2. ImageInv /\ [ImageNext]_imageVars => ImageInv'
  <2> SUFFICES ASSUME ImageInv, [ImageNext]_imageVars PROVE ImageInv'
    OBVIOUS
  <2>0. /\ pulled \in Nat /\ channel \in Nat /\ applied \in Nat
        /\ runs \in [ImageAccount -> Container]
        /\ rollbackTag \in [ImageAccount -> Nat]
        /\ work = NoWork \/ work \in Update
        /\ Missing \in Container
    BY DEF ImageInv, ImageTypeOK, Missing, NoImage, Container
  <2>1. CASE ReleasePublished \/ PullImage
    <3>1. /\ UNCHANGED <<runs, rollbackTag, applied, work>>
          /\ pulled' \in Nat /\ channel' \in Nat
      BY <2>0, <2>1 DEF ReleasePublished, PullImage
    <3> QED
      BY <2>0, <3>1, UpdateStays DEF ImageInv, ImageTypeOK
  <2>2. ASSUME NEW a \in ImageAccount, StopAccount(a) \/ StartAccount(a)
        PROVE  ImageInv'
    <3>1. /\ work = NoWork /\ UNCHANGED <<channel, pulled, rollbackTag, applied, work>>
          /\ \E up \in BOOLEAN : runs' = [runs EXCEPT ![a].up = up]
      BY <2>2 DEF StopAccount, StartAccount, NoUpdate
    <3>2. runs' \in [ImageAccount -> Container]
      BY <2>0, <3>1 DEF Container
    <3> QED
      BY <2>0, <3>1, <3>2 DEF ImageInv, ImageTypeOK, UpdateUndoable
  <2>3. ASSUME NEW targets \in SUBSET ImageAccount, UpdateImage(targets)
        PROVE  ImageInv'
    <3> DEFINE todo == Outdated(targets)
               new == [phase |-> "replace", image |-> pulled, todo |-> todo,
                       attempted |-> <<>>, account |-> NoImage, step |-> "next",
                       cancelled |-> FALSE, error |-> FALSE, stuck |-> {},
                       unrestored |-> FALSE, before |-> runs, appliedBefore |-> applied]
    <3>1. /\ UNCHANGED <<channel, pulled, runs, applied>>
          /\ rollbackTag' = [a \in ImageAccount |->
                                 IF a \in todo THEN runs[a].image ELSE rollbackTag[a]]
          /\ work' = NoWork \/ work' = new
      BY <2>3 DEF UpdateImage
    <3>2. todo \in SUBSET ImageAccount /\ \A a \in todo : runs[a].up
      BY DEF Outdated
    <3> HIDE DEF todo
    <3>3. rollbackTag' \in [ImageAccount -> Nat]
      BY <2>0, <3>1 DEF Container
    <3>4. CASE work' = NoWork
      BY <2>0, <3>1, <3>3, <3>4 DEF ImageInv, ImageTypeOK, UpdateUndoable
    <3>5. CASE work' = new
      <4>1. new \in Update
        BY <2>0, <3>2 DEF Update, NoImage
      <4>2. Attempted' = {}
        BY <3>5 DEF Attempted
      <4>3. /\ work'.todo = todo /\ work'.before = runs /\ work'.step = "next"
            /\ work'.appliedBefore = applied
        BY <3>5
      <4>4. UpdateUndoable'
        BY <3>1, <3>2, <4>2, <4>3 DEF UpdateUndoable
      <4> QED
        BY <2>0, <3>1, <3>3, <3>5, <4>1, <4>4 DEF ImageInv, ImageTypeOK
    <3> QED
      BY <3>1, <3>4, <3>5
  <2>4. CASE UpdateRefused
    <3>1. work = NoWork /\ UNCHANGED <<channel, pulled, runs, applied, work>>
      BY <2>4 DEF UpdateRefused, NoUpdate
    <3>2. rollbackTag' \in [ImageAccount -> Nat]
      BY <2>0, <2>4 DEF UpdateRefused, Container
    <3> QED
      BY <2>0, <3>1, <3>2 DEF ImageInv, ImageTypeOK, UpdateUndoable
  <2>5. CASE NextAccount
    <3>1. UNCHANGED <<channel, pulled, runs, rollbackTag, applied>>
      BY <2>5 DEF NextAccount
    <3>2. work \in Update /\ work # NoWork /\ work.step = "next" /\ ~work.error
      BY <2>5, UnderWay DEF NextAccount, Updating
    <3>3. PICK a \in work.todo : work' = Attempt(a)
      BY <2>5 DEF NextAccount
    <3>4. /\ work' \in Update /\ work'.todo = work.todo \ {a} /\ work'.account = a
          /\ work'.attempted = Append(work.attempted, a) /\ work'.step = "remove"
          /\ work'.before = work.before /\ work'.stuck = work.stuck
          /\ work'.unrestored = work.unrestored /\ work'.appliedBefore = work.appliedBefore
      <4>1. /\ work.todo \ {a} \in SUBSET ImageAccount /\ a \in ImageAccount
            /\ Append(work.attempted, a) \in Seq(ImageAccount)
        BY <3>2 DEF Update
      <4>2. work' = [work EXCEPT !.account = a, !.todo = work.todo \ {a}, !.step = "remove",
                                 !.attempted = Append(work.attempted, a)]
        BY <3>3 DEF Attempt
      <4> QED
        BY <3>2, <4>1, <4>2 DEF Update
    <3>5. Attempted' = Attempted \cup {a}
      <4>1. work.attempted \in Seq(ImageAccount) /\ a \in ImageAccount
        BY <3>2 DEF Update
      <4>2. {Append(work.attempted, a)[i] : i \in 1..Len(Append(work.attempted, a))}
              = {work.attempted[i] : i \in 1..Len(work.attempted)} \cup {a}
        BY <4>1, AttemptedGrows
      <4> QED
        BY <3>4, <4>2 DEF Attempted
    <3>6. UpdateUndoable'
      BY <3>1, <3>2, <3>4, <3>5 DEF ImageInv, UpdateUndoable
    <3> QED
      BY <2>0, <3>1, <3>4, <3>6 DEF ImageInv, ImageTypeOK
  <2>6. CASE RemoveOld \/ CreateNew \/ ProbeNew
    <3>1. UNCHANGED <<channel, pulled, rollbackTag, applied>>
      BY <2>6 DEF RemoveOld, CreateNew, ProbeNew
    <3>2. /\ work \in Update /\ work # NoWork /\ ~work.error
          /\ work.step \in {"remove", "create", "probe"}
      BY <2>6, UnderWay DEF RemoveOld, CreateNew, ProbeNew, Updating
    <3>3. work.account \in Attempted /\ work.account \in ImageAccount
      BY <3>2 DEF ImageInv, UpdateUndoable, Attempted, Update
    <3>4. \E c \in Container : runs' = [runs EXCEPT ![work.account] = c]
      <4>0. work.image \in Nat
        BY <3>2 DEF Update
      <4>1. runs[work.account] \in Container /\ runs = [runs EXCEPT ![work.account] = runs[work.account]]
        BY <2>0, <3>3
      <4>2. \A up \in BOOLEAN : [image |-> work.image, up |-> up] \in Container
        BY <4>0 DEF Container
      <4>3. \/ runs' = runs
            \/ \E left \in HalfRemoved(work.account) : runs' = [runs EXCEPT ![work.account] = left]
            \/ runs' = [runs EXCEPT ![work.account] = Missing]
            \/ runs' = [runs EXCEPT ![work.account] = [image |-> work.image, up |-> TRUE]]
            \/ runs' = [runs EXCEPT ![work.account] = [image |-> work.image, up |-> FALSE]]
        BY <2>6 DEF RemoveOld, CreateNew, ProbeNew
      <4>4. HalfRemoved(work.account) \subseteq Container
        BY <2>0, <4>1 DEF HalfRemoved, Container
      <4> QED
        BY <2>0, <4>1, <4>2, <4>3, <4>4
    <3>5. PICK c \in Container : runs' = [runs EXCEPT ![work.account] = c]
      BY <3>4
    <3>6. /\ work' \in Update /\ work'.attempted = work.attempted
          /\ work'.before = work.before /\ work'.stuck = work.stuck /\ work'.todo = work.todo
          /\ work'.account = work.account
          /\ work'.unrestored = work.unrestored /\ work'.appliedBefore = work.appliedBefore
          /\ work'.step \in {"remove", "create", "probe", "next"}
      <4>1. \/ work' = Failed(work)
            \/ \E s \in {"create", "probe", "next"} : work' = [work EXCEPT !.step = s]
        BY <2>6 DEF RemoveOld, CreateNew, ProbeNew
      <4> QED
        BY <3>2, <4>1 DEF Failed, Update
    <3>7. /\ Attempted' = Attempted
          /\ \A b \in ImageAccount : \/ b \in Attempted' \/ b \in work'.stuck
                                     \/ runs'[b] = work'.before[b]
          /\ \A b \in work'.todo \cup Attempted' :
                work'.before[b].up /\ rollbackTag'[b] = work'.before[b].image
      BY <3>1, <3>2, <3>3, <3>5, <3>6, AttemptedRuns
    <3>8. work.unrestored \/ applied = work.appliedBefore
      BY <3>2 DEF ImageInv, UpdateUndoable
    <3>9. UpdateUndoable'
      BY <3>1, <3>3, <3>6, <3>7, <3>8 DEF UpdateUndoable
    <3> QED
      BY <2>0, <3>1, <3>5, <3>6, <3>9 DEF ImageInv, ImageTypeOK
  <2>7. ASSUME UNCHANGED <<runs, rollbackTag>>, work \in Update, work # NoWork,
               work' \in Update, work'.attempted = work.attempted,
               work'.before = work.before, work'.stuck = work.stuck, work'.todo = work.todo,
               work'.account = work.account, work'.step = work.step \/ work'.step = "project",
               work.error => work'.error,
               work'.step # "project" \/ work'.error =>
                   work'.unrestored \/ applied' = work'.appliedBefore
        PROVE  UpdateUndoable'
    <3>1. Attempted' = Attempted
      BY <2>7 DEF Attempted
    <3> QED
      BY <2>7, <3>1 DEF ImageInv, UpdateUndoable
  <2>8. CASE CommitState
    <3>1. UNCHANGED <<channel, pulled, runs, rollbackTag>>
      BY <2>8 DEF CommitState
    <3>2. work \in Update /\ work # NoWork /\ work.step = "next" /\ ~work.error
      BY <2>8, UnderWay DEF CommitState, Updating
    <3>3. work.unrestored \/ applied = work.appliedBefore
      BY <3>2 DEF ImageInv, UpdateUndoable
    <3>4. CASE work' = Failed(work) /\ applied' = applied
      <4>1. /\ work' \in Update /\ work'.attempted = work.attempted
            /\ work'.before = work.before /\ work'.stuck = work.stuck /\ work'.todo = work.todo
            /\ work'.account = work.account /\ work'.step = work.step /\ work'.error
            /\ work'.unrestored = work.unrestored /\ work'.appliedBefore = work.appliedBefore
        BY <3>2, <3>4 DEF Failed, Update
      <4>2. UpdateUndoable'
        BY <2>7, <3>1, <3>2, <3>3, <3>4, <4>1
      <4> QED
        BY <2>0, <3>1, <3>4, <4>1, <4>2 DEF ImageInv, ImageTypeOK
    <3>5. CASE work' = [work EXCEPT !.step = "project"] /\ applied' = work.image
      <4>1. /\ work' \in Update /\ work'.attempted = work.attempted
            /\ work'.before = work.before /\ work'.stuck = work.stuck /\ work'.todo = work.todo
            /\ work'.account = work.account /\ work'.step = "project" /\ ~work'.error
        BY <3>2, <3>5 DEF Update
      <4>2. UpdateUndoable'
        BY <2>7, <3>1, <3>2, <4>1
      <4>3. applied' \in Nat
        BY <3>2, <3>5 DEF Update
      <4> QED
        BY <2>0, <3>1, <4>1, <4>2, <4>3 DEF ImageInv, ImageTypeOK
    <3> QED
      BY <2>8, <3>4, <3>5 DEF CommitState
  <2>9. CASE ProjectFails
    <3>1. UNCHANGED <<channel, pulled, runs, rollbackTag>>
      BY <2>9 DEF ProjectFails
    <3>2. work \in Update /\ work # NoWork /\ work.step = "project" /\ ~work.error
      BY <2>9, UnderWay DEF ProjectFails, Updating
    <3>3. \/ applied' = work.appliedBefore /\ work' = Failed(work)
          \/ applied' = applied /\ work' = [Failed(work) EXCEPT !.unrestored = TRUE]
      BY <2>9 DEF ProjectFails, StateRestored
    <3>4. /\ work' \in Update /\ work'.attempted = work.attempted
          /\ work'.before = work.before /\ work'.stuck = work.stuck /\ work'.todo = work.todo
          /\ work'.account = work.account /\ work'.step = work.step /\ work'.error
          /\ work'.unrestored \/ applied' = work'.appliedBefore
          /\ applied' \in Nat
      BY <2>0, <3>2, <3>3 DEF Failed, Update
    <3>5. UpdateUndoable'
      BY <2>7, <3>1, <3>2, <3>4
    <3> QED
      BY <2>0, <3>1, <3>4, <3>5 DEF ImageInv, ImageTypeOK
  <2>10. CASE RollBack
    <3> DEFINE a == work.attempted[Len(work.attempted)]
    <3>1. UNCHANGED <<channel, pulled, rollbackTag, applied>>
      BY <2>10 DEF RollBack
    <3>2. work \in Update /\ work # NoWork /\ work.error /\ work.attempted # <<>>
      BY <2>10, UnderWay DEF RollBack
    <3>3. work.attempted \in Seq(ImageAccount) /\ Len(work.attempted) \in Nat \ {0}
      BY <3>2 DEF Update
    <3>4. a \in Attempted /\ a \in ImageAccount
      BY <3>3 DEF Attempted
    <3>5. /\ Front(work.attempted) \in Seq(ImageAccount)
          /\ Len(Front(work.attempted)) = Len(work.attempted) - 1
          /\ \A i \in 1..(Len(work.attempted) - 1) :
                Front(work.attempted)[i] = work.attempted[i]
      BY <3>3 DEF Front
    <3>6. /\ \/ /\ runs' = [runs EXCEPT ![a] = [image |-> rollbackTag[a], up |-> TRUE]]
                /\ work' = [work EXCEPT !.attempted = Front(@)]
             \/ /\ \E left \in HalfRemoved(a) \cup {[image |-> rollbackTag[a], up |-> b] : b \in BOOLEAN} :
                      runs' = [runs EXCEPT ![a] = left]
                /\ work' = [work EXCEPT !.attempted = Front(@), !.stuck = @ \cup {a}]
      BY <2>10 DEF RollBack, Last
    <3> HIDE DEF a
    <3>7. /\ work' \in Update /\ work'.attempted = Front(work.attempted)
          /\ work'.before = work.before /\ work'.todo = work.todo /\ work'.error
          /\ work'.unrestored = work.unrestored /\ work'.appliedBefore = work.appliedBefore
          /\ work'.stuck = work.stuck \/ work'.stuck = work.stuck \cup {a}
      <4>1. CASE work' = [work EXCEPT !.attempted = Front(@)]
        BY <3>2, <3>4, <3>5, <4>1 DEF Update
      <4>2. CASE work' = [work EXCEPT !.attempted = Front(@), !.stuck = @ \cup {a}]
        <5>1. work.stuck \cup {a} \in SUBSET ImageAccount
          BY <3>2, <3>4 DEF Update
        <5> QED
          BY <3>2, <3>5, <4>2, <5>1 DEF Update
      <4> QED
        BY <3>6, <4>1, <4>2
    <3>8. Attempted \subseteq Attempted' \cup {a} /\ Attempted' \subseteq Attempted
      <4>1. Attempted' = {Front(work.attempted)[i] : i \in 1..(Len(work.attempted) - 1)}
        BY <3>5, <3>7 DEF Attempted
      <4>2. \A i \in 1..Len(work.attempted) :
               i \in 1..(Len(work.attempted) - 1) \/ i = Len(work.attempted)
        BY <3>3
      <4>3. 1..(Len(work.attempted) - 1) \subseteq 1..Len(work.attempted)
        BY <3>3
      <4> QED
        BY <3>5, <4>1, <4>2, <4>3 DEF Attempted, a
    <3>9. work.before[a] = [image |-> rollbackTag[a], up |-> TRUE]
      <4>1. work.before[a] \in Container
        BY <3>2, <3>4 DEF Update
      <4>2. work.before[a].up /\ rollbackTag[a] = work.before[a].image
        BY <3>2, <3>4 DEF ImageInv, UpdateUndoable
      <4> QED
        BY <4>1, <4>2 DEF Container
    <3>10. /\ runs' \in [ImageAccount -> Container]
           /\ \A b \in ImageAccount \ {a} : runs'[b] = runs[b]
           /\ runs'[a] = work.before[a] \/ a \in work'.stuck
      <4>1. runs[a] \in Container /\ rollbackTag[a] \in Nat
        BY <2>0, <3>4
      <4>2. \A up \in BOOLEAN : [image |-> rollbackTag[a], up |-> up] \in Container
        BY <4>1 DEF Container
      <4>3. CASE /\ runs' = [runs EXCEPT ![a] = [image |-> rollbackTag[a], up |-> TRUE]]
        BY <2>0, <3>4, <3>9, <4>2, <4>3
      <4>5. HalfRemoved(a) \subseteq Container
        BY <2>0, <4>1 DEF HalfRemoved, Container
      <4>4. CASE /\ \E left \in HalfRemoved(a) \cup {[image |-> rollbackTag[a], up |-> b] : b \in BOOLEAN} :
                      runs' = [runs EXCEPT ![a] = left]
                 /\ work' = [work EXCEPT !.attempted = Front(@), !.stuck = @ \cup {a}]
        <5>1. PICK left \in Container : runs' = [runs EXCEPT ![a] = left]
          BY <4>2, <4>4, <4>5
        <5>2. a \in work'.stuck
          BY <3>2, <4>4 DEF Update
        <5> QED
          BY <2>0, <3>4, <5>1, <5>2
      <4> QED
        BY <3>6, <4>3, <4>4
    <3>11. work.unrestored \/ applied = work.appliedBefore
      BY <3>2 DEF ImageInv, UpdateUndoable
    <3>12. \A b \in ImageAccount : \/ b \in Attempted' \/ b \in work'.stuck
                                   \/ runs'[b] = work'.before[b]
      <4> SUFFICES ASSUME NEW b \in ImageAccount, b \notin Attempted', b \notin work'.stuck
                   PROVE  runs'[b] = work.before[b]
        BY <3>7
      <4>1. b # a => b \notin Attempted /\ b \notin work.stuck
        BY <3>7, <3>8
      <4> QED
        BY <3>2, <3>10, <4>1 DEF ImageInv, UpdateUndoable
    <3>13. UpdateUndoable'
      BY <3>1, <3>2, <3>7, <3>8, <3>11, <3>12 DEF ImageInv, UpdateUndoable
    <3> QED
      BY <2>0, <3>1, <3>7, <3>10, <3>13 DEF ImageInv, ImageTypeOK
  <2>11. CASE Project \/ EndFailed \/ CrashAdmin
    <3>1. work' = NoWork /\ UNCHANGED <<channel, pulled, runs, rollbackTag, applied>>
      BY <2>11 DEF Project, EndFailed, CrashAdmin
    <3> QED
      BY <2>0, <3>1 DEF ImageInv, ImageTypeOK, UpdateUndoable
  <2>12. CASE CancelJob
    <3>1. UNCHANGED <<channel, pulled, runs, rollbackTag, applied>>
      BY <2>12 DEF CancelJob
    <3>2. work \in Update /\ work # NoWork /\ work' = [work EXCEPT !.cancelled = TRUE]
      BY <2>12, UnderWay DEF CancelJob
    <3>3. /\ work' \in Update /\ work'.attempted = work.attempted
          /\ work'.before = work.before /\ work'.stuck = work.stuck /\ work'.todo = work.todo
          /\ work'.account = work.account /\ work'.step = work.step
          /\ work'.error = work.error
          /\ work'.unrestored = work.unrestored /\ work'.appliedBefore = work.appliedBefore
      BY <3>2 DEF Update
    <3>4. work.step # "project" \/ work.error => work.unrestored \/ applied = work.appliedBefore
      BY <3>2 DEF ImageInv, UpdateUndoable
    <3>5. UpdateUndoable'
      BY <2>7, <3>1, <3>2, <3>3, <3>4
    <3> QED
      BY <2>0, <3>1, <3>3, <3>5 DEF ImageInv, ImageTypeOK
  <2>13. CASE UNCHANGED imageVars
    BY <2>0, <2>13, UpdateStays DEF imageVars, ImageInv, ImageTypeOK
  <2> QED
    BY <2>1, <2>2, <2>3, <2>4, <2>5, <2>6, <2>8, <2>9, <2>10, <2>11, <2>12, <2>13 DEF ImageNext
<1> QED
  BY <1>1, <1>2, PTL DEF ImageSpec

\* A failed update leaves every account it does not report as stuck on the
\* image it ran, and the applied image as it was unless that is reported
\* (UpdateImage, rollbackCPAImages, commitCPAImageApplied).
THEOREM FailedUpdatesUndone == ImageSpec => []FailedUpdateUndone
<1>1. ImageInv => FailedUpdateUndone
  <2> SUFFICES ASSUME ImageInv, work # NoWork, work.phase = "replace", work.error,
                      work.attempted = <<>>
               PROVE  /\ work.unrestored \/ applied = work.appliedBefore
                      /\ \A a \in ImageAccount \ work.stuck : runs[a] = work.before[a]
    BY DEF FailedUpdateUndone, NoUpdate
  <2>1. Attempted = {}
    BY DEF Attempted
  <2> QED
    BY <2>1 DEF ImageInv, UpdateUndoable
<1> QED
  BY <1>1, UpdatesUndoable, PTL

-----------------------------------------------------------------------------
(* The Configuration Center: the proxy and its secret belong together. *)

\* A table and a secret that belong together.
ProxySet(s, secret) == s["proxy_on"] = 2 => secret # Unset

SaveFields == {"pc", "request", "stored", "proxy", "changed", "todo"}

\* What a save has read stays together with its secret, and nobody else writes
\* the secret while it is under way.
SaveInv ==
    save # NoSave =>
        /\ SaveFields \subseteq DOMAIN save
        /\ DOMAIN save.stored = RowKey
        /\ ProxySet(save.stored, save.proxy)
        /\ save.pc \in {"read", "check", "replace"} => save.proxy = proxySecret
        /\ save.pc = "replace" => ValidConfiguration(Wanted) /\ save.changed = ChangedKeys

ProxyInv ==
    /\ DOMAIN settings = RowKey /\ DOMAIN running = ConfAccount
    /\ ProxySet(settings, proxySecret)
    /\ ValidConfiguration(rendered)
    /\ \A a \in ConfAccount : ValidConfiguration(running[a])
    /\ SaveInv

\* The keys of the catalog and of the table, one by one.
LEMMA CatalogKeys ==
  /\ CatalogKey = {"name", "notify", "retry", "proxy_on", "proxy", "zone", "listen",
                   "unlimited", "port"}
  /\ RowKey = {"name", "notify", "retry", "proxy_on", "zone", "listen", "unlimited", "port",
               "skipped", "old_zone"}
BY DEF CatalogKey, RowKey, ApplyMode

\* The proxy that takes effect has an address when the stored one has.
LEMMA EffectiveProxy ==
  ASSUME NEW s, NEW secret
  PROVE  /\ ValidConfiguration(Effective(s, secret)) <=> ProxySet(s, secret)
         /\ ValidConfiguration(AccountFiles(s, secret)) <=> ProxySet(s, secret)
<1>1. /\ Effective(s, secret)["proxy"] = secret
      /\ Effective(s, secret)["proxy_on"] = IF s["proxy_on"] = Unset THEN 1 ELSE s["proxy_on"]
  BY CatalogKeys DEF Effective
<1>2. /\ AccountFiles(s, secret)["proxy"] = Effective(s, secret)["proxy"]
      /\ AccountFiles(s, secret)["proxy_on"] = Effective(s, secret)["proxy_on"]
  BY DEF AccountFiles
<1> QED
  BY <1>1, <1>2 DEF ValidConfiguration, ProxySet, Unset

\* The migration of rows leaves the switch of the proxy alone.
LEMMA MigratedProxy ==
  ASSUME NEW s, DOMAIN s = RowKey
  PROVE  DOMAIN Migrated(s) = RowKey /\ Migrated(s)["proxy_on"] = s["proxy_on"]
BY CatalogKeys DEF Migrated

\* A save that is over.
LEMMA NothingSaved == ASSUME save' = NoSave PROVE SaveInv'
BY DEF SaveInv

\* The save goes on with what it has read.
LEMMA SaveGoesOn ==
  ASSUME ProxyInv, save # NoSave, SaveFields \subseteq DOMAIN save',
         save'.stored = save.stored, save'.proxy = save.proxy,
         save'.pc \in {"read", "check", "replace"} => proxySecret' = save.proxy,
         save'.pc # "replace"
  PROVE  SaveInv'
BY DEF ProxyInv, SaveInv

\* The settings and the secret change, the save does not.
LEMMA SaveStays ==
  ASSUME ProxyInv, save' = save, proxySecret' = proxySecret
  PROVE  SaveInv'
BY DEF ProxyInv, SaveInv, Wanted, ChangedKeys

\* The inductive invariant behind ProxyHasAddress.
THEOREM ProxyKept == ConfSpec => []ProxyInv
<1>1. ConfInit => ProxyInv
  <2> SUFFICES ASSUME ConfInit PROVE ProxyInv
    OBVIOUS
  <2>1. DOMAIN settings = RowKey /\ settings["proxy_on"] = Unset
    BY CatalogKeys DEF ConfInit
  <2>2. ProxySet(settings, proxySecret)
    BY <2>1 DEF ProxySet, Unset
  <2>3. ValidConfiguration(rendered)
    BY <2>2, EffectiveProxy DEF ConfInit
  <2> QED
    BY <2>1, <2>2, <2>3 DEF ConfInit, ProxyInv, SaveInv
<1>2. ProxyInv /\ [ConfNext]_confVars => ProxyInv'
  <2> SUFFICES ASSUME ProxyInv, [ConfNext]_confVars PROVE ProxyInv'
    OBVIOUS
  <2> USE DEF confStore, confRuntime
  <2>0. /\ DOMAIN settings = RowKey /\ DOMAIN running = ConfAccount
        /\ ProxySet(settings, proxySecret)
        /\ ValidConfiguration(rendered)
        /\ \A a \in ConfAccount : ValidConfiguration(running[a])
        /\ ValidConfiguration(AccountFiles(settings, proxySecret))
    BY EffectiveProxy DEF ProxyInv
  \* The stages of a save.
  <2>a. ASSUME save.pc \in {"read", "check", "replace", "apply", "restore", "reapply"}
        PROVE  /\ save # NoSave /\ SaveFields \subseteq DOMAIN save
               /\ DOMAIN save.stored = RowKey /\ ProxySet(save.stored, save.proxy)
    BY <2>a DEF ProxyInv, SaveInv, NoSave
  <2>1. ASSUME NEW r \in Requests, UpdateConfiguration(r)
        PROVE  ProxyInv'
    <3>1. /\ UNCHANGED <<settings, proxySecret, rendered, running>>
          /\ save' = [pc |-> "read", request |-> WithoutBlankProxy(r), stored |-> settings,
                      proxy |-> proxySecret, changed |-> {}, todo |-> <<>>]
      BY <2>1 DEF UpdateConfiguration
    <3>2. /\ SaveFields \subseteq DOMAIN save' /\ save'.stored = settings
          /\ save'.proxy = proxySecret /\ save'.pc = "read"
      BY <3>1 DEF SaveFields
    <3>3. SaveInv'
      BY <2>0, <3>1, <3>2 DEF SaveInv
    <3> QED
      BY <2>0, <3>1, <3>3 DEF ProxyInv
  <2>2. CASE CurrentConfiguration
    <3>1. /\ save.pc = "read" /\ UNCHANGED <<proxySecret, rendered, running>>
          /\ save' = [save EXCEPT !.pc = "check", !.stored = Migrated(save.stored)]
          /\ settings' = settings \/ settings' = Migrated(save.stored)
      BY <2>2 DEF CurrentConfiguration
    <3>2. /\ save # NoSave /\ SaveFields \subseteq DOMAIN save
          /\ DOMAIN save.stored = RowKey /\ ProxySet(save.stored, proxySecret)
          /\ save.proxy = proxySecret
      BY <2>a, <3>1 DEF ProxyInv, SaveInv
    <3>3. /\ DOMAIN Migrated(save.stored) = RowKey
          /\ ProxySet(Migrated(save.stored), proxySecret)
      BY <3>2, MigratedProxy DEF ProxySet
    <3>4. /\ SaveFields \subseteq DOMAIN save' /\ save'.stored = Migrated(save.stored)
          /\ save'.proxy = save.proxy /\ save'.pc = "check"
      BY <3>1, <3>2 DEF SaveFields
    <3>5. SaveInv'
      BY <3>1, <3>2, <3>3, <3>4 DEF SaveInv
    <3>6. DOMAIN settings' = RowKey /\ ProxySet(settings', proxySecret)
      BY <2>0, <3>1, <3>3
    <3> QED
      BY <2>0, <3>1, <3>5, <3>6 DEF ProxyInv, ProxySet
  <2>3. CASE CheckConfiguration
    <3>1. save.pc = "check" /\ UNCHANGED <<settings, proxySecret, rendered, running>>
      BY <2>3 DEF CheckConfiguration
    <3>2. SaveInv'
      <4>1. CASE ~RequestAccepted
        BY <2>3, <4>1, NothingSaved DEF CheckConfiguration
      <4>2. CASE RequestAccepted
        <5>1. save' = [save EXCEPT !.pc = "replace", !.changed = ChangedKeys]
          BY <2>3, <4>2 DEF CheckConfiguration
        <5>2. /\ save # NoSave /\ SaveFields \subseteq DOMAIN save
              /\ DOMAIN save.stored = RowKey /\ ProxySet(save.stored, save.proxy)
              /\ save.proxy = proxySecret
          BY <2>a, <3>1 DEF ProxyInv, SaveInv
        <5>3. /\ SaveFields \subseteq DOMAIN save' /\ save'.stored = save.stored
              /\ save'.proxy = save.proxy /\ save'.pc = "replace"
              /\ save'.request = save.request /\ save'.changed = ChangedKeys
          BY <5>1, <5>2 DEF SaveFields
        <5>4. Wanted' = Wanted
          BY <5>3 DEF Wanted
        <5>5. ChangedKeys' = ChangedKeys
          BY <5>3, <5>4 DEF ChangedKeys
        <5>6. ValidConfiguration(Wanted)
          BY <4>2 DEF RequestAccepted
        <5> QED
          BY <3>1, <5>2, <5>3, <5>4, <5>5, <5>6 DEF SaveInv
      <4> QED
        BY <4>1, <4>2
    <3> QED
      BY <2>0, <3>1, <3>2 DEF ProxyInv
  <2>4. CASE SaveFails \/ SaveReturns
    <3>1. save' = NoSave /\ UNCHANGED <<settings, proxySecret, rendered, running>>
      BY <2>4 DEF SaveFails, SaveReturns
    <3> QED
      BY <2>0, <3>1, NothingSaved DEF ProxyInv
  <2>5. CASE ReplaceConfiguration
    <3> DEFINE table == [k \in RowKey |-> IF k \in save.changed \ {"proxy"} THEN Wanted[k]
                                          ELSE save.stored[k]]
    <3>1. /\ save.pc = "replace" /\ settings' = table /\ proxySecret' = Wanted.proxy
          /\ save' = [save EXCEPT !.pc = "apply", !.todo = ApplySteps(Modes)]
          /\ UNCHANGED <<rendered, running>>
      BY <2>5 DEF ReplaceConfiguration, ReplaceSettingsAndSecret
    <3>2. ValidConfiguration(Wanted) /\ save.changed = ChangedKeys
      BY <2>a, <3>1 DEF ProxyInv, SaveInv
    <3>3. DOMAIN table = RowKey /\ ProxySet(table, Wanted.proxy)
      <4>1. table["proxy_on"] = IF "proxy_on" \in ChangedKeys THEN Wanted["proxy_on"]
                                ELSE save.stored["proxy_on"]
        BY <3>2, CatalogKeys
      <4>2. "proxy_on" \notin ChangedKeys =>
               Wanted["proxy_on"] = Effective(save.stored, save.proxy)["proxy_on"]
        BY CatalogKeys DEF ChangedKeys
      <4>3. Effective(save.stored, save.proxy)["proxy_on"] =
               IF save.stored["proxy_on"] = Unset THEN 1 ELSE save.stored["proxy_on"]
        BY CatalogKeys DEF Effective
      <4>4. table["proxy_on"] = 2 => Wanted["proxy_on"] = 2
        BY <4>1, <4>2, <4>3 DEF Unset
      <4> QED
        BY <3>2, <4>4 DEF ProxySet, ValidConfiguration
    <3> HIDE DEF table
    <3>4. SaveInv'
      <4>1. /\ save # NoSave /\ SaveFields \subseteq DOMAIN save
        BY <2>a, <3>1
      <4>2. /\ SaveFields \subseteq DOMAIN save' /\ save'.stored = save.stored
            /\ save'.proxy = save.proxy /\ save'.pc = "apply"
        BY <3>1, <4>1 DEF SaveFields
      <4> QED
        BY <4>1, <4>2, SaveGoesOn
    <3> QED
      BY <2>0, <3>1, <3>3, <3>4 DEF ProxyInv
  <2>6. CASE ApplyConfigurationStep
    <3>1. /\ save.pc \in {"apply", "reapply"} /\ UNCHANGED <<settings, proxySecret>>
          /\ save' = [save EXCEPT !.todo = Tail(@)]
          /\ rendered' = rendered \/ rendered' = AccountFiles(settings, proxySecret)
          /\ DOMAIN running' = ConfAccount
          /\ \A a \in ConfAccount : running'[a] = rendered \/ running'[a] = running[a]
      BY <2>6 DEF ApplyConfigurationStep, Applying
    <3>2. SaveInv'
      <4>1. /\ save # NoSave /\ SaveFields \subseteq DOMAIN save
        BY <2>a, <3>1
      <4>2. /\ SaveFields \subseteq DOMAIN save' /\ save'.stored = save.stored
            /\ save'.proxy = save.proxy /\ save'.pc = save.pc
        BY <3>1, <4>1 DEF SaveFields
      <4> QED
        BY <3>1, <4>1, <4>2, SaveGoesOn
    <3>3. ValidConfiguration(rendered')
          /\ \A a \in ConfAccount : ValidConfiguration(running'[a])
      BY <2>0, <3>1
    <3> QED
      BY <2>0, <3>1, <3>2, <3>3 DEF ProxyInv, ValidConfiguration
  <2>7. CASE ApplyFails
    <3>1. /\ UNCHANGED <<settings, proxySecret, rendered, running>>
          /\ save.pc \in {"apply", "reapply"}
          /\ save' = NoSave \/ save' = [save EXCEPT !.pc = "restore"]
      BY <2>7 DEF ApplyFails, Applying
    <3>2. CASE save' = NoSave
      BY <2>0, <3>1, <3>2, NothingSaved DEF ProxyInv
    <3>3. CASE save' = [save EXCEPT !.pc = "restore"]
      <4>1. /\ save # NoSave /\ SaveFields \subseteq DOMAIN save
        BY <2>a, <3>1
      <4>2. /\ SaveFields \subseteq DOMAIN save' /\ save'.stored = save.stored
            /\ save'.proxy = save.proxy /\ save'.pc = "restore"
        BY <3>3, <4>1 DEF SaveFields
      <4>3. SaveInv'
        BY <4>1, <4>2, SaveGoesOn
      <4> QED
        BY <2>0, <3>1, <4>3 DEF ProxyInv
    <3> QED
      BY <3>1, <3>2, <3>3
  <2>8. CASE RestoreConfiguration
    <3>1. /\ save.pc = "restore" /\ UNCHANGED <<rendered, running>>
          /\ \/ settings' = save.stored /\ proxySecret' = save.proxy
             \/ UNCHANGED <<settings, proxySecret>>
          /\ \E kept \in BOOLEAN :
                save' = [pc |-> "reapply", request |-> save.request,
                         stored |-> save.stored, proxy |-> save.proxy,
                         changed |-> save.changed, todo |-> Reapplied, storeKept |-> kept]
      BY <2>8 DEF RestoreConfiguration, ReplaceSettingsAndSecret
    <3>2. /\ save # NoSave /\ DOMAIN save.stored = RowKey
          /\ ProxySet(save.stored, save.proxy)
      BY <2>a, <3>1
    <3>3. /\ SaveFields \subseteq DOMAIN save' /\ save'.stored = save.stored
          /\ save'.proxy = save.proxy /\ save'.pc = "reapply"
      BY <3>1 DEF SaveFields
    <3>4. SaveInv'
      BY <3>2, <3>3, SaveGoesOn
    <3>5. DOMAIN settings' = RowKey /\ ProxySet(settings', proxySecret')
      BY <2>0, <3>1, <3>2
    <3> QED
      BY <2>0, <3>1, <3>4, <3>5 DEF ProxyInv, ProxySet
  <2>9. CASE AdminRestarts
    <3>1. /\ save' = NoSave /\ UNCHANGED <<settings, proxySecret, running>>
          /\ rendered' = AccountFiles(settings, proxySecret)
      BY <2>9 DEF AdminRestarts
    <3> QED
      BY <2>0, <3>1, NothingSaved DEF ProxyInv
  <2>10. CASE \/ SaveGeneralSettings \/ SaveOnboarding \/ SaveNotificationSettings
              \/ DisableNotifications
    <3>1. /\ UNCHANGED <<proxySecret, rendered, running, save>>
          /\ \E k \in {"name", "skipped", "notify"} : \E v \in ConfValue :
                settings' = [settings EXCEPT ![k] = v]
      BY <2>10 DEF SaveGeneralSettings, SaveOnboarding, SaveRow, SaveNotificationSettings,
           DisableNotifications, UpdateSettings, ConfValue
    <3>2. DOMAIN settings' = RowKey /\ settings'["proxy_on"] = settings["proxy_on"]
      BY <2>0, <3>1, CatalogKeys
    <3>3. SaveInv'
      BY <3>1, SaveStays
    <3> QED
      BY <2>0, <3>1, <3>2, <3>3 DEF ProxyInv, ProxySet
  <2>11. CASE SaveWebhook \/ ClearWebhook \/ UNCHANGED confVars
    <3>1. UNCHANGED <<settings, proxySecret, rendered, running, save>>
      BY <2>11 DEF SaveWebhook, ClearWebhook, confVars
    <3> QED
      BY <2>0, <3>1, SaveStays DEF ProxyInv
  <2>12. ASSUME NEW a \in ConfAccount, ToggleAccount(a)
         PROVE  ProxyInv'
    <3>1. /\ UNCHANGED <<settings, proxySecret, save>>
          /\ rendered' = AccountFiles(settings, proxySecret)
          /\ running' = running \/ running' = [running EXCEPT ![a] = rendered']
      BY <2>12 DEF ToggleAccount
    <3>2. /\ DOMAIN running' = ConfAccount
          /\ \A b \in ConfAccount : running'[b] = rendered' \/ running'[b] = running[b]
      BY <2>0, <3>1
    <3>3. SaveInv'
      BY <3>1, SaveStays
    <3>4. ValidConfiguration(rendered')
          /\ \A b \in ConfAccount : ValidConfiguration(running'[b])
      BY <2>0, <3>1, <3>2
    <3> QED
      BY <2>0, <3>1, <3>2, <3>3, <3>4 DEF ProxyInv, ValidConfiguration
  <2> QED
    BY <2>1, <2>2, <2>3, <2>4, <2>5, <2>6, <2>7, <2>8, <2>9, <2>10, <2>11, <2>12 DEF ConfNext
<1> QED
  BY <1>1, <1>2, PTL DEF ConfSpec

\* The default proxy is never switched on without an address, in the store, in
\* a file or in a container, at any moment of a save, a rollback or a crash,
\* whatever the other pages save meanwhile (ReplaceSettingsAndSecret).
THEOREM ProxyAddressKept == ConfSpec => []ProxyHasAddress
<1>1. ProxyInv => ProxyHasAddress
  BY EffectiveProxy DEF ProxyInv, ProxyHasAddress
<1> QED
  BY <1>1, ProxyKept, PTL

-----------------------------------------------------------------------------
(* The Configuration Center: what runs is what is stored. *)

\* The steps of ApplyConfiguration.
ConfStep == {"project", "render", "collector"} \cup ConfAccount

\* x is still to be done.
Has(x, s) == \E i \in DOMAIN s : s[i] = x

\* The files are rendered before every account is looked at.
RenderFirst(s) ==
    \E i \in DOMAIN s : /\ s[i] = "render"
                        /\ \A a \in ConfAccount : \E j \in DOMAIN s : j > i /\ s[j] = a

\* What a sequence has, it has at the front or the back of a longer one.
LEMMA HasConcat ==
  ASSUME NEW s \in Seq(ConfStep), NEW t \in Seq(ConfStep)
  PROVE  /\ s \o t \in Seq(ConfStep)
         /\ \A x : Has(x, s \o t) <=> Has(x, s) \/ Has(x, t)
         /\ RenderFirst(s) \/ RenderFirst(t) => RenderFirst(s \o t)
<1> DEFINE c == s \o t
<1>1. /\ c \in Seq(ConfStep) /\ Len(c) = Len(s) + Len(t)
      /\ \A i \in 1..Len(c) : c[i] = IF i <= Len(s) THEN s[i] ELSE t[i - Len(s)]
  BY ConcatProperties
<1>2. /\ Len(s) \in Nat /\ Len(t) \in Nat /\ DOMAIN s = 1..Len(s) /\ DOMAIN t = 1..Len(t)
      /\ DOMAIN c = 1..Len(c)
  BY <1>1
<1> HIDE DEF c
<1>3. ASSUME NEW i \in DOMAIN s PROVE i \in DOMAIN c /\ c[i] = s[i]
  BY <1>1, <1>2
<1>4. ASSUME NEW i \in DOMAIN t PROVE i + Len(s) \in DOMAIN c /\ c[i + Len(s)] = t[i]
  <2>1. i + Len(s) \in 1..Len(c) /\ ~(i + Len(s) <= Len(s)) /\ i + Len(s) - Len(s) = i
    BY <1>1, <1>2
  <2> QED
    BY <1>1, <1>2, <2>1
<1>5. \A x : Has(x, s) \/ Has(x, t) => Has(x, c)
  BY <1>3, <1>4 DEF Has
<1>8. ASSUME NEW i \in DOMAIN c
      PROVE  \/ i \in DOMAIN s /\ c[i] = s[i]
             \/ i - Len(s) \in DOMAIN t /\ c[i] = t[i - Len(s)]
  <2>1. CASE i <= Len(s)
    BY <1>1, <1>2, <2>1
  <2>2. CASE ~(i <= Len(s))
    <3>1. i - Len(s) \in 1..Len(t)
      BY <1>1, <1>2, <2>2
    <3> QED
      BY <1>1, <1>2, <2>2, <3>1
  <2> QED
    BY <2>1, <2>2
<1>9. \A x : Has(x, c) => Has(x, s) \/ Has(x, t)
  BY <1>8 DEF Has
<1>6. RenderFirst(s) => RenderFirst(c)
  BY <1>3 DEF RenderFirst
<1>7. RenderFirst(t) => RenderFirst(c)
  <2> SUFFICES ASSUME RenderFirst(t) PROVE RenderFirst(c)
    OBVIOUS
  <2>1. PICK i \in DOMAIN t : /\ t[i] = "render"
                              /\ \A a \in ConfAccount : \E j \in DOMAIN t : j > i /\ t[j] = a
    BY DEF RenderFirst
  <2>2. i + Len(s) \in DOMAIN c /\ c[i + Len(s)] = "render"
    BY <1>4, <2>1
  <2>3. ASSUME NEW a \in ConfAccount PROVE \E j \in DOMAIN c : j > i + Len(s) /\ c[j] = a
    <3>1. PICK j \in DOMAIN t : j > i /\ t[j] = a
      BY <2>1
    <3>2. j + Len(s) \in DOMAIN c /\ c[j + Len(s)] = a
      BY <1>4, <3>1
    <3>3. j + Len(s) > i + Len(s)
      BY <1>2, <3>1
    <3> QED
      BY <3>2, <3>3
  <2> QED
    BY <2>2, <2>3 DEF RenderFirst
<1> QED
  BY <1>1, <1>5, <1>6, <1>7, <1>9 DEF c

\* The step that is done is off the list, the others are not.
LEMMA StepDone ==
  ASSUME NEW s \in Seq(ConfStep), s # <<>>
  PROVE  /\ Tail(s) \in Seq(ConfStep) /\ Head(s) \in ConfStep
         /\ \A x : Has(x, s) <=> Head(s) = x \/ Has(x, Tail(s))
         /\ RenderFirst(s) =>
               \/ RenderFirst(Tail(s))
               \/ Head(s) = "render" /\ \A a \in ConfAccount : Has(a, Tail(s))
<1>1. Len(s) \in Nat /\ Len(s) >= 1 /\ DOMAIN s = 1..Len(s)
  OBVIOUS
<1>2. /\ Head(s) = s[1] /\ Tail(s) \in Seq(ConfStep) /\ DOMAIN Tail(s) = 1..(Len(s) - 1)
      /\ \A i \in 1..(Len(s) - 1) : Tail(s)[i] = s[i + 1]
  BY <1>1, HeadTailProperties
<1>3. ASSUME NEW i \in DOMAIN s, i # 1 PROVE i - 1 \in DOMAIN Tail(s) /\ Tail(s)[i - 1] = s[i]
  <2>1. i - 1 \in 1..(Len(s) - 1) /\ i - 1 + 1 = i
    BY <1>1, <1>3
  <2> QED
    BY <1>2, <2>1
<1>4. Head(s) \in ConfStep
  BY <1>1, <1>2
<1>5. \A x : Has(x, s) => Head(s) = x \/ Has(x, Tail(s))
  BY <1>2, <1>3 DEF Has
<1>7. ASSUME NEW i \in DOMAIN Tail(s) PROVE i + 1 \in DOMAIN s /\ s[i + 1] = Tail(s)[i]
  BY <1>1, <1>2
<1>8. \A x : Head(s) = x \/ Has(x, Tail(s)) => Has(x, s)
  BY <1>1, <1>2, <1>7 DEF Has
<1>6. ASSUME RenderFirst(s)
      PROVE  \/ RenderFirst(Tail(s))
             \/ Head(s) = "render" /\ \A a \in ConfAccount : Has(a, Tail(s))
  <2>1. PICK i \in DOMAIN s : /\ s[i] = "render"
                              /\ \A a \in ConfAccount : \E j \in DOMAIN s : j > i /\ s[j] = a
    BY <1>6 DEF RenderFirst
  <2>2. ASSUME NEW a \in ConfAccount
        PROVE  \E j \in DOMAIN Tail(s) : j > i - 1 /\ Tail(s)[j] = a
    <3>1. PICK j \in DOMAIN s : j > i /\ s[j] = a
      BY <2>1
    <3>2. j # 1 /\ j - 1 > i - 1
      BY <1>1, <2>1, <3>1
    <3> QED
      BY <1>3, <3>1, <3>2
  <2>3. CASE i = 1
    BY <1>2, <2>1, <2>2, <2>3 DEF Has
  <2>4. CASE i # 1
    BY <1>3, <2>1, <2>2, <2>4 DEF RenderFirst
  <2> QED
    BY <2>3, <2>4
<1> QED
  BY <1>2, <1>4, <1>5, <1>6, <1>8

\* A list of one step, and of rendering and all the accounts.
LEMMA SingleSteps ==
  /\ <<>> \in Seq(ConfStep) /\ \A x : ~Has(x, <<>>)
  /\ \A x \in ConfStep : <<x>> \in Seq(ConfStep) /\ \A y : Has(y, <<x>>) <=> y = x
  /\ <<"render">> \o ConfAccounts \in Seq(ConfStep)
  /\ RenderFirst(<<"render">> \o ConfAccounts)
  /\ ~Has("project", <<"render">> \o ConfAccounts)
<1>1. /\ <<>> \in Seq(ConfStep) /\ \A x : ~Has(x, <<>>)
      /\ \A x \in ConfStep : <<x>> \in Seq(ConfStep) /\ \A y : Has(y, <<x>>) <=> y = x
  BY DEF Has
<1>2. ConfAccounts \in Seq(ConfStep)
  BY ConfAssumption DEF ConfStep
<1> DEFINE r == <<"render">>
<1>3. r \in Seq(ConfStep) /\ Len(r) = 1 /\ r[1] = "render"
  BY <1>1 DEF ConfStep
<1> HIDE DEF r
<1> DEFINE c == r \o ConfAccounts
<1>4. /\ c \in Seq(ConfStep) /\ Len(c) = 1 + Len(ConfAccounts)
      /\ \A i \in 1..Len(c) : c[i] = IF i <= 1 THEN r[i] ELSE ConfAccounts[i - 1]
  <2>1. /\ c \in Seq(ConfStep) /\ Len(c) = Len(r) + Len(ConfAccounts)
        /\ \A i \in 1..Len(c) : c[i] = IF i <= Len(r) THEN r[i] ELSE ConfAccounts[i - Len(r)]
    BY SMTT(30), <1>2, <1>3, ConcatProperties
  <2> QED
    BY <1>3, <2>1
<1>5. /\ Len(ConfAccounts) \in Nat /\ DOMAIN ConfAccounts = 1..Len(ConfAccounts)
      /\ DOMAIN c = 1..Len(c)
  BY <1>2, <1>4
<1> HIDE DEF c
<1>6. 1 \in DOMAIN c /\ c[1] = "render"
  BY <1>3, <1>4, <1>5
<1>7. ASSUME NEW a \in ConfAccount PROVE \E j \in DOMAIN c : j > 1 /\ c[j] = a
  <2>1. PICK i \in DOMAIN ConfAccounts : ConfAccounts[i] = a
    BY DEF ConfAccount, Range
  <2>2. i + 1 \in 1..Len(c) /\ i + 1 > 1 /\ ~(i + 1 <= 1) /\ i + 1 - 1 = i
    BY <1>4, <1>5, <2>1
  <2> QED
    BY <1>4, <1>5, <2>1, <2>2
<1>8. RenderFirst(c)
  BY <1>6, <1>7 DEF RenderFirst
<1>9. ~Has("project", c)
  <2> SUFFICES ASSUME NEW i \in 1..Len(c), c[i] = "project" PROVE FALSE
    BY <1>5 DEF Has
  <2>1. CASE i <= 1
    BY <1>3, <1>4, <2>1
  <2>2. CASE ~(i <= 1)
    <3>1. i - 1 \in 1..Len(ConfAccounts)
      BY <1>4, <1>5, <2>2
    <3>2. ConfAccounts[i - 1] \in ConfAccount
      BY <3>1, ConfAssumption, ElementOfSeq
    <3> QED
      BY <1>4, <2>2, <3>2, ConfAssumption
  <2> QED
    BY <2>1, <2>2
<1> QED
  BY <1>1, <1>4, <1>8, <1>9 DEF c, r

\* The steps of the modes that were changed.
LEMMA StepsOfModes ==
  ASSUME NEW modes
  PROVE  /\ ApplySteps(modes) \in Seq(ConfStep)
         /\ "deployment" \in modes => Has("project", ApplySteps(modes))
         /\ "accounts" \in modes => RenderFirst(ApplySteps(modes))
         /\ modes \cap {"collector", "quota"} # {} => Has("collector", ApplySteps(modes))
         /\ Has("project", ApplySteps(modes)) => "deployment" \in modes
         /\ \A x \in ConfAccount : Has(x, ApplySteps(modes)) => "accounts" \in modes
<1> DEFINE p == IF "deployment" \in modes THEN <<"project">> ELSE <<>>
<1> DEFINE a == IF "accounts" \in modes THEN <<"render">> \o ConfAccounts ELSE <<>>
<1> DEFINE c == IF modes \cap {"collector", "quota"} # {} THEN <<"collector">> ELSE <<>>
<1>0. "project" \in ConfStep /\ "collector" \in ConfStep
      /\ \A x \in ConfAccount : x # "project" /\ x # "collector"
  BY ConfAssumption DEF ConfStep
<1>1. /\ p \in Seq(ConfStep) /\ ("deployment" \in modes <=> Has("project", p))
      /\ \A x \in ConfAccount : ~Has(x, p)
  BY <1>0, SingleSteps
<1>2. /\ a \in Seq(ConfStep) /\ ("accounts" \in modes => RenderFirst(a)) /\ ~Has("project", a)
      /\ \A x \in ConfAccount : Has(x, a) => "accounts" \in modes
  BY SingleSteps
<1>3. /\ c \in Seq(ConfStep) /\ (modes \cap {"collector", "quota"} # {} => Has("collector", c))
      /\ ~Has("project", c) /\ \A x \in ConfAccount : ~Has(x, c)
  BY <1>0, SingleSteps
<1>4. ApplySteps(modes) = (p \o a) \o c
  BY DEF ApplySteps
<1> HIDE DEF p, a, c
<1>5. /\ p \o a \in Seq(ConfStep) /\ \A x : Has(x, p \o a) <=> Has(x, p) \/ Has(x, a)
      /\ RenderFirst(p) \/ RenderFirst(a) => RenderFirst(p \o a)
  BY <1>1, <1>2, HasConcat
<1> DEFINE b == p \o a
<1> HIDE DEF b
<1>6. /\ b \in Seq(ConfStep) /\ \A x : Has(x, b) <=> Has(x, p) \/ Has(x, a)
      /\ RenderFirst(a) => RenderFirst(b)
  BY <1>5 DEF b
<1>7. /\ b \o c \in Seq(ConfStep) /\ \A x : Has(x, b \o c) <=> Has(x, b) \/ Has(x, c)
      /\ RenderFirst(b) \/ RenderFirst(c) => RenderFirst(b \o c)
  BY <1>3, <1>6, HasConcat
<1>8. ApplySteps(modes) = b \o c
  BY <1>4 DEF b
<1> QED
  BY <1>1, <1>2, <1>3, <1>6, <1>7, <1>8

Listen(s) == IF s["listen"] = Unset THEN 1 ELSE s["listen"]
CollectorMode == {"collector", "quota"}

\* Two tables with their secrets agree on what the modes outside `modes` need.
Agree(s, p, t, q, modes) ==
    /\ "deployment" \notin modes => s["listen"] = t["listen"]
    /\ "accounts" \notin modes => s["retry"] = t["retry"] /\ s["proxy_on"] = t["proxy_on"] /\ p = q
    /\ modes \cap CollectorMode = {} =>
           ZoneName(s) = ZoneName(t) /\ s["unlimited"] = t["unlimited"]

\* A table and its secret are in force but for the modes in `modes`: the address
\* e in the environment, r of the accounts in g, c in the collector.
Runs(s, p, e, r, g, c, modes) ==
    /\ "deployment" \notin modes => e = Listen(s)
    /\ "accounts" \notin modes => \A a \in g : r[a] = AccountFiles(s, p)
    /\ modes \cap CollectorMode = {} => c = CollectorSettings(s)

InForce(modes) ==
    Runs(settings, proxySecret, listenEnv, running, groupEnabled, collecting, modes)

\* What is not in force yet of the changed modes is still ahead.
Under(todo) ==
    /\ "deployment" \in Modes => Has("project", todo) \/ listenEnv = Listen(settings)
    /\ "accounts" \in Modes =>
           \/ RenderFirst(todo)
           \/ /\ rendered = AccountFiles(settings, proxySecret)
              /\ \A a \in groupEnabled :
                    running[a] = AccountFiles(settings, proxySecret) \/ Has(a, todo)
    /\ Modes \cap CollectorMode # {} =>
           Has("collector", todo) \/ collecting = CollectorSettings(settings)

\* Nothing else is ahead.
OnlyChanged(todo) ==
    /\ Has("project", todo) => "deployment" \in Modes
    /\ \A a \in ConfAccount : Has(a, todo) => "accounts" \in Modes

\* A save before it has written the store, after, and one that brings about what
\* is stored.
Early == save.pc \in {"read", "check", "replace"}
Late == save.pc \in {"apply", "restore", "reapply"}
Bringing == save.pc = "apply" \/ (save.pc = "reapply" /\ ~save.storeKept)

RowsRead == Agree(save.stored, save.proxy, settings, proxySecret, {})
RowsUnchanged == Agree(save.stored, save.proxy, settings, proxySecret, Modes)

RunInv ==
    /\ groupEnabled \subseteq ConfAccount
    /\ ~Late => InForce(stale)
    /\ Late => InForce(stale \cup Modes) /\ RowsUnchanged
    /\ Early => RowsRead
    /\ save.pc = "replace" => \A k \in DOMAIN save.request : NormalForm(save.request[k]) # Unset
    /\ save.pc = "apply" => Listen(settings) = Wanted["listen"]
    /\ save.pc = "reapply" => "storeKept" \in DOMAIN save /\ (~save.storeKept => RowsRead)
    /\ Bringing => Under(save.todo)
    /\ save.pc \in {"apply", "reapply"} =>
           save.todo \in Seq(ConfStep) /\ OnlyChanged(save.todo)

\* What the modes need of a table is the same for tables that agree.
LEMMA AgreeForce ==
  ASSUME NEW s, NEW p, NEW t, NEW q, NEW modes, Agree(s, p, t, q, modes)
  PROVE  /\ "deployment" \notin modes => Listen(s) = Listen(t)
         /\ "accounts" \notin modes => AccountFiles(s, p) = AccountFiles(t, q)
         /\ modes \cap CollectorMode = {} => CollectorSettings(s) = CollectorSettings(t)
<1>1. /\ "deployment" \notin modes => Listen(s) = Listen(t)
  BY DEF Agree, Listen
<1>2. ASSUME "accounts" \notin modes PROVE AccountFiles(s, p) = AccountFiles(t, q)
  <2>1. \A k \in {"retry", "proxy_on", "proxy"} : k \in CatalogKey
    BY CatalogKeys
  <2>2. \A k \in {"retry", "proxy_on", "proxy"} : Effective(s, p)[k] = Effective(t, q)[k]
    BY <1>2, <2>1 DEF Agree, Effective
  <2> QED
    BY <2>2 DEF AccountFiles
<1>3. ASSUME modes \cap CollectorMode = {} PROVE CollectorSettings(s) = CollectorSettings(t)
  <2>1. "unlimited" \in CatalogKey
    BY CatalogKeys
  <2>2. Effective(s, Unset)["unlimited"] = Effective(t, Unset)["unlimited"]
    BY <1>3, <2>1 DEF Agree, Effective
  <2> QED
    BY <1>3, <2>2 DEF Agree, CollectorSettings
<1> QED
  BY <1>1, <1>2, <1>3

\* The environment is made for the effective address.
LEMMA EffectiveListen == \A s, p : Effective(s, p)["listen"] = Listen(s)
BY CatalogKeys DEF Effective, Listen

\* Tables that agree agree on less, either way round.
LEMMA AgreeLess ==
  ASSUME NEW s, NEW p, NEW t, NEW q, NEW m, NEW n, m \subseteq n, Agree(s, p, t, q, m)
  PROVE  Agree(s, p, t, q, n) /\ Agree(t, q, s, p, n)
BY DEF Agree

\* Agreement goes from table to table.
LEMMA AgreeTrans ==
  ASSUME NEW s, NEW p, NEW t, NEW q, NEW u, NEW r, NEW m,
         Agree(s, p, t, q, m), Agree(t, q, u, r, m)
  PROVE  Agree(s, p, u, r, m)
BY DEF Agree

\* Another table that agrees with the stored one, with nothing applied.
LEMMA ForceStays ==
  ASSUME NEW s, NEW p, NEW t, NEW q, NEW e, NEW r, NEW g, NEW c, NEW m, NEW n,
         m \subseteq n, Runs(s, p, e, r, g, c, m), Agree(s, p, t, q, n)
  PROVE  Runs(t, q, e, r, g, c, n)
<1>1. /\ "deployment" \notin n => Listen(s) = Listen(t)
      /\ "accounts" \notin n => AccountFiles(s, p) = AccountFiles(t, q)
      /\ n \cap CollectorMode = {} => CollectorSettings(s) = CollectorSettings(t)
  BY AgreeForce
<1> QED
  BY <1>1 DEF Runs, CollectorMode

\* A table agrees with itself.
LEMMA AgreeSelf == \A s, p, m : Agree(s, p, s, p, m)
BY DEF Agree

\* A table agrees with itself migrated: the zone only moves to its new row.
LEMMA MigratedAgrees ==
  ASSUME NEW s, NEW p, DOMAIN s = RowKey
  PROVE  Agree(Migrated(s), p, s, p, {}) /\ Agree(s, p, Migrated(s), p, {})
<1>1. CASE s.old_zone = Unset
  BY <1>1, AgreeSelf DEF Migrated
<1>2. CASE s.old_zone # Unset
  <2>1. Migrated(s) = [s EXCEPT !.zone = ZoneName(s), !.old_zone = Unset]
    BY <1>2 DEF Migrated
  <2>2. /\ \A k \in {"listen", "retry", "proxy_on", "unlimited"} : Migrated(s)[k] = s[k]
        /\ Migrated(s)["zone"] = ZoneName(s) /\ Migrated(s)["old_zone"] = Unset
    BY <2>1, CatalogKeys
  <2>3. ZoneName(s) # Unset
    BY DEF ZoneName, Unset
  <2>4. ZoneName(Migrated(s)) = ZoneName(s)
    BY <2>2, <2>3 DEF ZoneName
  <2> QED
    BY <2>2, <2>4 DEF Agree
<1> QED
  BY <1>1, <1>2

\* A save that is over, with the stored configuration in force.
LEMMA SaveOver ==
  ASSUME save' = NoSave, groupEnabled' \subseteq ConfAccount, InForce(stale)'
  PROVE  RunInv'
<1>1. save'.pc = "none"
  BY DEF NoSave
<1>2. ~Late' /\ ~Early' /\ ~Bringing'
  BY <1>1 DEF Late, Early, Bringing
<1> QED
  BY <1>1, <1>2 DEF RunInv

\* The modes of the changed keys.
LEMMA ModesOfKeys ==
  /\ "listen" \in save.changed => "deployment" \in Modes
  /\ "retry" \in save.changed => "accounts" \in Modes
  /\ "proxy_on" \in save.changed => "accounts" \in Modes
  /\ "proxy" \in save.changed => "accounts" \in Modes
  /\ "zone" \in save.changed => Modes \cap CollectorMode # {}
  /\ "unlimited" \in save.changed => Modes \cap CollectorMode # {}
<1>1. /\ ApplyMode["listen"] = "deployment" /\ ApplyMode["retry"] = "accounts"
      /\ ApplyMode["proxy_on"] = "accounts" /\ ApplyMode["proxy"] = "accounts"
      /\ ApplyMode["zone"] = "collector" /\ ApplyMode["unlimited"] = "quota"
  BY DEF ApplyMode
<1> QED
  BY <1>1 DEF Modes, CollectorMode

\* At the start of applying everything that was changed is ahead.
LEMMA AllAhead ==
  ASSUME save'.todo = ApplySteps(Modes'), save'.pc \in {"apply", "reapply"}
  PROVE  /\ Under(save.todo)' /\ save'.todo \in Seq(ConfStep) /\ OnlyChanged(save.todo)'
<1>1. /\ save'.todo \in Seq(ConfStep)
      /\ "deployment" \in Modes' => Has("project", save'.todo)
      /\ "accounts" \in Modes' => RenderFirst(save'.todo)
      /\ Modes' \cap {"collector", "quota"} # {} => Has("collector", save'.todo)
      /\ Has("project", save'.todo) => "deployment" \in Modes'
      /\ \A x \in ConfAccount : Has(x, save'.todo) => "accounts" \in Modes'
  BY StepsOfModes
<1>2. Under(save.todo)'
  BY <1>1 DEF Under, CollectorMode, Has, RenderFirst
<1>3. OnlyChanged(save.todo)'
  BY <1>1 DEF OnlyChanged, Has
<1> QED
  BY <1>1, <1>2, <1>3

\* A step that changes neither the save nor what the modes need.
LEMMA RunStays ==
  ASSUME RunInv, save' = save, stale' = stale, rendered' = rendered,
         Agree(settings, proxySecret, settings', proxySecret', {}),
         listenEnv' = listenEnv, collecting' = collecting, groupEnabled' = groupEnabled,
         running' = running
  PROVE  RunInv'
<1>1. /\ Modes' = Modes /\ (Late' <=> Late) /\ (Early' <=> Early) /\ (Bringing' <=> Bringing)
      /\ Wanted' = Wanted
  BY DEF Modes, Late, Early, Bringing, Wanted
<1>2. /\ Listen(settings') = Listen(settings)
      /\ AccountFiles(settings', proxySecret') = AccountFiles(settings, proxySecret)
      /\ CollectorSettings(settings') = CollectorSettings(settings)
  BY AgreeForce
<1>3. ~Late' => InForce(stale)'
  <2>1. Agree(settings, proxySecret, settings', proxySecret', stale)
    BY AgreeLess
  <2>2. ~Late => Runs(settings', proxySecret', listenEnv, running, groupEnabled, collecting, stale)
    BY <2>1, ForceStays DEF RunInv, InForce
  <2> QED
    BY <1>1, <2>2 DEF InForce
<1>4. Late' => InForce(stale \cup Modes)' /\ RowsUnchanged'
  <2> SUFFICES ASSUME Late PROVE InForce(stale \cup Modes)' /\ RowsUnchanged'
    BY <1>1
  <2>1. Agree(settings, proxySecret, settings', proxySecret', stale \cup Modes)
    BY AgreeLess
  <2>2. Runs(settings', proxySecret', listenEnv, running, groupEnabled, collecting,
             stale \cup Modes)
    BY <2>1, ForceStays DEF RunInv, InForce
  <2>4. InForce(stale \cup Modes)'
    BY <1>1, <2>2 DEF InForce
  <2>5. Agree(save.stored, save.proxy, settings, proxySecret, Modes)
    BY DEF RunInv, RowsUnchanged
  <2>6. Agree(settings, proxySecret, settings', proxySecret', Modes)
    BY AgreeLess
  <2>7. Agree(save.stored, save.proxy, settings', proxySecret', Modes)
    BY <2>5, <2>6, AgreeTrans
  <2>8. RowsUnchanged'
    BY <1>1, <2>7 DEF RowsUnchanged, Agree, ZoneName
  <2> QED
    BY <2>4, <2>8
<1>5. RowsRead => RowsRead'
  <2> SUFFICES ASSUME RowsRead PROVE RowsRead'
    OBVIOUS
  <2>1. Agree(save.stored, save.proxy, settings', proxySecret', {})
    BY AgreeTrans DEF RowsRead
  <2> QED
    BY <2>1 DEF RowsRead, Agree, ZoneName
<1>6. Under(save.todo) => Under(save.todo)'
  BY <1>1, <1>2 DEF Under, Has, RenderFirst
<1>7. OnlyChanged(save.todo) => OnlyChanged(save.todo)'
  BY <1>1 DEF OnlyChanged, Has
<1> QED
  BY <1>1, <1>2, <1>3, <1>4, <1>5, <1>6, <1>7 DEF RunInv, Listen

\* The inductive invariant behind RuntimeAsStored.
THEOREM RuntimeKept == ConfSpec => []RunInv
<1>1. ConfInit => RunInv
  <2> SUFFICES ASSUME ConfInit PROVE RunInv
    OBVIOUS
  <2>1. /\ settings["listen"] = Unset /\ listenEnv = 1 /\ groupEnabled = ConfAccount
        /\ running = [a \in ConfAccount |-> rendered]
        /\ rendered = AccountFiles(settings, proxySecret)
        /\ collecting = CollectorSettings(settings) /\ save = NoSave
    BY CatalogKeys DEF ConfInit
  <2>2. InForce(stale)
    BY <2>1 DEF InForce, Runs, Listen
  <2>3. save.pc = "none"
    BY <2>1 DEF NoSave
  <2> QED
    BY <2>1, <2>2, <2>3 DEF RunInv, Late, Early, Bringing
<1>2. RunInv /\ ProxyInv /\ [ConfNext]_confVars => RunInv'
  <2> SUFFICES ASSUME RunInv, ProxyInv, [ConfNext]_confVars PROVE RunInv'
    OBVIOUS
  <2> USE DEF confStore, confRuntime
  <2>0. /\ DOMAIN settings = RowKey /\ DOMAIN running = ConfAccount
        /\ groupEnabled \subseteq ConfAccount
    BY DEF ProxyInv, RunInv
  <2>a. ASSUME save.pc \in {"read", "check", "replace", "apply", "restore", "reapply"}
        PROVE  /\ save # NoSave /\ SaveFields \subseteq DOMAIN save
               /\ DOMAIN save.stored = RowKey
    BY <2>a DEF ProxyInv, SaveInv, NoSave
  <2>1. ASSUME NEW r \in Requests, UpdateConfiguration(r)
        PROVE  RunInv'
    <3>1. /\ save = NoSave
          /\ UNCHANGED <<settings, proxySecret, stale, listenEnv, running, groupEnabled, collecting>>
          /\ save' = [pc |-> "read", request |-> WithoutBlankProxy(r), stored |-> settings,
                      proxy |-> proxySecret, changed |-> {}, todo |-> <<>>]
      BY <2>1 DEF UpdateConfiguration
    <3>2. save.pc = "none" /\ save'.pc = "read" /\ save'.stored = settings
          /\ save'.proxy = proxySecret
      BY <3>1 DEF NoSave
    <3>3. ~Late /\ ~Late' /\ ~Bringing'
      BY <3>2 DEF Late, Bringing
    <3>4. RowsRead'
      BY <3>1, <3>2, AgreeSelf DEF RowsRead
    <3>5. InForce(stale)'
      BY <3>1, <3>3 DEF RunInv, InForce
    <3> QED
      BY <2>0, <3>1, <3>2, <3>3, <3>4, <3>5 DEF RunInv
  <2>2. CASE CurrentConfiguration
    <3>1. /\ save.pc = "read" /\ UNCHANGED <<proxySecret, stale, listenEnv, running, groupEnabled, collecting>>
          /\ save' = [save EXCEPT !.pc = "check", !.stored = Migrated(save.stored)]
          /\ settings' = settings \/ settings' = Migrated(save.stored)
      BY <2>2 DEF CurrentConfiguration
    <3>2. SaveFields \subseteq DOMAIN save /\ DOMAIN save.stored = RowKey
      BY <2>a, <3>1
    <3>3. /\ save'.stored = Migrated(save.stored) /\ save'.proxy = save.proxy /\ save'.pc = "check"
      BY <3>1, <3>2 DEF SaveFields
    <3>4. ~Late /\ ~Late' /\ ~Bringing' /\ Early
      BY <3>1, <3>3 DEF Late, Bringing, Early
    <3>5. Agree(save.stored, save.proxy, settings, proxySecret, {})
      BY <3>4 DEF RunInv, RowsRead
    <3>6. Agree(Migrated(save.stored), save.proxy, save.stored, save.proxy, {})
      BY <3>2, MigratedAgrees
    <3>7. Agree(Migrated(save.stored), save.proxy, settings, proxySecret, {})
      BY <3>5, <3>6, AgreeTrans
    <3>8. save.proxy = proxySecret
      BY <3>5 DEF Agree
    <3>9. Agree(settings, proxySecret, settings', proxySecret', {})
          /\ Agree(Migrated(save.stored), save.proxy, settings', proxySecret', {})
      <4>1. CASE settings' = settings
        BY <3>1, <3>7, <4>1, AgreeSelf
      <4>2. CASE settings' = Migrated(save.stored)
        BY <3>1, <3>7, <3>8, <4>2, AgreeSelf, AgreeLess
      <4> QED
        BY <3>1, <4>1, <4>2
    <3>10. RowsRead'
      BY <3>3, <3>9 DEF RowsRead
    <3>11. Agree(settings, proxySecret, settings', proxySecret', stale)
      BY <3>9, AgreeLess
    <3>12. Runs(settings', proxySecret', listenEnv, running, groupEnabled, collecting, stale)
      BY <3>4, <3>11, ForceStays DEF RunInv, InForce
    <3>13. InForce(stale)'
      BY <3>1, <3>12 DEF InForce
    <3> QED
      BY <2>0, <3>1, <3>3, <3>4, <3>10, <3>13 DEF RunInv
  <2>3. CASE CheckConfiguration
    <3>1. /\ save.pc = "check"
          /\ UNCHANGED <<settings, proxySecret, stale, listenEnv, running, groupEnabled, collecting>>
      BY <2>3 DEF CheckConfiguration
    <3>2. ~Late /\ Early
      BY <3>1 DEF Late, Early
    <3>3. InForce(stale)' /\ groupEnabled' \subseteq ConfAccount
      BY <2>0, <3>1, <3>2 DEF RunInv, InForce
    <3>4. CASE ~RequestAccepted
      BY <2>3, <3>3, <3>4, SaveOver DEF CheckConfiguration
    <3>5. CASE RequestAccepted
      <4>1. save' = [save EXCEPT !.pc = "replace", !.changed = ChangedKeys]
        BY <2>3, <3>5 DEF CheckConfiguration
      <4>2. /\ save'.stored = save.stored /\ save'.proxy = save.proxy /\ save'.pc = "replace"
            /\ save'.request = save.request
        BY <2>a, <3>1, <4>1 DEF SaveFields
      <4>3. RowsRead'
        BY <3>1, <3>2, <4>2 DEF RunInv, RowsRead
      <4>4. \A k \in DOMAIN save'.request : NormalForm(save'.request[k]) # Unset
        BY <3>5, <4>2 DEF RequestAccepted
      <4>5. ~Late' /\ ~Bringing'
        BY <4>2 DEF Late, Bringing
      <4> QED
        BY <3>3, <4>2, <4>3, <4>4, <4>5 DEF RunInv
    <3> QED
      BY <3>4, <3>5
  <2>4. CASE SaveFails
    <3>1. /\ Early /\ save' = NoSave
          /\ UNCHANGED <<settings, proxySecret, stale, listenEnv, running, groupEnabled, collecting>>
      BY <2>4 DEF SaveFails, Early
    <3>2. ~Late
      BY <3>1 DEF Early, Late
    <3>3. InForce(stale)'
      BY <3>1, <3>2 DEF RunInv, InForce
    <3> QED
      BY <2>0, <3>1, <3>3, SaveOver
  <2>5. CASE ReplaceConfiguration
    <3> DEFINE table == [k \in RowKey |-> IF k \in save.changed \ {"proxy"} THEN Wanted[k]
                                          ELSE save.stored[k]]
    <3>1. /\ save.pc = "replace" /\ settings' = table /\ proxySecret' = Wanted["proxy"]
          /\ save' = [save EXCEPT !.pc = "apply", !.todo = ApplySteps(Modes)]
          /\ UNCHANGED <<stale, listenEnv, running, groupEnabled, collecting>>
      BY <2>5 DEF ReplaceConfiguration, ReplaceSettingsAndSecret
    <3>2. save.changed = ChangedKeys /\ SaveFields \subseteq DOMAIN save
      BY <2>a, <3>1 DEF ProxyInv, SaveInv
    <3>3. /\ save'.stored = save.stored /\ save'.proxy = save.proxy /\ save'.pc = "apply"
          /\ save'.request = save.request /\ save'.changed = save.changed
          /\ save'.todo = ApplySteps(Modes)
      BY <3>1, <3>2 DEF SaveFields
    <3>4. Modes' = Modes /\ Wanted' = Wanted
      BY <3>3 DEF Modes, Wanted
    <3>5. \A k \in RowKey : k # "proxy" => table[k] = IF k \in save.changed THEN Wanted[k]
                                                      ELSE save.stored[k]
      OBVIOUS
    <3>6. /\ table["listen"] = IF "listen" \in save.changed THEN Wanted["listen"] ELSE save.stored["listen"]
          /\ "listen" \notin save.changed => table["listen"] = save.stored["listen"]
          /\ "retry" \notin save.changed => table["retry"] = save.stored["retry"]
          /\ "proxy_on" \notin save.changed => table["proxy_on"] = save.stored["proxy_on"]
          /\ "zone" \notin save.changed => table["zone"] = save.stored["zone"]
          /\ "unlimited" \notin save.changed => table["unlimited"] = save.stored["unlimited"]
      BY <3>5, CatalogKeys
    <3>7. table["old_zone"] = save.stored["old_zone"]
      <4>1. "old_zone" \notin save.changed
        BY <3>2, CatalogKeys DEF ChangedKeys
      <4> QED
        BY <3>5, <4>1, CatalogKeys
    <3> HIDE DEF table
    <3>8. "proxy" \notin save.changed => Wanted["proxy"] = save.proxy
      <4>1. "proxy" \notin ChangedKeys => Wanted["proxy"] = Effective(save.stored, save.proxy)["proxy"]
        BY CatalogKeys DEF ChangedKeys
      <4>2. Effective(save.stored, save.proxy)["proxy"] = save.proxy
        BY CatalogKeys DEF Effective
      <4> QED
        BY <3>2, <4>1, <4>2
    <3>9. Agree(save.stored, save.proxy, table, Wanted["proxy"], Modes)
      <4>1. "zone" \notin save.changed => ZoneName(save.stored) = ZoneName(table)
        BY <3>6, <3>7 DEF ZoneName
      <4> QED
        BY <3>6, <3>8, <4>1, ModesOfKeys DEF Agree
    <3>10. Agree(settings, proxySecret, save.stored, save.proxy, Modes)
      <4>1. Agree(save.stored, save.proxy, settings, proxySecret, {})
        BY <3>1 DEF RunInv, RowsRead, Early
      <4> QED
        BY <4>1, AgreeLess
    <3>11. Agree(settings, proxySecret, table, Wanted["proxy"], Modes)
      BY <3>9, <3>10, AgreeTrans
    <3>12. Agree(settings, proxySecret, table, Wanted["proxy"], stale \cup Modes)
      BY <3>11, AgreeLess
    <3>13. Runs(settings, proxySecret, listenEnv, running, groupEnabled, collecting, stale)
      BY <3>1 DEF RunInv, Late, InForce
    <3>14. Runs(table, Wanted["proxy"], listenEnv, running, groupEnabled, collecting, stale \cup Modes)
      BY <3>12, <3>13, ForceStays
    <3>15. InForce(stale \cup Modes)'
      BY <3>1, <3>4, <3>14 DEF InForce
    <3>16. RowsUnchanged'
      BY <3>1, <3>3, <3>4, <3>9 DEF RowsUnchanged
    <3>17. Listen(table) = Wanted["listen"]
      <4>1. "listen" \in CatalogKey
        BY CatalogKeys
      <4>2. Effective(save.stored, save.proxy)["listen"] = Listen(save.stored)
            /\ Listen(save.stored) # Unset
        BY EffectiveListen DEF Listen, Unset
      <4>3. CASE "listen" \notin save.changed
        <5>1. Wanted["listen"] = Effective(save.stored, save.proxy)["listen"]
          BY <3>2, <4>1, <4>3 DEF ChangedKeys
        <5> QED
          BY <3>6, <4>2, <4>3, <5>1 DEF Listen
      <4>4. CASE "listen" \in save.changed
        <5>1. Wanted["listen"] # Unset
          BY <3>1, <4>1, <4>2 DEF Wanted, RunInv
        <5> QED
          BY <3>6, <4>4, <5>1 DEF Listen
      <4> QED
        BY <4>3, <4>4
    <3>18. Listen(settings') = Wanted["listen"]
      BY <3>1, <3>17
    <3>19. Under(save.todo)' /\ save'.todo \in Seq(ConfStep) /\ OnlyChanged(save.todo)'
      BY <3>3, <3>4, AllAhead
    <3>20. Late' /\ ~Early'
      BY <3>3 DEF Late, Early
    <3> QED
      BY <2>0, <3>1, <3>3, <3>4, <3>15, <3>16, <3>18, <3>19, <3>20 DEF RunInv, Listen
  <2>6. CASE ApplyConfigurationStep
    <3> DEFINE step == Head(save.todo)
    <3>1. /\ save.pc \in {"apply", "reapply"} /\ save.todo # <<>>
          /\ UNCHANGED <<settings, proxySecret, stale, groupEnabled>>
          /\ save' = [save EXCEPT !.todo = Tail(@)]
          /\ listenEnv' = IF step = "project" THEN Aim.listen ELSE listenEnv
          /\ rendered' = IF step = "render" THEN AccountFiles(settings, proxySecret) ELSE rendered
          /\ running' = [a \in ConfAccount |-> IF step = a /\ a \in groupEnabled
                                               THEN rendered ELSE running[a]]
          /\ collecting' = IF step = "collector" THEN CollectorSettings(settings) ELSE collecting
      BY <2>6 DEF ApplyConfigurationStep, Applying
    <3>2. SaveFields \subseteq DOMAIN save
      BY <2>a, <3>1
    <3>3. /\ save'.stored = save.stored /\ save'.proxy = save.proxy /\ save'.pc = save.pc
          /\ save'.request = save.request /\ save'.changed = save.changed
          /\ save'.todo = Tail(save.todo) /\ DOMAIN save' = DOMAIN save
          /\ "storeKept" \in DOMAIN save => save'.storeKept = save.storeKept
      BY <3>1, <3>2 DEF SaveFields
    <3>4. Modes' = Modes /\ Wanted' = Wanted
      BY <3>3 DEF Modes, Wanted
    <3>5. save.todo \in Seq(ConfStep) /\ OnlyChanged(save.todo)
      BY <3>1 DEF RunInv
    <3>6. /\ Tail(save.todo) \in Seq(ConfStep) /\ step \in ConfStep
          /\ \A x : Has(x, save.todo) <=> step = x \/ Has(x, Tail(save.todo))
          /\ RenderFirst(save.todo) =>
                \/ RenderFirst(Tail(save.todo))
                \/ step = "render" /\ \A a \in ConfAccount : Has(a, Tail(save.todo))
      BY <3>1, <3>5, StepDone
    <3> DEFINE rest == Tail(save.todo)
    <3> HIDE DEF step, rest
    <3>7. OnlyChanged(save.todo)'
      <4>1. OnlyChanged(rest)
        BY <3>5, <3>6 DEF OnlyChanged, rest
      <4> QED
        BY <3>3, <3>4, <4>1 DEF OnlyChanged, Has, rest
    <3>8. (Late' <=> Late) /\ Late /\ ~Early'
      BY <3>1, <3>3 DEF Late, Early
    <3>9. InForce(stale \cup Modes)'
      <4>1. Runs(settings, proxySecret, listenEnv, running, groupEnabled, collecting, stale \cup Modes)
        BY <3>8 DEF RunInv, InForce
      <4>2. "deployment" \notin Modes => listenEnv' = listenEnv
        BY <3>1, <3>5, <3>6 DEF OnlyChanged
      <4>3. "accounts" \notin Modes => \A a \in groupEnabled : running'[a] = running[a]
        BY <2>0, <3>1, <3>5, <3>6 DEF OnlyChanged
      <4>4. Runs(settings, proxySecret, listenEnv', running', groupEnabled, collecting', stale \cup Modes)
        BY <3>1, <4>1, <4>2, <4>3 DEF Runs
      <4> QED
        BY <3>1, <3>4, <4>4 DEF InForce
    <3>10. RowsUnchanged' /\ (RowsRead => RowsRead')
      BY <3>1, <3>3, <3>4, <3>8 DEF RunInv, RowsUnchanged, RowsRead
    <3>11. save.pc = "reapply" => "storeKept" \in DOMAIN save /\ (~save.storeKept => RowsRead)
      BY DEF RunInv
    <3>12. Bringing' => Bringing
      BY <3>3, <3>11 DEF Bringing
    <3>13. ASSUME Bringing PROVE Under(save.todo)'
      <4>1. Under(save.todo)
        BY <3>13 DEF RunInv
      <4>2. Aim.listen = Listen(settings)
        <5>1. CASE save.pc = "apply"
          BY <5>1 DEF Aim, RunInv
        <5>2. CASE save.pc # "apply"
          <6>1. RowsRead
            BY <3>11, <3>13, <5>2 DEF Bringing
          <6>2. Listen(save.stored) = Listen(settings)
            BY <6>1, AgreeForce DEF RowsRead
          <6> QED
            BY <5>2, <6>2, EffectiveListen DEF Aim
        <5> QED
          BY <5>1, <5>2
      <4>3. "deployment" \in Modes => Has("project", rest) \/ listenEnv' = Listen(settings)
        BY <3>1, <3>6, <4>1, <4>2 DEF Under, rest
      <4>4. Modes \cap CollectorMode # {} =>
               Has("collector", rest) \/ collecting' = CollectorSettings(settings)
        BY <3>1, <3>6, <4>1 DEF Under, rest
      <4>5. ASSUME "accounts" \in Modes
            PROVE  \/ RenderFirst(rest)
                   \/ /\ rendered' = AccountFiles(settings, proxySecret)
                      /\ \A a \in groupEnabled :
                            running'[a] = AccountFiles(settings, proxySecret) \/ Has(a, rest)
        <5>1. CASE RenderFirst(save.todo)
          BY <2>0, <3>1, <3>6, <5>1 DEF rest
        <5>2. CASE ~RenderFirst(save.todo)
          <6>1. /\ rendered = AccountFiles(settings, proxySecret)
                /\ \A a \in groupEnabled :
                      running[a] = AccountFiles(settings, proxySecret) \/ Has(a, save.todo)
            BY <4>1, <4>5, <5>2 DEF Under
          <6>2. rendered' = AccountFiles(settings, proxySecret)
            BY <3>1, <6>1
          <6>3. ASSUME NEW a \in groupEnabled
                PROVE  running'[a] = AccountFiles(settings, proxySecret) \/ Has(a, rest)
            <7>1. running'[a] = IF step = a THEN rendered ELSE running[a]
              BY <2>0, <3>1
            <7> QED
              BY <3>6, <6>1, <7>1 DEF rest
          <6> QED
            BY <6>2, <6>3
        <5> QED
          BY <5>1, <5>2
      <4> QED
        BY <3>1, <3>3, <3>4, <4>3, <4>4, <4>5 DEF Under, Has, RenderFirst, rest
    <3>14. save'.todo \in Seq(ConfStep)
      BY <3>3, <3>6
    <3>15. save'.pc = "apply" => Listen(settings') = Wanted'["listen"]
      BY <3>1, <3>3, <3>4 DEF RunInv
    <3>16. save'.pc = "reapply" => "storeKept" \in DOMAIN save' /\ (~save'.storeKept => RowsRead')
      BY <3>3, <3>10, <3>11
    <3>17. Bringing' => Under(save.todo)'
      BY <3>12, <3>13
    <3>18. save'.pc # "replace" /\ groupEnabled' \subseteq ConfAccount
      BY <2>0, <3>1, <3>3
    <3> QED
      BY <3>7, <3>8, <3>9, <3>10, <3>14, <3>15, <3>16, <3>17, <3>18 DEF RunInv, Listen
  <2>7. CASE SaveReturns
    <3>1. /\ save.pc \in {"apply", "reapply"} /\ save.todo = <<>> /\ save' = NoSave
          /\ stale' = IF save.pc = "reapply" /\ save.storeKept THEN stale \cup Modes ELSE stale \ Modes
          /\ UNCHANGED <<settings, proxySecret, listenEnv, running, groupEnabled, collecting>>
      BY <2>7 DEF SaveReturns, Applying
    <3>2. Runs(settings, proxySecret, listenEnv, running, groupEnabled, collecting, stale \cup Modes)
      BY <3>1 DEF RunInv, Late, InForce
    <3>3. CASE save.pc = "reapply" /\ save.storeKept
      <4>1. InForce(stale)'
        BY <3>1, <3>2, <3>3 DEF InForce
      <4> QED
        BY <2>0, <3>1, <4>1, SaveOver
    <3>4. CASE ~(save.pc = "reapply" /\ save.storeKept)
      <4>1. Under(<<>>)
        BY <3>1, <3>4 DEF RunInv, Bringing
      <4>2. ~RenderFirst(<<>>) /\ \A x : ~Has(x, <<>>)
        BY SingleSteps DEF RenderFirst
      <4>3. Runs(settings, proxySecret, listenEnv, running, groupEnabled, collecting, stale \ Modes)
        <5>1. "deployment" \notin stale \ Modes => listenEnv = Listen(settings)
          BY <3>2, <4>1, <4>2 DEF Runs, Under
        <5>2. "accounts" \notin stale \ Modes =>
                 \A a \in groupEnabled : running[a] = AccountFiles(settings, proxySecret)
          BY <3>2, <4>1, <4>2 DEF Runs, Under
        <5>3. (stale \ Modes) \cap CollectorMode = {} => collecting = CollectorSettings(settings)
          <6>1. CASE Modes \cap CollectorMode = {}
            BY <3>2, <6>1 DEF Runs, CollectorMode
          <6>2. CASE Modes \cap CollectorMode # {}
            BY <4>1, <4>2, <6>2 DEF Under
          <6> QED
            BY <6>1, <6>2
        <5> QED
          BY <5>1, <5>2, <5>3 DEF Runs
      <4>4. InForce(stale)'
        BY <3>1, <3>4, <4>3 DEF InForce
      <4> QED
        BY <2>0, <3>1, <4>4, SaveOver
    <3> QED
      BY <3>3, <3>4
  <2>8. CASE ApplyFails
    <3>1. /\ save.pc \in {"apply", "reapply"}
          /\ UNCHANGED <<settings, proxySecret, listenEnv, running, groupEnabled, collecting>>
          /\ \/ save' = [save EXCEPT !.pc = "restore"] /\ stale' = stale
             \/ save' = NoSave /\ stale' = stale \cup Modes
      BY <2>8 DEF ApplyFails, Applying
    <3>2. /\ Runs(settings, proxySecret, listenEnv, running, groupEnabled, collecting, stale \cup Modes)
          /\ RowsUnchanged /\ SaveFields \subseteq DOMAIN save
      BY <2>a, <3>1 DEF RunInv, Late, InForce
    <3>3. CASE save' = NoSave /\ stale' = stale \cup Modes
      <4>1. InForce(stale)'
        BY <3>1, <3>2, <3>3 DEF InForce
      <4> QED
        BY <2>0, <3>1, <3>3, <4>1, SaveOver
    <3>4. CASE save' = [save EXCEPT !.pc = "restore"] /\ stale' = stale
      <4>1. /\ save'.stored = save.stored /\ save'.proxy = save.proxy /\ save'.pc = "restore"
            /\ save'.changed = save.changed
        BY <3>2, <3>4 DEF SaveFields
      <4>2. Modes' = Modes
        BY <4>1 DEF Modes
      <4>3. InForce(stale \cup Modes)' /\ RowsUnchanged'
        BY <3>1, <3>2, <3>4, <4>1, <4>2 DEF InForce, RowsUnchanged
      <4>4. ~Early' /\ ~Bringing'
        BY <4>1 DEF Early, Bringing
      <4>5. Late'
        BY <4>1 DEF Late
      <4> QED
        BY <2>0, <3>1, <4>1, <4>3, <4>4, <4>5 DEF RunInv
    <3> QED
      BY <3>1, <3>3, <3>4
  <2>9. CASE RestoreConfiguration
    <3>1. /\ save.pc = "restore" /\ UNCHANGED <<stale, listenEnv, running, groupEnabled, collecting>>
          /\ \/ /\ settings' = save.stored /\ proxySecret' = save.proxy
                /\ save' = [pc |-> "reapply", request |-> save.request,
                            stored |-> save.stored, proxy |-> save.proxy,
                            changed |-> save.changed, todo |-> Reapplied, storeKept |-> FALSE]
             \/ /\ UNCHANGED <<settings, proxySecret>>
                /\ save' = [pc |-> "reapply", request |-> save.request,
                            stored |-> save.stored, proxy |-> save.proxy,
                            changed |-> save.changed, todo |-> Reapplied, storeKept |-> TRUE]
      BY <2>9 DEF RestoreConfiguration, ReplaceSettingsAndSecret
    <3>2. /\ save'.stored = save.stored /\ save'.proxy = save.proxy /\ save'.pc = "reapply"
          /\ save'.changed = save.changed /\ save'.todo = ApplySteps(Modes)
          /\ "storeKept" \in DOMAIN save'
      BY <3>1 DEF Reapplied
    <3>3. \/ settings' = save.stored /\ proxySecret' = save.proxy
          \/ UNCHANGED <<settings, proxySecret>> /\ save'.storeKept
      BY <3>1
    <3>4. Modes' = Modes
      BY <3>2 DEF Modes
    <3>5. /\ Runs(settings, proxySecret, listenEnv, running, groupEnabled, collecting, stale \cup Modes)
          /\ Agree(save.stored, save.proxy, settings, proxySecret, Modes)
      BY <3>1 DEF RunInv, Late, InForce, RowsUnchanged
    <3>6. Under(save.todo)' /\ save'.todo \in Seq(ConfStep) /\ OnlyChanged(save.todo)'
      BY <3>2, <3>4, AllAhead
    <3>7. Runs(settings', proxySecret', listenEnv, running, groupEnabled, collecting, stale \cup Modes)
      <4>1. Agree(settings, proxySecret, save.stored, save.proxy, stale \cup Modes)
        BY <3>5, AgreeLess
      <4>2. Runs(save.stored, save.proxy, listenEnv, running, groupEnabled, collecting, stale \cup Modes)
        BY <3>5, <4>1, ForceStays
      <4> QED
        BY <3>3, <3>5, <4>2
    <3>8. Agree(save.stored, save.proxy, settings', proxySecret', Modes)
      BY <3>3, <3>5, AgreeSelf
    <3>9. InForce(stale \cup Modes)' /\ RowsUnchanged'
      BY <3>1, <3>2, <3>4, <3>7, <3>8 DEF InForce, RowsUnchanged
    <3>10. ~save'.storeKept => RowsRead'
      BY <3>2, <3>3, AgreeSelf DEF RowsRead
    <3>11. Late' /\ ~Early'
      BY <3>2 DEF Late, Early
    <3> QED
      BY <2>0, <3>1, <3>2, <3>6, <3>9, <3>10, <3>11 DEF RunInv
  <2>10. CASE AdminRestarts
    <3>1. /\ save' = NoSave
          /\ UNCHANGED <<settings, proxySecret, listenEnv, running, groupEnabled, collecting>>
          /\ stale' = IF Late THEN stale \cup Modes ELSE stale
      BY <2>10 DEF AdminRestarts, Late
    <3>2. InForce(stale)'
      BY <3>1 DEF RunInv, InForce
    <3> QED
      BY <2>0, <3>1, <3>2, SaveOver
  <2>11. CASE \/ SaveGeneralSettings \/ SaveOnboarding \/ SaveNotificationSettings
              \/ DisableNotifications
    <3>1. /\ UNCHANGED <<proxySecret, rendered, running, save, stale, listenEnv, groupEnabled, collecting>>
          /\ \E k \in {"name", "skipped", "notify"} : \E v \in ConfValue :
                settings' = [settings EXCEPT ![k] = v]
      BY <2>11 DEF SaveGeneralSettings, SaveOnboarding, SaveRow, SaveNotificationSettings,
           DisableNotifications, UpdateSettings, ConfValue
    <3>2. \A k \in {"listen", "retry", "proxy_on", "unlimited", "zone", "old_zone"} :
             settings'[k] = settings[k]
      BY <2>0, <3>1, CatalogKeys
    <3>3. Agree(settings, proxySecret, settings', proxySecret', {})
      BY <3>1, <3>2 DEF Agree, ZoneName
    <3> QED
      BY <3>1, <3>3, RunStays
  <2>12. CASE SaveWebhook \/ ClearWebhook \/ UNCHANGED confVars
    <3>1. UNCHANGED <<settings, proxySecret, rendered, running, save, stale, listenEnv, groupEnabled,
                      collecting>>
      BY <2>12 DEF SaveWebhook, ClearWebhook, confVars
    <3>2. Agree(settings, proxySecret, settings', proxySecret', {})
      BY <3>1, AgreeSelf
    <3> QED
      BY <3>1, <3>2, RunStays
  <2>13. ASSUME NEW a \in ConfAccount, ToggleAccount(a)
         PROVE  RunInv'
    <3>1. /\ UNCHANGED <<settings, proxySecret, save, stale, listenEnv, collecting>> /\ save = NoSave
          /\ \/ groupEnabled' = groupEnabled \ {a} /\ running' = running
             \/ /\ groupEnabled' = groupEnabled \cup {a}
                /\ running' = [running EXCEPT ![a] = AccountFiles(settings, proxySecret)]
      BY <2>13 DEF ToggleAccount
    <3>2. ~Late
      BY <3>1 DEF Late, NoSave
    <3>3. Runs(settings, proxySecret, listenEnv, running, groupEnabled, collecting, stale)
      BY <3>2 DEF RunInv, InForce
    <3>4. Runs(settings, proxySecret, listenEnv, running', groupEnabled', collecting, stale)
      BY <2>0, <3>1, <3>3 DEF Runs
    <3>5. InForce(stale)' /\ groupEnabled' \subseteq ConfAccount
      BY <2>0, <3>1, <3>4 DEF InForce
    <3> QED
      BY <3>1, <3>5, SaveOver
  <2> QED
    BY <2>1, <2>2, <2>3, <2>4, <2>5, <2>6, <2>7, <2>8, <2>9, <2>10, <2>11, <2>12, <2>13 DEF ConfNext
<1> QED
  BY <1>1, <1>2, ProxyKept, PTL DEF ConfSpec

\* While no save is under way, what runs is what is stored for every group of
\* settings whose last save was not cut off, for any number of accounts, saves
\* of all the pages, faults and crashes (updateConfiguration, ApplyConfiguration
\* and its rollback).
THEOREM RuntimeMatchesStore == ConfSpec => []RuntimeAsStored
<1>1. RunInv => RuntimeAsStored
  <2> SUFFICES ASSUME RunInv, save = NoSave PROVE RuntimeAsStored
    BY DEF RuntimeAsStored
  <2>1. Runs(settings, proxySecret, listenEnv, running, groupEnabled, collecting, stale)
    BY DEF RunInv, Late, NoSave, InForce
  <2> QED
    BY <2>1, EffectiveListen DEF Runs, RuntimeAsStored, CollectorMode
<1> QED
  BY <1>1, RuntimeKept, PTL

-----------------------------------------------------------------------------
(* The quota worker: requests, recoveries and credits. *)

RefreshType == [requested : Nat, at : Nat, started : Nat, completed : Nat, err : BOOLEAN]
SnapshotType == [at : Int, err : BOOLEAN]
OfficialType == [start : Nat, used : BOOLEAN, short : BOOLEAN, by : {"week", "credit", "late"}]
CooldownType == [cool : BOOLEAN, updated : Nat, resets : Nat]
SeenType == [ok : BOOLEAN, start : Nat, used : BOOLEAN, short : BOOLEAN]
RoundPhase == {"down", "idle", "run", "fetch", "write", "reconcile", "fenced", "post", "complete"}
RoundType == [phase : RoundPhase, id : Nat, at : Nat, seen : SeenType, auth : CooldownType,
              readAt : Nat, err : BOOLEAN]
ResetType == [phase : {"idle", "chosen", "consume"}, credit : Credit \cup {"none"}]

QuotaTypeOK ==
    /\ wall \in Nat
    /\ official \in OfficialType
    /\ cooldown \in CooldownType
    /\ credits \subseteq Credit
    /\ enabled \in BOOLEAN
    /\ refresh \in RefreshType
    /\ snapshot \in SnapshotType
    /\ round \in RoundType
    /\ resets \in [Operator -> ResetType]

\* The past is past.
TimesArePast ==
    /\ refresh.at <= wall /\ snapshot.at <= wall /\ round.at <= wall /\ round.readAt <= wall
    /\ refresh.completed <= refresh.requested

\* A round has captured the request that is pending, and nobody requests
\* meanwhile; its snapshot is no older than the request and than the one before.
RoundAnswers ==
    /\ round.phase \in {"down", "idle"} => round.id = 0
    /\ round.id # 0 =>
          /\ round.id = refresh.requested /\ refresh.completed # refresh.requested
          /\ round.phase \in {"fetch", "write"} => refresh.at <= round.at
          /\ round.phase \in {"reconcile", "fenced", "post"} => refresh.at <= snapshot.at
          /\ round.phase = "complete" /\ ~round.err => refresh.at <= snapshot.at
    /\ round.phase \in {"fetch", "write"} => snapshot.at <= round.at

AnswerInv == TimesArePast /\ RoundAnswers /\ RequestsAnswered

\* Between its second look and the reset the worker keeps the catalog still,
\* and the cooldown is the one it saw or a later one.
RecoveryInv ==
    round.phase = "post" =>
        /\ fence = Worker /\ enabled = TRUE
        /\ cooldown.cool = TRUE =>
              cooldown.updated < round.seen.start \/ cooldown.updated >= round.readAt

\* An operator that is about to spend a credit has the fence, and no credit has
\* renewed the window since it looked.
ConsumeInv ==
    \A o \in Operator : resets[o].phase = "consume" =>
        fence = o /\ (official.used = TRUE \/ official.by # "credit")

QuotaInv == QuotaTypeOK /\ AnswerInv /\ RecoveryInv /\ ConsumeInv

\* The fence is free, or of the worker, or of one operator.
LEMMA Holders == /\ Free # Worker
                 /\ \A o \in Operator : o # Free /\ o # Worker
BY QuotaWorkerAssumption DEF Free, Worker

\* A round that ends is a round of its request, with nothing read.
LEMMA RoundDoneType ==
  ASSUME round \in RoundType
  PROVE  /\ RoundDone \in RoundType /\ RoundDone.phase = "complete" /\ RoundDone.id = round.id
         /\ RoundDone.at = 0 /\ RoundDone.readAt = 0
         /\ [RoundDone EXCEPT !.err = TRUE] \in RoundType
         /\ [RoundDone EXCEPT !.err = TRUE].phase = "complete"
         /\ [RoundDone EXCEPT !.err = TRUE].id = round.id
         /\ [RoundDone EXCEPT !.err = TRUE].at = 0 /\ [RoundDone EXCEPT !.err = TRUE].readAt = 0
         /\ [RoundDone EXCEPT !.err = TRUE].err = TRUE
BY DEF RoundDone, NoRound, RoundType, RoundPhase, NoWindow, NoCooldown, SeenType, CooldownType

\* A worker that is down or idle has a round with nothing read.
LEMMA EmptyRounds ==
  /\ NoRound \in RoundType /\ NoRound.phase = "down" /\ NoRound.id = 0
  /\ NoRound.at = 0 /\ NoRound.readAt = 0
  /\ [NoRound EXCEPT !.phase = "idle"] \in RoundType
  /\ [NoRound EXCEPT !.phase = "idle"].phase = "idle" /\ [NoRound EXCEPT !.phase = "idle"].id = 0
  /\ [NoRound EXCEPT !.phase = "idle"].at = 0 /\ [NoRound EXCEPT !.phase = "idle"].readAt = 0
BY DEF NoRound, RoundType, RoundPhase, NoWindow, NoCooldown, SeenType, CooldownType

\* No cooldown is one of the cooldowns.
LEMMA NoCooldownType == NoCooldown \in CooldownType
BY DEF NoCooldown, CooldownType

\* A round that begins is a round of its request, with nothing read.
LEMMA RoundBegun ==
  ASSUME NEW n \in Nat, round' = [NoRound EXCEPT !.phase = "run", !.id = n]
  PROVE  /\ round' \in RoundType /\ round'.phase = "run" /\ round'.id = n /\ round'.at = 0
         /\ round'.readAt = 0
BY DEF NoRound, RoundType, RoundPhase, NoWindow, NoCooldown, SeenType, CooldownType

\* What the round's own fields must satisfy when nothing else changes.
LEMMA RecoveryElsewhere ==
  ASSUME RecoveryInv, round' = round, fence' = fence, enabled' = enabled, cooldown' = cooldown
  PROVE  RecoveryInv'
BY DEF RecoveryInv

\* Steps that leave the resets, the fence and the windows alone.
LEMMA ConsumeElsewhere ==
  ASSUME ConsumeInv, resets' = resets, fence' = fence, official' = official
  PROVE  ConsumeInv'
BY DEF ConsumeInv

\* Steps that leave the requests, the snapshot and the round alone.
LEMMA AnswerElsewhere ==
  ASSUME AnswerInv, wall' = wall, refresh' = refresh, snapshot' = snapshot, round' = round
  PROVE  AnswerInv'
BY DEF AnswerInv, TimesArePast, RoundAnswers, RequestsAnswered

\* Steps that change the clock, the requests, the snapshot and the round.
LEMMA TypesElsewhere ==
  ASSUME QuotaTypeOK, wall' \in Nat, UNCHANGED <<upstreamVars, enabled, resets>>,
         refresh' \in RefreshType, snapshot' \in SnapshotType, round' \in RoundType
  PROVE  QuotaTypeOK'
BY DEF QuotaTypeOK, upstreamVars

\* The inductive invariant behind RequestsAnswered, OldCooldownsCleared and
\* CreditsBuyWindows.
THEOREM QuotaInvariance == QuotaSpec => []QuotaInv
<1> USE QuotaWorkerAssumption, Holders
<1>1. QuotaInit => QuotaInv
  <2> SUFFICES ASSUME QuotaInit PROVE QuotaInv
    OBVIOUS
  <2>1. QuotaTypeOK
    <3>1. credits \subseteq Credit
      BY DEF QuotaInit
    <3>2. round \in RoundType
      BY EmptyRounds DEF QuotaInit
    <3>3. resets \in [Operator -> ResetType]
      BY DEF QuotaInit, NoReset, ResetType
    <3> QED
      BY <3>1, <3>2, <3>3 DEF QuotaInit, QuotaTypeOK, NoRefresh, NoState, NoCooldown,
           RefreshType, SnapshotType, OfficialType, CooldownType
  <2>2. AnswerInv
    BY DEF QuotaInit, AnswerInv, TimesArePast, RoundAnswers, RequestsAnswered, NoRefresh,
         NoState, NoRound
  <2>3. RecoveryInv /\ ConsumeInv
    BY DEF QuotaInit, RecoveryInv, ConsumeInv, NoRound, NoReset
  <2> QED
    BY <2>1, <2>2, <2>3 DEF QuotaInv
<1>2. QuotaInv /\ [QuotaNext]_quotaVars => QuotaInv'
  <2> SUFFICES ASSUME QuotaInv, [QuotaNext]_quotaVars PROVE QuotaInv'
    OBVIOUS
  <2> USE DEF upstreamVars, workerVars
  <2>0. QuotaTypeOK /\ AnswerInv /\ RecoveryInv /\ ConsumeInv
    BY DEF QuotaInv
  <2>a. /\ wall \in Nat /\ official \in OfficialType /\ cooldown \in CooldownType
        /\ refresh \in RefreshType /\ snapshot \in SnapshotType /\ round \in RoundType
        /\ resets \in [Operator -> ResetType]
    BY <2>0 DEF QuotaTypeOK
  <2>b. /\ refresh.requested \in Nat /\ refresh.completed \in Nat /\ refresh.at \in Nat
        /\ snapshot.at \in Int /\ round.at \in Nat /\ round.id \in Nat /\ round.readAt \in Nat
        /\ round.phase \in RoundPhase /\ wall \in Nat
    BY <2>a DEF RefreshType, SnapshotType, RoundType
  <2>1. CASE BeginRound
    <3> DEFINE id == IF Pending(refresh) THEN refresh.requested ELSE 0
    <3>1. /\ UNCHANGED <<wall, upstreamVars, enabled, snapshot, resets, fence>>
          /\ refresh' = MarkRefreshStarted(refresh, id)
          /\ round' = [NoRound EXCEPT !.phase = "run", !.id = id]
      BY <2>1 DEF BeginRound
    <3>2. id \in Nat /\ (id # 0 => id = refresh.requested /\ refresh.completed # refresh.requested)
      BY <2>b DEF Pending
    <3> HIDE DEF id
    <3>3. /\ refresh' \in RefreshType /\ refresh'.requested = refresh.requested
          /\ refresh'.completed = refresh.completed /\ refresh'.at = refresh.at
          /\ id = 0 => refresh' = refresh
      BY <2>a, <3>1, <3>2 DEF MarkRefreshStarted, RefreshType
    <3>4. /\ round' \in RoundType /\ round'.phase = "run" /\ round'.id = id /\ round'.at = 0
          /\ round'.readAt = 0
      BY <3>1, <3>2, RoundBegun
    <3>5. TimesArePast'
      BY <2>0, <2>b, <3>1, <3>3, <3>4 DEF AnswerInv, TimesArePast
    <3>6. RoundAnswers' /\ RequestsAnswered'
      BY <2>0, <2>b, <3>1, <3>2, <3>3, <3>4 DEF AnswerInv, RoundAnswers, RequestsAnswered
    <3>7. RecoveryInv'
      BY <3>4 DEF RecoveryInv
    <3> QED
      BY <2>0, <2>a, <3>1, <3>3, <3>4, <3>5, <3>6, <3>7, TypesElsewhere, ConsumeElsewhere
      DEF QuotaInv, AnswerInv
  <2>2. CASE BeginRunOnce
    <3>1. /\ UNCHANGED <<wall, upstreamVars, enabled, refresh, snapshot, resets, fence>>
          /\ round.phase = "run" /\ round' = [round EXCEPT !.phase = "fetch", !.at = wall]
      BY <2>2 DEF BeginRunOnce
    <3>2. /\ round' \in RoundType /\ round'.phase = "fetch" /\ round'.at = wall
          /\ round'.id = round.id /\ round'.readAt = round.readAt
      BY <2>a, <3>1 DEF RoundType, RoundPhase
    <3>3. AnswerInv'
      BY <2>0, <2>b, <3>1, <3>2 DEF AnswerInv, TimesArePast, RoundAnswers, RequestsAnswered
    <3> QED
      BY <2>0, <2>a, <3>1, <3>2, <3>3, TypesElsewhere, ConsumeElsewhere DEF QuotaInv, RecoveryInv
  <2>3. CASE FetchAccount
    <3>1. /\ UNCHANGED <<wall, upstreamVars, enabled, refresh, snapshot, resets, fence>>
          /\ round.phase = "fetch"
      BY <2>3 DEF FetchAccount
    <3>2. PICK l \in LoadResults, p \in ResolveResults, f \in FetchResults :
            round' = [round EXCEPT !.phase = "write", !.seen = FetchedAccount(l, p, f)]
      BY <2>3 DEF FetchAccount
    <3>3. FetchedAccount(l, p, f) \in SeenType
      BY <2>a DEF FetchedAccount, Normalized, NoWindow, SeenType, OfficialType
    <3>4. /\ round' \in RoundType /\ round'.phase = "write" /\ round'.at = round.at
          /\ round'.id = round.id /\ round'.readAt = round.readAt
      BY <2>a, <3>2, <3>3 DEF RoundType, RoundPhase
    <3>5. AnswerInv'
      BY <2>0, <2>b, <3>1, <3>4 DEF AnswerInv, TimesArePast, RoundAnswers, RequestsAnswered
    <3> QED
      BY <2>0, <2>a, <3>1, <3>4, <3>5, TypesElsewhere, ConsumeElsewhere DEF QuotaInv, RecoveryInv
  <2>4. CASE WriteState
    <3>1. /\ UNCHANGED <<wall, upstreamVars, enabled, refresh, resets, fence>>
          /\ round.phase = "write" /\ snapshot' = [at |-> round.at, err |-> FALSE]
          /\ round' = [round EXCEPT !.phase = "reconcile"]
      BY <2>4 DEF WriteState
    <3>2. /\ round' \in RoundType /\ round'.phase = "reconcile" /\ round'.at = round.at
          /\ round'.id = round.id /\ round'.readAt = round.readAt
          /\ snapshot' \in SnapshotType /\ snapshot'.at = round.at
      BY <2>a, <2>b, <3>1 DEF RoundType, RoundPhase, SnapshotType
    <3>3. TimesArePast' /\ RoundAnswers'
      BY <2>0, <2>b, <3>1, <3>2 DEF AnswerInv, TimesArePast, RoundAnswers
    <3>4. RequestsAnswered'
      BY <2>0, <2>b, <3>1, <3>2 DEF AnswerInv, RoundAnswers, RequestsAnswered
    <3> QED
      BY <2>0, <2>a, <3>1, <3>2, <3>3, <3>4, TypesElsewhere, ConsumeElsewhere
      DEF QuotaInv, AnswerInv, RecoveryInv
  <2>5. CASE WriteStateFails
    <3>1. /\ UNCHANGED <<wall, upstreamVars, enabled, refresh, resets, fence>>
          /\ snapshot' = [snapshot EXCEPT !.err = TRUE]
          /\ round' = [RoundDone EXCEPT !.err = TRUE] /\ round.phase = "write"
      BY <2>5 DEF WriteStateFails
    <3>2. /\ round' \in RoundType /\ round'.phase = "complete" /\ round'.id = round.id
          /\ round'.at = 0 /\ round'.readAt = 0 /\ round'.err = TRUE
      BY <2>a, <3>1, RoundDoneType
    <3>3. snapshot' \in SnapshotType /\ snapshot'.at = snapshot.at
      BY <2>a, <3>1 DEF SnapshotType
    <3>4. AnswerInv'
      BY <2>0, <2>b, <3>1, <3>2, <3>3 DEF AnswerInv, TimesArePast, RoundAnswers, RequestsAnswered
    <3> QED
      BY <2>0, <2>a, <3>1, <3>2, <3>3, <3>4, TypesElsewhere, ConsumeElsewhere
      DEF QuotaInv, RecoveryInv
  <2>6. CASE CompleteRound
    <3>1. /\ UNCHANGED <<wall, upstreamVars, enabled, snapshot, resets, fence>>
          /\ round.phase = "complete"
          /\ refresh' = MarkRefreshCompleted(refresh, round.id, round.err)
          /\ round' = [NoRound EXCEPT !.phase = "idle"]
      BY <2>6 DEF CompleteRound
    <3>2. /\ round' \in RoundType /\ round'.phase = "idle" /\ round'.id = 0
          /\ round'.at = 0 /\ round'.readAt = 0
      BY <3>1, EmptyRounds
    <3>3. CASE round.id = 0
      <4>1. refresh' = refresh
        BY <3>1, <3>3 DEF MarkRefreshCompleted
      <4>2. AnswerInv'
        BY <2>0, <2>b, <3>1, <3>2, <4>1
        DEF AnswerInv, TimesArePast, RoundAnswers, RequestsAnswered
      <4> QED
        BY <2>0, <2>a, <3>1, <3>2, <4>1, <4>2, TypesElsewhere, ConsumeElsewhere
        DEF QuotaInv, RecoveryInv
    <3>4. CASE round.id # 0
      <4>1. /\ refresh' \in RefreshType /\ refresh'.requested = refresh.requested
            /\ refresh'.at = refresh.at /\ refresh'.completed = round.id
            /\ refresh'.err = round.err
        BY <2>a, <3>1, <3>4 DEF MarkRefreshCompleted, RefreshType, RoundType
      <4>2. AnswerInv'
        BY <2>0, <2>b, <3>1, <3>2, <3>4, <4>1
        DEF AnswerInv, TimesArePast, RoundAnswers, RequestsAnswered
      <4> QED
        BY <2>0, <2>a, <3>1, <3>2, <4>1, <4>2, TypesElsewhere, ConsumeElsewhere
        DEF QuotaInv, RecoveryInv
    <3> QED
      BY <3>3, <3>4
  <2>7. CASE CompleteFails
    <3>1. /\ UNCHANGED <<wall, upstreamVars, enabled, refresh, snapshot, resets, fence>>
          /\ round' = [NoRound EXCEPT !.phase = "idle"]
      BY <2>7 DEF CompleteFails
    <3>2. /\ round' \in RoundType /\ round'.phase = "idle" /\ round'.id = 0
          /\ round'.at = 0 /\ round'.readAt = 0
      BY <3>1, EmptyRounds
    <3>3. AnswerInv'
      BY <2>0, <2>b, <3>1, <3>2 DEF AnswerInv, TimesArePast, RoundAnswers, RequestsAnswered
    <3> QED
      BY <2>0, <2>a, <3>1, <3>2, <3>3, TypesElsewhere, ConsumeElsewhere DEF QuotaInv, RecoveryInv
  <2>8. CASE WorkerCrash
    <3>1. /\ UNCHANGED <<wall, upstreamVars, enabled, refresh, snapshot, resets>>
          /\ round' = NoRound /\ fence' = IF fence = Worker THEN Free ELSE fence
      BY <2>8 DEF WorkerCrash
    <3>4. /\ round' \in RoundType /\ round'.phase = "down" /\ round'.id = 0
          /\ round'.at = 0 /\ round'.readAt = 0
      BY <3>1, EmptyRounds
    <3>2. AnswerInv'
      BY <2>0, <2>b, <3>1, <3>4 DEF AnswerInv, TimesArePast, RoundAnswers, RequestsAnswered
    <3>3. ConsumeInv'
      BY <2>0, <3>1 DEF ConsumeInv
    <3> QED
      BY <2>0, <2>a, <3>1, <3>2, <3>3, <3>4, TypesElsewhere DEF QuotaInv, RecoveryInv
  <2>9. CASE Reconcile
    <3>1. /\ UNCHANGED <<wall, upstreamVars, enabled, refresh, snapshot, resets, fence>>
          /\ round.phase = "reconcile"
          /\ \/ round' = [round EXCEPT !.phase = "fenced", !.auth = cooldown]
             \/ round' = RoundDone
      BY <2>9 DEF Reconcile, ReadAuth
    <3>2. /\ round' \in RoundType /\ round'.phase \in {"fenced", "complete"}
          /\ round'.id = round.id /\ round'.at \in {round.at, 0}
          /\ round'.readAt \in {round.readAt, 0}
      <4>1. CASE round' = [round EXCEPT !.phase = "fenced", !.auth = cooldown]
        BY <2>a, <4>1 DEF RoundType, RoundPhase
      <4>2. CASE round' = RoundDone
        BY <2>a, <4>2, RoundDoneType
      <4> QED
        BY <3>1, <4>1, <4>2
    <3>3. AnswerInv'
      BY <2>0, <2>b, <3>1, <3>2 DEF AnswerInv, TimesArePast, RoundAnswers, RequestsAnswered
    <3> QED
      BY <2>0, <2>a, <3>1, <3>2, <3>3, TypesElsewhere, ConsumeElsewhere DEF QuotaInv, RecoveryInv
  <2>10. CASE Recheck
    <3>1. /\ UNCHANGED <<wall, upstreamVars, enabled, refresh, snapshot, resets>>
          /\ round.phase = "fenced" /\ fence = Free
          /\ \/ /\ Rechecked /\ fence' = Worker
                /\ round' = [round EXCEPT !.phase = "post", !.readAt = wall]
             \/ round' = RoundDone /\ fence' = fence
      BY <2>10 DEF Recheck, FenceFree
    <3>2. ConsumeInv'
      BY <2>0, <3>1 DEF ConsumeInv
    <3>3. CASE /\ Rechecked /\ fence' = Worker
               /\ round' = [round EXCEPT !.phase = "post", !.readAt = wall]
      <4>1. /\ round' \in RoundType /\ round'.phase = "post" /\ round'.readAt = wall
            /\ round'.id = round.id /\ round'.at = round.at /\ round'.seen = round.seen
        BY <2>a, <3>3 DEF RoundType, RoundPhase
      <4>2. AnswerInv'
        BY <2>0, <2>b, <3>1, <4>1 DEF AnswerInv, TimesArePast, RoundAnswers, RequestsAnswered
      <4>3. cooldown.updated < round.seen.start /\ enabled
        BY <3>3 DEF Rechecked, RecoverableCooldown, ReadAuth
      <4>4. RecoveryInv'
        BY <2>0, <3>1, <3>3, <4>1, <4>3 DEF RecoveryInv, QuotaTypeOK
      <4> QED
        BY <2>0, <2>a, <3>1, <3>2, <4>1, <4>2, <4>4, TypesElsewhere DEF QuotaInv
    <3>4. CASE round' = RoundDone
      <4>1. /\ round' \in RoundType /\ round'.phase = "complete" /\ round'.readAt = 0
            /\ round'.id = round.id /\ round'.at = 0
        BY <2>a, <3>4, RoundDoneType
      <4>2. AnswerInv'
        BY <2>0, <2>b, <3>1, <4>1 DEF AnswerInv, TimesArePast, RoundAnswers, RequestsAnswered
      <4> QED
        BY <2>0, <2>a, <3>1, <3>2, <4>1, <4>2, TypesElsewhere DEF QuotaInv, RecoveryInv
    <3> QED
      BY <3>1, <3>3, <3>4
  <2>11. CASE ResetQuota
    <3>1. /\ UNCHANGED <<wall, official, credits, enabled, refresh, snapshot, resets>>
          /\ round.phase = "post" /\ round' = RoundDone /\ fence' = Free
          /\ cooldown' = NoCooldown \/ cooldown' = cooldown
      BY <2>11 DEF ResetQuota
    <3>2. /\ round' \in RoundType /\ round'.phase = "complete" /\ round'.readAt = 0
          /\ round'.id = round.id /\ round'.at = 0
      BY <2>a, <3>1, RoundDoneType
    <3>3. AnswerInv'
      BY <2>0, <2>b, <3>1, <3>2 DEF AnswerInv, TimesArePast, RoundAnswers, RequestsAnswered
    <3>4. ConsumeInv'
      BY <2>0, <3>1 DEF ConsumeInv, RecoveryInv
    <3>6. cooldown' \in CooldownType
      BY <2>a, <3>1, NoCooldownType
    <3>5. QuotaTypeOK'
      BY <2>0, <3>1, <3>2, <3>6 DEF QuotaTypeOK
    <3> QED
      BY <3>2, <3>3, <3>4, <3>5 DEF QuotaInv, RecoveryInv
  <2>12. CASE RequestRefresh
    <3>1. /\ UNCHANGED <<wall, upstreamVars, enabled, snapshot, round, resets, fence>>
          /\ ~Pending(refresh)
          /\ refresh' = [refresh EXCEPT !.requested = @ + 1, !.at = wall, !.err = FALSE]
      BY <2>12 DEF RequestRefresh
    <3> DEFINE next == refresh.requested + 1
    <3>5. next \in Nat
      BY <2>b
    <3>6. refresh' = [refresh EXCEPT !.requested = next, !.at = wall, !.err = FALSE]
      BY <3>1
    <3>2. /\ refresh' \in RefreshType /\ refresh'.requested = refresh.requested + 1
          /\ refresh'.completed = refresh.completed /\ refresh'.at = wall
      <4> HIDE DEF next
      <4>1. /\ refresh' \in RefreshType /\ refresh'.requested = next
            /\ refresh'.completed = refresh.completed /\ refresh'.at = wall
        BY <2>a, <3>5, <3>6 DEF RefreshType
      <4> QED
        BY <4>1 DEF next
    <3>3. round.id = 0
      BY <2>0, <2>b, <3>1 DEF AnswerInv, RoundAnswers, Pending
    <3>4. AnswerInv'
      BY <2>0, <2>b, <3>1, <3>2, <3>3 DEF AnswerInv, TimesArePast, RoundAnswers, RequestsAnswered
    <3> QED
      BY <2>0, <2>a, <3>1, <3>2, <3>4, TypesElsewhere, ConsumeElsewhere, RecoveryElsewhere
      DEF QuotaInv
  <2>13. ASSUME NEW o \in Operator, Inspect(o) \/ ResetReads(o)
         PROVE  QuotaInv'
    <3>1. UNCHANGED <<wall, upstreamVars, enabled, workerVars>>
      BY <2>13 DEF Inspect, ResetReads
    <3>2. resets' \in [Operator -> ResetType]
      BY <2>0, <2>a, <2>13 DEF Inspect, ResetReads, NoReset, ResetType, QuotaTypeOK
    <3>3. /\ fence' = fence \/ (fence = Free /\ fence' = o)
          /\ \A p \in Operator : \/ resets'[p] = resets[p]
                                 \/ resets'[p].phase # "consume"
                                 \/ p = o /\ fence' = o /\ official.used = TRUE
      <4>1. CASE Inspect(o)
        <5>1. fence' = fence
          BY <4>1 DEF Inspect
        <5>2. PICK c \in credits : resets' = [resets EXCEPT ![o] = [phase |-> "chosen", credit |-> c]]
          BY <4>1 DEF Inspect
        <5>3. \A p \in Operator : p # o => resets'[p] = resets[p]
          BY <2>a, <5>2
        <5>4. resets'[o].phase = "chosen"
          BY <2>a, <5>2
        <5> QED
          BY <5>1, <5>3, <5>4
      <4>2. CASE ResetReads(o)
        <5>1. \/ /\ resets' = [resets EXCEPT ![o].phase = "consume"]
                 /\ fence = Free /\ fence' = o /\ official.used = TRUE
              \/ resets' = [resets EXCEPT ![o] = NoReset] /\ fence' = fence
          BY <2>a, <4>2 DEF ResetReads, FenceFree, OfficialType
        <5>2. CASE resets' = [resets EXCEPT ![o].phase = "consume"] /\ fence = Free /\ fence' = o
                     /\ official.used = TRUE
          BY <2>a, <5>2
        <5>3. CASE resets' = [resets EXCEPT ![o] = NoReset] /\ fence' = fence
          <6>1. resets'[o].phase = "idle"
            BY <2>a, <5>3 DEF NoReset
          <6>2. \A p \in Operator : p # o => resets'[p] = resets[p]
            BY <2>a, <5>3
          <6> QED
            BY <5>3, <6>1, <6>2
        <5> QED
          BY <5>1, <5>2, <5>3
      <4> QED
        BY <2>13, <4>1, <4>2
    <3>4. ConsumeInv'
      BY <2>0, <2>a, <3>1, <3>3 DEF ConsumeInv, OfficialType
    <3>5. RecoveryInv'
      BY <2>0, <3>1, <3>3 DEF RecoveryInv
    <3>6. QuotaTypeOK'
      BY <2>0, <3>1, <3>2 DEF QuotaTypeOK
    <3> QED
      BY <2>0, <3>1, <3>4, <3>5, <3>6, AnswerElsewhere DEF QuotaInv
  <2>14. ASSUME NEW o \in Operator, ConsumeResetCredit(o)
         PROVE  QuotaInv'
    <3>1. /\ UNCHANGED <<wall, cooldown, enabled, workerVars>> /\ resets[o].phase = "consume"
          /\ resets' = [resets EXCEPT ![o] = NoReset]
          /\ fence' = IF fence = o THEN Free ELSE fence
          /\ credits' \subseteq credits
          /\ official' = official
               \/ official' = [official EXCEPT !.start = wall, !.used = FALSE, !.by = "credit"]
      BY <2>14 DEF ConsumeResetCredit, Redeem
    <3>2. fence = o
      BY <2>0, <3>1 DEF ConsumeInv
    <3>3. official' \in OfficialType /\ resets' \in [Operator -> ResetType]
      BY <2>a, <3>1 DEF OfficialType, NoReset, ResetType
    <3>4. ConsumeInv'
      <4>1. \A p \in Operator : p # o => resets[p].phase # "consume"
        BY <2>0, <3>2 DEF ConsumeInv
      <4>2. \A p \in Operator : resets'[p].phase # "consume"
        BY <2>a, <3>1, <4>1 DEF NoReset
      <4> QED
        BY <4>2 DEF ConsumeInv
    <3>5. RecoveryInv'
      BY <2>0, <3>1, <3>2 DEF RecoveryInv
    <3>6. QuotaTypeOK'
      BY <2>0, <3>1, <3>3 DEF QuotaTypeOK
    <3> QED
      BY <2>0, <3>1, <3>4, <3>5, <3>6, AnswerElsewhere DEF QuotaInv
  <2>15. CASE SetEnabled
    <3>1. /\ UNCHANGED <<wall, upstreamVars, workerVars, resets, fence>> /\ fence = Free
          /\ enabled' = ~enabled
      BY <2>15 DEF SetEnabled
    <3>2. enabled' \in BOOLEAN
      BY <3>1
    <3>3. QuotaTypeOK'
      BY <2>0, <3>1, <3>2 DEF QuotaTypeOK
    <3> QED
      BY <2>0, <3>1, <3>3, AnswerElsewhere, ConsumeElsewhere DEF QuotaInv, RecoveryInv
  <2>16. CASE TickWall
    <3>1. UNCHANGED <<upstreamVars, enabled, workerVars, resets, fence>> /\ wall' = wall + 1
      BY <2>16 DEF TickWall
    <3>2. AnswerInv'
      BY <2>0, <2>a, <2>b, <3>1 DEF AnswerInv, TimesArePast, RoundAnswers, RequestsAnswered
    <3> QED
      BY <2>0, <2>a, <3>1, <3>2, TypesElsewhere, ConsumeElsewhere, RecoveryElsewhere DEF QuotaInv
  <2>17. CASE Upstream
    <3>1. /\ UNCHANGED <<wall, cooldown, credits, enabled, workerVars, resets, fence>>
          /\ \/ official' = [official EXCEPT !.used = TRUE]
             \/ official' = [official EXCEPT !.short = ~@]
             \/ official' = [official EXCEPT !.start = wall, !.used = FALSE, !.by = "week"]
      BY <2>17 DEF Upstream
    <3>2. /\ official' \in OfficialType
          /\ official.used = TRUE \/ official.by # "credit" =>
                official'.used = TRUE \/ official'.by # "credit"
      BY <2>a, <3>1 DEF OfficialType
    <3>3. ConsumeInv'
      BY <2>0, <3>1, <3>2 DEF ConsumeInv
    <3>4. QuotaTypeOK'
      BY <2>0, <3>1, <3>2 DEF QuotaTypeOK
    <3> QED
      BY <2>0, <3>1, <3>3, <3>4, AnswerElsewhere, RecoveryElsewhere DEF QuotaInv
  <2>18. CASE Native
    <3>1. /\ UNCHANGED <<wall, official, credits, enabled, workerVars, resets, fence>>
          /\ \/ cooldown' = [cool |-> TRUE, updated |-> wall,
                             resets |-> IF official.used THEN official.start + QWeek ELSE wall + 1]
             \/ /\ cooldown.cool /\ cooldown' = NoCooldown
      BY <2>18 DEF Native
    <3>2. CASE cooldown' = [cool |-> TRUE, updated |-> wall,
                            resets |-> IF official.used THEN official.start + QWeek
                                       ELSE wall + 1]
      <4>1. cooldown' \in CooldownType /\ cooldown'.updated = wall
        BY <2>a, <3>2 DEF CooldownType, OfficialType
      <4>2. RecoveryInv'
        BY <2>0, <2>b, <3>1, <4>1 DEF RecoveryInv, AnswerInv, TimesArePast
      <4> QED
        BY <2>0, <3>1, <4>1, <4>2, AnswerElsewhere, ConsumeElsewhere DEF QuotaInv, QuotaTypeOK
    <3>3. CASE cooldown' = NoCooldown
      <4>1. cooldown' \in CooldownType /\ cooldown'.cool = FALSE
        BY <3>3 DEF NoCooldown, CooldownType
      <4>2. RecoveryInv'
        BY <2>0, <3>1, <4>1 DEF RecoveryInv
      <4> QED
        BY <2>0, <3>1, <4>1, <4>2, AnswerElsewhere, ConsumeElsewhere DEF QuotaInv, QuotaTypeOK
    <3> QED
      BY <3>1, <3>2, <3>3
  <2>20. CASE RedeemLate
    <3>1. /\ UNCHANGED <<wall, cooldown, enabled, workerVars, resets, fence>>
          /\ credits' \subseteq credits
          /\ official' = [official EXCEPT !.start = wall, !.used = FALSE, !.by = "late"]
      BY <2>20 DEF RedeemLate, Redeem
    <3>2. official' \in OfficialType /\ official'.by # "credit"
      BY <2>a, <3>1 DEF OfficialType
    <3>3. ConsumeInv'
      BY <2>0, <3>1, <3>2 DEF ConsumeInv
    <3>4. QuotaTypeOK'
      BY <2>0, <3>1, <3>2 DEF QuotaTypeOK
    <3> QED
      BY <2>0, <3>1, <3>3, <3>4, AnswerElsewhere, RecoveryElsewhere DEF QuotaInv
  <2>19. CASE UNCHANGED quotaVars
    BY <2>0, <2>19, AnswerElsewhere, ConsumeElsewhere, RecoveryElsewhere
    DEF quotaVars, QuotaInv, QuotaTypeOK
  <2> QED
    BY <2>1, <2>2, <2>3, <2>4, <2>5, <2>6, <2>7, <2>8, <2>9, <2>10, <2>11, <2>12, <2>13, <2>14,
       <2>15, <2>16, <2>17, <2>18, <2>19, <2>20
    DEF QuotaNext, QuotaAct, WorkerStep, ResetStep, StartWorker, ScheduledRound, WatchRequest
<1> QED
  BY <1>1, <1>2, PTL DEF QuotaSpec

\* A request that is marked completed without an error was answered by a
\* snapshot begun after it, however requests, rounds, failed writes and crashes
\* interleave (runRefreshRound, MarkRefreshCompleted).
THEOREM RequestsAreAnswered == QuotaSpec => []RequestsAnswered
<1>1. QuotaInv => RequestsAnswered
  BY DEF QuotaInv, AnswerInv
<1> QED
  BY <1>1, QuotaInvariance, PTL

\* A recovery clears only a cooldown older than the window its evidence shows,
\* or one set after its last look, and only of an enabled account
\* (reconcileAccount).
THEOREM RecoveriesClearOld == QuotaSpec => OldCooldownsCleared
<1>1. QuotaInv /\ [QuotaNext]_quotaVars =>
        [(round.phase = "post" /\ round'.phase # "post" /\ cooldown.cool /\ ~cooldown'.cool)
            => /\ enabled
               /\ cooldown.updated < round.seen.start \/ cooldown.updated >= round.readAt]_quotaVars
  <2> SUFFICES ASSUME QuotaInv, round.phase = "post", cooldown.cool
               PROVE  /\ enabled
                      /\ cooldown.updated < round.seen.start \/ cooldown.updated >= round.readAt
    OBVIOUS
  <2>1. cooldown.cool = TRUE
    BY DEF QuotaInv, QuotaTypeOK, CooldownType
  <2> QED
    BY <2>1 DEF QuotaInv, RecoveryInv
<1> QED
  BY <1>1, QuotaInvariance, PTL DEF QuotaSpec, OldCooldownsCleared

\* No credit is spent on a window that another has renewed (Reset), but for
\* what the upstream does after the client's timeout.
THEOREM CreditsWellSpent == QuotaSpec => CreditsBuyWindows
<1>1. QuotaInv /\ [QuotaNext]_quotaVars =>
        [\A c \in credits \ credits' :
            official.used \/ official.by # "credit" \/ c \in delayed]_quotaVars
  <2> SUFFICES ASSUME QuotaInv, QuotaNext, NEW c \in credits \ credits'
               PROVE  official.used \/ official.by # "credit" \/ c \in delayed
    OBVIOUS
  <2> USE DEF upstreamVars
  <2>1. (\E o \in Operator : ConsumeResetCredit(o)) \/ RedeemLate
    BY DEF QuotaNext, QuotaAct, WorkerStep, ResetStep, StartWorker, ScheduledRound, WatchRequest,
         BeginRound, BeginRunOnce, FetchAccount, WriteState, WriteStateFails, CompleteRound,
         CompleteFails, WorkerCrash, Reconcile, Recheck, ResetQuota, RequestRefresh, Inspect,
         ResetReads, SetEnabled, TickWall, Upstream, Native
  <2>2. CASE \E o \in Operator : ConsumeResetCredit(o)
    BY <2>2 DEF ConsumeResetCredit, QuotaInv, ConsumeInv
  <2>3. CASE RedeemLate
    BY <2>3 DEF RedeemLate, Redeem
  <2> QED
    BY <2>1, <2>2, <2>3
<1> QED
  BY <1>1, QuotaInvariance, PTL DEF QuotaSpec, CreditsBuyWindows

-----------------------------------------------------------------------------
(* Log rotation: copies before cuts. *)

Rotation == [phase : {"idle", "remove", "shift", "truncate"}, copy : Seq(Nat),
             shift : 0..(Backups - 1)]

\* While backups are shifted up the file the next one moves to is free, and
\* the log is cut only once its copy is a backup.
RotationInv ==
    /\ log \in Seq(Nat) /\ written \in Nat
    /\ backup \in [1..Backups -> Seq(Nat)]
    /\ rotation \in Rotation
    /\ rotation.phase = "remove" => rotation.shift = Backups - 1
    /\ rotation.phase = "shift" => backup[rotation.shift + 1] = <<>>
    /\ rotation.phase = "truncate" => backup[1] = rotation.copy

\* A step of the reader.
ReaderStep ==
    OpenLog \/ CheckPrefix \/ ReadChunk \/ ReadEnds \/ ReadBreaks \/ ReaderFails \/ FinishReading

\* The reader only reads the files.
LEMMA ReaderLeavesFiles ==
  ASSUME ReaderStep
  PROVE  UNCHANGED <<log, written, backup, rotation, cutoff>>
<1>1. CASE OpenLog \/ CheckPrefix \/ ReadChunk
  BY <1>1 DEF OpenLog, CheckPrefix, ReadChunk
<1>2. CASE ReadEnds \/ ReadBreaks \/ ReaderFails \/ FinishReading
  BY <1>2 DEF ReadEnds, ReadBreaks, ReaderFails, FinishReading
<1> QED
  BY <1>1, <1>2 DEF ReaderStep

\* The inductive invariant behind LinesKept.
THEOREM RotationKeepsCopies == LogSpec => []RotationInv
<1> USE AccessLogAssumption
<1>1. LogInit => RotationInv
  <2> SUFFICES ASSUME LogInit PROVE RotationInv
    OBVIOUS
  <2>1. rotation \in Rotation /\ rotation.phase = "idle"
    BY DEF LogInit, NoRotation, Rotation
  <2> QED
    BY <2>1 DEF LogInit, RotationInv
<1>2. RotationInv /\ [LogNext]_logVars => RotationInv'
  <2> SUFFICES ASSUME RotationInv, [LogNext]_logVars PROVE RotationInv'
    OBVIOUS
  <2>0. /\ log \in Seq(Nat) /\ written \in Nat
        /\ backup \in [1..Backups -> Seq(Nat)] /\ rotation \in Rotation
        /\ 1 \in 1..Backups /\ Backups \in 1..Backups
        /\ <<>> \in Seq(Nat)
    BY DEF RotationInv
  <2>1. CASE Append1
    <3>1. written' = written + 1 /\ log' = Append(log, written + 1)
          /\ UNCHANGED <<backup, rotation>>
      BY <2>1 DEF Append1
    <3>2. written' \in Nat /\ log' \in Seq(Nat)
      BY <2>0, <3>1
    <3> QED
      BY <3>1, <3>2 DEF RotationInv
  <2>2. CASE WindowMoves \/ ReaderStep \/ UNCHANGED logVars
    BY <2>2, ReaderLeavesFiles DEF WindowMoves, logVars, RotationInv
  <2>3. CASE CopyLog
    <3>1. /\ UNCHANGED <<log, written, backup>>
          /\ rotation' = [phase |-> "remove", copy |-> log, shift |-> Backups - 1]
      BY <2>3 DEF CopyLog
    <3>2. rotation' \in Rotation
      BY <2>0, <3>1 DEF Rotation
    <3> QED
      BY <2>0, <3>1, <3>2 DEF RotationInv
  <2>4. CASE RemoveOldest
    <3>1. /\ backup' = [backup EXCEPT ![Backups] = <<>>] /\ UNCHANGED <<log, written>>
          /\ rotation' = [rotation EXCEPT !.phase = "shift"]
          /\ rotation.phase = "remove"
      BY <2>4 DEF RemoveOldest
    <3>2. /\ rotation' \in Rotation /\ rotation'.phase = "shift"
          /\ rotation'.shift = Backups - 1
      BY <2>0, <3>1 DEF Rotation, RotationInv
    <3>3. backup' \in [1..Backups -> Seq(Nat)] /\ backup'[Backups] = <<>>
      BY <2>0, <3>1
    <3>4. rotation'.shift + 1 = Backups
      BY <3>2
    <3> QED
      BY <2>0, <3>1, <3>2, <3>3, <3>4 DEF RotationInv
  <2>5. CASE ShiftBackup
    <3> DEFINE i == rotation.shift
    <3>1. /\ UNCHANGED <<log, written>>
          /\ backup' = [backup EXCEPT ![i + 1] = IF backup[i] # <<>> THEN backup[i] ELSE @,
                                      ![i] = <<>>]
          /\ rotation' = [rotation EXCEPT !.shift = i - 1]
          /\ rotation.phase = "shift" /\ i > 0
      BY <2>5 DEF ShiftBackup
    <3>2. i \in 1..(Backups - 1) /\ i \in 1..Backups /\ i + 1 \in 1..Backups
          /\ i - 1 \in 0..(Backups - 1)
      BY <2>0, <3>1 DEF Rotation
    <3> HIDE DEF i
    <3>3. /\ rotation'.phase = "shift" /\ rotation'.shift = i - 1 /\ rotation' \in Rotation
      BY <2>0, <3>1, <3>2 DEF Rotation
    <3>4. backup' \in [1..Backups -> Seq(Nat)] /\ backup'[i] = <<>>
      <4>1. backup[i] \in Seq(Nat) /\ backup[i + 1] \in Seq(Nat) /\ i # i + 1
        BY <2>0, <3>2
      <4>2. PICK moved \in Seq(Nat) :
                backup' = [backup EXCEPT ![i + 1] = moved, ![i] = <<>>]
        BY <3>1, <4>1
      <4> QED
        BY <2>0, <3>2, <4>2
    <3>5. rotation'.shift + 1 = i
      BY <3>2, <3>3
    <3> QED
      BY <2>0, <3>1, <3>3, <3>4, <3>5 DEF RotationInv
  <2>6. CASE PublishBackup
    <3>1. /\ backup' = [backup EXCEPT ![1] = rotation.copy] /\ UNCHANGED <<log, written>>
          /\ rotation' = [rotation EXCEPT !.phase = "truncate"]
      BY <2>6 DEF PublishBackup
    <3>2. /\ rotation' \in Rotation /\ rotation'.phase = "truncate"
          /\ rotation'.copy = rotation.copy /\ rotation.copy \in Seq(Nat)
      BY <2>0, <3>1 DEF Rotation
    <3>3. backup' \in [1..Backups -> Seq(Nat)] /\ backup'[1] = rotation.copy
      BY <2>0, <3>1, <3>2
    <3> QED
      BY <2>0, <3>1, <3>2, <3>3 DEF RotationInv
  <2>7. CASE TruncateLog \/ RotationFails
    <3>1. /\ rotation' = NoRotation /\ UNCHANGED <<written, backup>>
          /\ log' = log \/ log' = <<>>
      BY <2>7 DEF TruncateLog, RotationFails
    <3>2. rotation' \in Rotation /\ rotation'.phase = "idle"
      BY <2>0, <3>1 DEF Rotation, NoRotation
    <3> QED
      BY <2>0, <3>1, <3>2 DEF RotationInv
  <2> QED
    BY <2>1, <2>2, <2>3, <2>4, <2>5, <2>6, <2>7 DEF LogNext, ReaderStep
<1> QED
  BY <1>1, <1>2, PTL DEF LogSpec

\* Moving a backup one place up keeps its lines and those of the others.
LEMMA ShiftKeepsLines ==
  ASSUME RotationInv, ShiftBackup, NEW l, NEW j \in 1..Backups, l \in ToSet(backup[j])
  PROVE  \E k \in 1..Backups : l \in ToSet(backup'[k])
<1> DEFINE i == rotation.shift
<1> USE AccessLogAssumption
<1>0. rotation.shift \in 0..(Backups - 1) /\ rotation.phase = "shift" /\ rotation.shift > 0
  BY DEF ShiftBackup, RotationInv, Rotation
<1>1. /\ i \in 1..(Backups - 1) /\ backup[i + 1] = <<>>
      /\ backup' = [backup EXCEPT ![i + 1] = IF backup[i] # <<>> THEN backup[i] ELSE @,
                                  ![i] = <<>>]
      /\ backup \in [1..Backups -> Seq(Nat)]
  BY <1>0 DEF ShiftBackup, RotationInv
<1> HIDE DEF i
<1>2. i \in 1..Backups /\ i + 1 \in 1..Backups /\ i # i + 1
  BY <1>1
<1>3. backup'[i + 1] = backup[i]
  BY <1>1, <1>2
<1>4. CASE j = i
  BY <1>2, <1>3, <1>4
<1>5. CASE j = i + 1
  BY <1>1, <1>5 DEF ToSet
<1>6. CASE j # i /\ j # i + 1
  <2>1. backup'[j] = backup[j]
    BY <1>1, <1>6
  <2> QED
    BY <2>1
<1> QED
  BY <1>4, <1>5, <1>6

\* What a step takes from the log and its backups.
LEMMA LinesLost ==
  ASSUME RotationInv, [LogNext]_logVars, NEW l,
         \/ l \in ToSet(log) \/ \E i \in 1..Backups : l \in ToSet(backup[i]),
         l \notin ToSet(log'), \A i \in 1..Backups : l \notin ToSet(backup'[i])
  PROVE  \/ l \in ToSet(backup[Backups]) /\ rotation.phase = "remove"
         \/ l \in ToSet(log) \ ToSet(rotation.copy) /\ rotation.phase = "truncate"
<1> USE AccessLogAssumption
<1>1. CASE Append1
  <2>1. backup' = backup /\ log' = Append(log, written + 1)
    BY <1>1 DEF Append1
  <2>2. log \in Seq(Nat) /\ written + 1 \in Nat
    BY DEF RotationInv
  <2>3. /\ DOMAIN log \subseteq DOMAIN log'
        /\ \A i \in DOMAIN log : log'[i] = log[i]
    BY <2>1, <2>2
  <2>4. l \in ToSet(log) => l \in ToSet(log')
    BY <2>3 DEF ToSet
  <2> QED
    BY <2>1, <2>4
<1>2. CASE WindowMoves \/ CopyLog \/ RotationFails \/ ReaderStep \/ UNCHANGED logVars
  BY <1>2, ReaderLeavesFiles DEF WindowMoves, CopyLog, RotationFails, logVars
<1>3. CASE RemoveOldest
  BY <1>3 DEF RemoveOldest, RotationInv
<1>4. CASE ShiftBackup
  <2>1. log' = log
    BY <1>4 DEF ShiftBackup
  <2> QED
    BY <1>4, <2>1, ShiftKeepsLines
<1>5. CASE PublishBackup
  <2>1. /\ log' = log /\ backup[1] = <<>> /\ backup' = [backup EXCEPT ![1] = rotation.copy]
    BY <1>5 DEF PublishBackup, RotationInv
  <2>2. \A i \in 1..Backups : l \in ToSet(backup[i]) => i # 1
    BY <2>1 DEF ToSet
  <2> QED
    BY <2>1, <2>2 DEF RotationInv
<1>6. CASE TruncateLog
  <2>1. backup' = backup /\ rotation.phase = "truncate" /\ backup[1] = rotation.copy
    BY <1>6 DEF TruncateLog, RotationInv
  <2> QED
    BY <2>1
<1> QED
  BY <1>1, <1>2, <1>3, <1>4, <1>5, <1>6 DEF LogNext, ReaderStep

\* Rotation loses a line only with the oldest backup, or because it was written
\* between the copy and the truncation, whatever step fails (RotateFile).
THEOREM RotationKeepsLines == LogSpec => LinesKept
<1>1. RotationInv /\ [LogNext]_logVars => [\A l \in 1..written :
          LET held == ToSet(log) \cup UNION {ToSet(backup[i]) : i \in 1..Backups}
              heldNext == ToSet(log') \cup UNION {ToSet(backup'[i]) : i \in 1..Backups}
          IN  (l \in held /\ l \notin heldNext)
                  => \/ l \in ToSet(backup[Backups]) /\ rotation.phase = "remove"
                     \/ l \in ToSet(log) \ ToSet(rotation.copy) /\ rotation.phase = "truncate"]_logVars
  <2> SUFFICES ASSUME RotationInv, [LogNext]_logVars, NEW l \in 1..written,
                      l \in ToSet(log) \cup UNION {ToSet(backup[i]) : i \in 1..Backups},
                      l \notin ToSet(log') \cup UNION {ToSet(backup'[i]) : i \in 1..Backups}
               PROVE  \/ l \in ToSet(backup[Backups]) /\ rotation.phase = "remove"
                      \/ l \in ToSet(log) \ ToSet(rotation.copy) /\ rotation.phase = "truncate"
    OBVIOUS
  <2>1. l \in ToSet(log) \/ \E i \in 1..Backups : l \in ToSet(backup[i])
    OBVIOUS
  <2>2. l \notin ToSet(log') /\ \A i \in 1..Backups : l \notin ToSet(backup'[i])
    OBVIOUS
  <2> QED
    BY <2>1, <2>2, LinesLost
<1> QED
  BY <1>1, RotationKeepsCopies, PTL DEF LogSpec, LinesKept

-----------------------------------------------------------------------------
(* The reader of the access log: what it has is what is in the file. *)

\* The lines after lo up to hi.
Run(lo, hi) == [i \in 1..(hi - lo) |-> lo + i]

\* Where the lines of Run(lo, hi) that are later than c begin.
Later(lo, hi, c) == IF c <= lo THEN lo ELSE IF c <= hi THEN c ELSE hi

\* A run is a sequence of lines.
LEMMA RunIsSeq ==
  ASSUME NEW lo \in Nat, NEW hi \in Nat, lo <= hi
  PROVE  /\ Run(lo, hi) \in Seq(Nat) /\ Len(Run(lo, hi)) = hi - lo
         /\ DOMAIN Run(lo, hi) = 1..(hi - lo)
         /\ \A i \in 1..(hi - lo) : Run(lo, hi)[i] = lo + i
BY DEF Run

\* A sequence of consecutive lines is a run.
LEMMA SeqIsRun ==
  ASSUME NEW s \in Seq(Nat), NEW lo \in Nat, NEW hi \in Nat, lo <= hi, Len(s) = hi - lo,
         \A i \in 1..(hi - lo) : s[i] = lo + i
  PROVE  s = Run(lo, hi)
<1> DEFINE r == Run(lo, hi)
<1>1. /\ r \in Seq(Nat) /\ Len(r) = hi - lo
      /\ \A i \in 1..(hi - lo) : r[i] = lo + i
  BY RunIsSeq
<1> HIDE DEF r
<1>2. Len(s) = Len(r) /\ \A i \in 1..Len(s) : s[i] = r[i]
  BY <1>1
<1>3. s = r
  BY <1>1, <1>2, SeqEqual
<1> QED
  BY <1>3 DEF r

\* An empty run has no lines.
LEMMA EmptyRun ==
  ASSUME NEW lo \in Nat
  PROVE  Run(lo, lo) = <<>>
<1>1. Run(lo, lo) \in Seq(Nat) /\ Len(Run(lo, lo)) = 0
  BY RunIsSeq
<1> QED
  BY <1>1, EmptySeq

\* The next line continues a run.
LEMMA AppendToRun ==
  ASSUME NEW lo \in Nat, NEW hi \in Nat, lo <= hi
  PROVE  Append(Run(lo, hi), hi + 1) = Run(lo, hi + 1)
<1> DEFINE r == Run(lo, hi)
<1> DEFINE s == Append(r, hi + 1)
<1>1. /\ r \in Seq(Nat) /\ Len(r) = hi - lo
      /\ \A i \in 1..(hi - lo) : r[i] = lo + i
  BY RunIsSeq
<1> HIDE DEF r
<1>2. s \in Seq(Nat) /\ Len(s) = (hi + 1) - lo
  BY <1>1
<1>3. \A i \in 1..((hi + 1) - lo) : s[i] = lo + i
  BY <1>1
<1> HIDE DEF s
<1>4. s = Run(lo, hi + 1)
  BY <1>2, <1>3, SeqIsRun
<1> QED
  BY <1>4 DEF s, r

\* Two runs of which the second begins where the first ends are one.
LEMMA RunsJoin ==
  ASSUME NEW lo \in Nat, NEW mid \in Nat, NEW hi \in Nat, lo <= mid, mid <= hi
  PROVE  Run(lo, mid) \o Run(mid, hi) = Run(lo, hi)
<1> DEFINE r == Run(lo, mid)
<1> DEFINE t == Run(mid, hi)
<1> DEFINE s == r \o t
<1>1. /\ r \in Seq(Nat) /\ Len(r) = mid - lo
      /\ \A i \in 1..(mid - lo) : r[i] = lo + i
      /\ t \in Seq(Nat) /\ Len(t) = hi - mid
      /\ \A i \in 1..(hi - mid) : t[i] = mid + i
  BY RunIsSeq
<1> HIDE DEF r, t
<1>2. /\ s \in Seq(Nat) /\ Len(s) = Len(r) + Len(t)
      /\ \A i \in 1..(Len(r) + Len(t)) : s[i] = IF i <= Len(r) THEN r[i] ELSE t[i - Len(r)]
  BY <1>1, ConcatProperties, Zenon
<1> HIDE DEF s
<1>3. ASSUME NEW i \in 1..(hi - lo) PROVE s[i] = lo + i
  <2>1. i \in 1..(Len(r) + Len(t))
    BY <1>1
  <2>2. CASE i <= mid - lo
    BY <1>1, <1>2, <2>1, <2>2
  <2>3. CASE ~(i <= mid - lo)
    <3>1. i - (mid - lo) \in 1..(hi - mid)
      BY <2>3
    <3>2. s[i] = t[i - (mid - lo)]
      BY <1>1, <1>2, <2>1, <2>3
    <3>3. t[i - (mid - lo)] = mid + (i - (mid - lo))
      BY <1>1, <3>1
    <3> QED
      BY <3>2, <3>3
  <2> QED
    BY <2>2, <2>3
<1>4. Len(s) = hi - lo
  BY <1>1, <1>2
<1>5. s = Run(lo, hi)
  BY <1>2, <1>3, <1>4, SeqIsRun
<1> QED
  BY <1>5 DEF s, r, t

\* A part of a run is a run.
LEMMA PartOfRun ==
  ASSUME NEW lo \in Nat, NEW m \in Nat, NEW n \in Nat, NEW hi \in Nat,
         lo <= m, m <= n, n <= hi
  PROVE  SubSeq(Run(lo, hi), (m - lo) + 1, n - lo) = Run(m, n)
<1> DEFINE r == Run(lo, hi)
<1> DEFINE s == SubSeq(r, (m - lo) + 1, n - lo)
<1>1. /\ r \in Seq(Nat) /\ Len(r) = hi - lo
      /\ \A i \in 1..(hi - lo) : r[i] = lo + i
  BY RunIsSeq
<1> HIDE DEF r
<1>2. s \in Seq(Nat) /\ Len(s) = n - m
  BY <1>1
<1>3. ASSUME NEW i \in 1..(n - m) PROVE s[i] = m + i
  <2>1. (m - lo) + i \in 1..(hi - lo)
    OBVIOUS
  <2>2. s[i] = r[(m - lo) + i]
    BY <1>1, <2>1
  <2>3. r[(m - lo) + i] = lo + ((m - lo) + i)
    BY <1>1, <2>1
  <2> QED
    BY <2>2, <2>3
<1> HIDE DEF s
<1>4. s = Run(m, n)
  BY <1>2, <1>3, SeqIsRun
<1> QED
  BY <1>4 DEF s, r

\* The beginning of a run is a run.
LEMMA BeginOfRun ==
  ASSUME NEW lo \in Nat, NEW n \in Nat, NEW hi \in Nat, lo <= n, n <= hi
  PROVE  SubSeq(Run(lo, hi), 1, n - lo) = Run(lo, n)
<1>1. ASSUME NEW m \in Nat, m = lo PROVE SubSeq(Run(lo, hi), (m - lo) + 1, n - lo) = Run(m, n)
  <2>1. lo <= m /\ m <= n
    BY <1>1
  <2> QED
    BY <2>1, PartOfRun
<1>2. SubSeq(Run(lo, hi), (lo - lo) + 1, n - lo) = Run(lo, n)
  BY <1>1
<1>3. (lo - lo) + 1 = 1
  OBVIOUS
<1> QED
  BY <1>2, <1>3

\* The turns of the loop of recent over the rows.
Retained(rows, c, n, f) ==
    f = [i \in 0..n |-> IF i = 0 THEN <<>>
                        ELSE IF rows[i] > c THEN Append(f[i - 1], rows[i])
                        ELSE f[i - 1]]

\* The loop over a run can be taken turn by turn: one more turn.
LEMMA RetainedTurn ==
  ASSUME NEW lo \in Nat, NEW c \in Nat, NEW n \in Nat
  PROVE  Run(Later(lo, lo + n + 1, c), lo + n + 1)
           = IF lo + n + 1 > c
             THEN Append(Run(Later(lo, lo + n, c), lo + n), lo + n + 1)
             ELSE Run(Later(lo, lo + n, c), lo + n)
<1>1. CASE lo + n + 1 > c
  <2>1. /\ Later(lo, lo + n + 1, c) = Later(lo, lo + n, c)
        /\ Later(lo, lo + n, c) \in Nat /\ Later(lo, lo + n, c) <= lo + n
    BY <1>1 DEF Later
  <2>2. Append(Run(Later(lo, lo + n, c), lo + n), lo + n + 1)
          = Run(Later(lo, lo + n, c), lo + n + 1)
    <3> DEFINE a == Later(lo, lo + n, c)
    <3>1. a \in Nat /\ a <= lo + n /\ lo + n \in Nat
      BY <2>1
    <3> HIDE DEF a
    <3>2. Append(Run(a, lo + n), lo + n + 1) = Run(a, lo + n + 1)
      BY <3>1, AppendToRun
    <3> QED
      BY <3>2 DEF a
  <2> QED
    BY <1>1, <2>1, <2>2
<1>2. CASE ~(lo + n + 1 > c)
  <2>1. Later(lo, lo + n + 1, c) = lo + n + 1 /\ Later(lo, lo + n, c) = lo + n
    BY <1>2 DEF Later
  <2>2. Run(lo + n + 1, lo + n + 1) = <<>> /\ Run(lo + n, lo + n) = <<>>
    BY EmptyRun
  <2> QED
    BY <1>2, <2>1, <2>2
<1> QED
  BY <1>1, <1>2

\* What recent retains of a run is the part later than the cut.
LEMMA RecentOfRun ==
  ASSUME NEW lo \in Nat, NEW hi \in Nat, lo <= hi, NEW c \in Nat
  PROVE  RecentRows(Run(lo, hi), c) = Run(Later(lo, hi, c), hi)
<1> DEFINE r == Run(lo, hi)
<1> DEFINE n == hi - lo
<1> DEFINE g == [i \in 0..n |-> Run(Later(lo, lo + i, c), lo + i)]
<1>1. n \in Nat /\ Len(r) = n /\ \A i \in 1..n : r[i] = lo + i
  BY RunIsSeq
<1>2. Retained(r, c, n, g)
  <2>1. ASSUME NEW i \in 0..n
        PROVE  g[i] = IF i = 0 THEN <<>>
                      ELSE IF r[i] > c THEN Append(g[i - 1], r[i]) ELSE g[i - 1]
    <3>1. CASE i = 0
      <4>1. Later(lo, lo + 0, c) = lo
        BY DEF Later
      <4>2. g[i] = Run(Later(lo, lo + 0, c), lo + 0)
        BY <3>1
      <4> QED
        BY <3>1, <4>1, <4>2, EmptyRun
    <3>2. CASE i # 0
      <4>1. i \in 1..n /\ i - 1 \in 0..n /\ i - 1 \in Nat
        BY <1>1, <3>2
      <4>2. r[i] = lo + i /\ lo + (i - 1) + 1 = lo + i
        BY <1>1, <4>1
      <4>3. /\ g[i] = Run(Later(lo, lo + i, c), lo + i)
            /\ g[i - 1] = Run(Later(lo, lo + (i - 1), c), lo + (i - 1))
        BY <4>1
      <4> HIDE DEF r, n, g
      <4>4. Run(Later(lo, lo + (i - 1) + 1, c), lo + (i - 1) + 1)
               = IF lo + (i - 1) + 1 > c
                 THEN Append(Run(Later(lo, lo + (i - 1), c), lo + (i - 1)), lo + (i - 1) + 1)
                 ELSE Run(Later(lo, lo + (i - 1), c), lo + (i - 1))
        BY <4>1, RetainedTurn
      <4> QED
        BY <3>2, <4>2, <4>3, <4>4
    <3> QED
      BY <3>1, <3>2
  <2>2. g = [i \in 0..n |-> IF i = 0 THEN <<>>
                            ELSE IF r[i] > c THEN Append(g[i - 1], r[i]) ELSE g[i - 1]]
    BY <2>1
  <2> QED
    BY <2>2 DEF Retained
<1> HIDE DEF r, g
<1>3. PICK f : Retained(r, c, Len(r), f) /\ RecentRows(r, c) = f[Len(r)]
  <2>1. \E f : Retained(r, c, Len(r), f)
    BY <1>1, <1>2
  <2> QED
    BY <2>1, Zenon DEF Retained, RecentRows
<1> DEFINE P == {k \in Nat : k <= n => f[k] = g[k]}
<1>4. ASSUME NEW k \in 0..n
      PROVE  /\ f[k] = IF k = 0 THEN <<>>
                       ELSE IF r[k] > c THEN Append(f[k - 1], r[k]) ELSE f[k - 1]
             /\ g[k] = IF k = 0 THEN <<>>
                       ELSE IF r[k] > c THEN Append(g[k - 1], r[k]) ELSE g[k - 1]
  <2>1. Retained(r, c, n, f) /\ Retained(r, c, n, g)
    BY <1>1, <1>2, <1>3
  <2> HIDE DEF n
  <2>2. f[k] = IF k = 0 THEN <<>>
               ELSE IF r[k] > c THEN Append(f[k - 1], r[k]) ELSE f[k - 1]
    BY <2>1 DEF Retained
  <2>3. g[k] = IF k = 0 THEN <<>>
               ELSE IF r[k] > c THEN Append(g[k - 1], r[k]) ELSE g[k - 1]
    BY <2>1 DEF Retained
  <2> QED
    BY <2>2, <2>3
<1>5. 0 \in P
  BY <1>1, <1>4
<1>6. ASSUME NEW k \in Nat, k \in P PROVE k + 1 \in P
  <2> SUFFICES ASSUME k + 1 <= n PROVE f[k + 1] = g[k + 1]
    OBVIOUS
  <2>1. k + 1 \in 0..n /\ k + 1 # 0 /\ (k + 1) - 1 = k /\ f[k] = g[k]
    BY <1>1, <1>6
  <2> QED
    BY <1>4, <2>1
<1> HIDE DEF P
<1>7. n \in P
  BY <1>1, <1>5, <1>6, InductionOverNat
<1>8. f[n] = g[n]
  BY <1>1, <1>7 DEF P
<1>9. g[n] = Run(Later(lo, lo + n, c), lo + n) /\ lo + n = hi
  BY <1>1 DEF g
<1> QED
  BY <1>1, <1>3, <1>8, <1>9 DEF r

\* A sequence of distinct lines in the order written.
Sorted(rows) ==
    /\ rows \in Seq(Nat)
    /\ \A i, j \in 1..Len(rows) : i < j => rows[i] < rows[j]

\* All lines of a sequence were written, and are at most line top.
UpTo(rows, top) == \A i \in 1..Len(rows) : 1 <= rows[i] /\ rows[i] <= top

\* A later line continues a sorted sequence.
LEMMA AppendSorted ==
  ASSUME NEW rows, Sorted(rows), NEW top \in Nat, UpTo(rows, top), NEW l \in Nat, top < l
  PROVE  Sorted(Append(rows, l)) /\ UpTo(Append(rows, l), l)
<1> DEFINE s == Append(rows, l)
<1>1. rows \in Seq(Nat) /\ Len(rows) \in Nat
  BY DEF Sorted
<1>2. /\ s \in Seq(Nat) /\ Len(s) = Len(rows) + 1 /\ s[Len(rows) + 1] = l
      /\ \A i \in 1..Len(rows) : s[i] = rows[i]
  BY <1>1
<1> HIDE DEF s
<1>3. \A i \in 1..Len(s) : i \in 1..Len(rows) \/ i = Len(rows) + 1
  BY <1>1, <1>2
<1>4. \A i \in 1..Len(rows) : rows[i] \in Nat /\ rows[i] <= top /\ 1 <= rows[i]
  BY <1>1 DEF UpTo
<1>5. Sorted(s)
  <2>1. ASSUME NEW i \in 1..Len(s), NEW j \in 1..Len(s), i < j PROVE s[i] < s[j]
    <3>1. i \in 1..Len(rows)
      BY <1>1, <1>2, <2>1
    <3>2. CASE j \in 1..Len(rows)
      BY <1>2, <2>1, <3>1, <3>2 DEF Sorted
    <3>3. CASE j = Len(rows) + 1
      BY <1>2, <1>4, <3>1, <3>3
    <3> QED
      BY <1>3, <3>2, <3>3
  <2> QED
    BY <1>2, <2>1 DEF Sorted
<1>6. UpTo(s, l)
  <2>1. ASSUME NEW i \in 1..Len(s) PROVE 1 <= s[i] /\ s[i] <= l
    <3>1. CASE i \in 1..Len(rows)
      BY <1>2, <1>4, <3>1
    <3>2. CASE i = Len(rows) + 1
      BY <1>2, <3>2
    <3> QED
      BY <1>3, <3>1, <3>2
  <2> QED
    BY <2>1 DEF UpTo
<1> QED
  BY <1>5, <1>6 DEF s

\* Lines read after the others continue them.
LEMMA JoinSorted ==
  ASSUME NEW rows, Sorted(rows), NEW mid \in Nat, UpTo(rows, mid), NEW hi \in Nat, mid <= hi
  PROVE  Sorted(rows \o Run(mid, hi)) /\ UpTo(rows \o Run(mid, hi), hi)
<1> DEFINE t == Run(mid, hi)
<1> DEFINE s == rows \o t
<1>1. /\ rows \in Seq(Nat) /\ Len(rows) \in Nat
      /\ t \in Seq(Nat) /\ Len(t) = hi - mid /\ Len(t) \in Nat
      /\ \A i \in 1..(hi - mid) : t[i] = mid + i
  <2>1. rows \in Seq(Nat)
    BY DEF Sorted
  <2>2. /\ t \in Seq(Nat) /\ Len(t) = hi - mid
        /\ \A i \in 1..(hi - mid) : t[i] = mid + i
    BY RunIsSeq
  <2> HIDE DEF t
  <2> QED
    BY <2>1, <2>2
<1> HIDE DEF t
<1>2. /\ s \in Seq(Nat) /\ Len(s) = Len(rows) + Len(t)
      /\ \A i \in 1..(Len(rows) + Len(t)) : s[i] = IF i <= Len(rows) THEN rows[i] ELSE t[i - Len(rows)]
  BY <1>1, ConcatProperties, Zenon
<1> HIDE DEF s
<1>3. \A i \in 1..Len(rows) : rows[i] \in Nat /\ rows[i] <= mid /\ 1 <= rows[i]
  BY <1>1 DEF UpTo
<1>4. ASSUME NEW i \in 1..Len(s)
      PROVE  \/ i \in 1..Len(rows) /\ s[i] = rows[i]
             \/ i > Len(rows) /\ i - Len(rows) \in 1..(hi - mid) /\ s[i] = mid + (i - Len(rows))
  <2>1. i \in 1..(Len(rows) + Len(t))
    BY <1>2
  <2>2. CASE i <= Len(rows)
    BY <1>1, <1>2, <2>1, <2>2
  <2>3. CASE ~(i <= Len(rows))
    <3>1. i - Len(rows) \in 1..(hi - mid) /\ i > Len(rows)
      BY <1>1, <2>1, <2>3
    <3>2. s[i] = t[i - Len(rows)]
      BY <1>2, <2>1, <2>3
    <3> QED
      BY <1>1, <3>1, <3>2
  <2> QED
    BY <2>2, <2>3
<1>5. Sorted(s)
  <2>1. ASSUME NEW i \in 1..Len(s), NEW j \in 1..Len(s), i < j PROVE s[i] < s[j]
    <3>1. CASE i \in 1..Len(rows) /\ s[i] = rows[i] /\ j \in 1..Len(rows) /\ s[j] = rows[j]
      BY <2>1, <3>1 DEF Sorted
    <3>2. CASE i \in 1..Len(rows) /\ s[i] = rows[i]
               /\ j > Len(rows) /\ j - Len(rows) \in 1..(hi - mid) /\ s[j] = mid + (j - Len(rows))
      <4>1. rows[i] \in Nat /\ rows[i] <= mid /\ s[i] = rows[i]
        BY <1>3, <3>2
      <4>2. Len(rows) \in Nat /\ s[j] = mid + (j - Len(rows)) /\ j > Len(rows)
        BY <1>1, <3>2
      <4> QED
        BY <4>1, <4>2
    <3>3. CASE i > Len(rows) /\ i - Len(rows) \in 1..(hi - mid) /\ s[i] = mid + (i - Len(rows))
      <4>1. j > Len(rows) /\ s[j] = mid + (j - Len(rows))
        BY <1>1, <1>4, <2>1, <3>3
      <4> QED
        BY <1>1, <2>1, <3>3, <4>1
    <3> QED
      BY <1>4, <3>1, <3>2, <3>3
  <2> QED
    BY <1>2, <2>1 DEF Sorted
<1>6. UpTo(s, hi)
  <2>1. ASSUME NEW i \in 1..Len(s) PROVE 1 <= s[i] /\ s[i] <= hi
    <3>1. CASE i \in 1..Len(rows) /\ s[i] = rows[i]
      BY <1>3, <3>1
    <3>2. CASE i - Len(rows) \in 1..(hi - mid) /\ s[i] = mid + (i - Len(rows))
      BY <3>2
    <3> QED
      BY <1>4, <3>1, <3>2
  <2> QED
    BY <2>1 DEF UpTo
<1> QED
  BY <1>5, <1>6 DEF s, t

\* The loop of recent can be taken turn by turn over any rows.
LEMMA RetainedExists ==
  ASSUME NEW rows, NEW c, NEW n \in Nat
  PROVE  \E f : Retained(rows, c, n, f)
<1> DEFINE P == {k \in Nat : \E f : Retained(rows, c, k, f)}
<1>1. 0 \in P
  <2> DEFINE f == [i \in 0..0 |-> <<>>]
  <2>1. f = [i \in 0..0 |-> IF i = 0 THEN <<>>
                            ELSE IF rows[i] > c THEN Append(f[i - 1], rows[i]) ELSE f[i - 1]]
    OBVIOUS
  <2> HIDE DEF f
  <2>2. Retained(rows, c, 0, f)
    BY <2>1 DEF Retained
  <2> QED
    BY <2>2
<1>2. ASSUME NEW k \in Nat, k \in P PROVE k + 1 \in P
  <2>1. PICK f : Retained(rows, c, k, f)
    BY <1>2
  <2> DEFINE next == IF rows[k + 1] > c THEN Append(f[k], rows[k + 1]) ELSE f[k]
  <2> DEFINE g == [i \in 0..(k + 1) |-> IF i = k + 1 THEN next ELSE f[i]]
  <2>2. ASSUME NEW i \in 0..k
        PROVE  f[i] = IF i = 0 THEN <<>>
                      ELSE IF rows[i] > c THEN Append(f[i - 1], rows[i]) ELSE f[i - 1]
    BY <2>1 DEF Retained
  <2>3. ASSUME NEW i \in 0..(k + 1)
        PROVE  g[i] = IF i = 0 THEN <<>>
                      ELSE IF rows[i] > c THEN Append(g[i - 1], rows[i]) ELSE g[i - 1]
    <3>1. CASE i = k + 1
      <4>1. g[i] = next /\ i # 0 /\ i - 1 = k /\ k \in 0..(k + 1) /\ k # k + 1
        BY <3>1
      <4>2. g[i - 1] = f[k]
        BY <4>1
      <4> QED
        BY <3>1, <4>1, <4>2
    <3>2. CASE i # k + 1
      <4>1. i \in 0..k /\ g[i] = f[i]
        BY <3>2
      <4>2. CASE i = 0
        BY <2>2, <4>1, <4>2
      <4>3. CASE i # 0
        <5>1. i - 1 \in 0..(k + 1) /\ i - 1 # k + 1
          BY <4>1, <4>3
        <5>2. g[i - 1] = f[i - 1]
          BY <5>1
        <5> HIDE DEF g
        <5> QED
          BY <2>2, <4>1, <4>3, <5>2
      <4> QED
        BY <4>2, <4>3
    <3> QED
      BY <3>1, <3>2
  <2>4. g = [i \in 0..(k + 1) |-> IF i = 0 THEN <<>>
                                  ELSE IF rows[i] > c THEN Append(g[i - 1], rows[i]) ELSE g[i - 1]]
    BY <2>3
  <2> HIDE DEF g
  <2>5. Retained(rows, c, k + 1, g)
    BY <2>4 DEF Retained
  <2> QED
    BY <2>5
<1> HIDE DEF P
<1>3. n \in P
  BY <1>1, <1>2, InductionOverNat
<1> QED
  BY <1>3 DEF P

\* The loop of recent keeps the order of the rows and adds none.
LEMMA RecentSorted ==
  ASSUME NEW rows, Sorted(rows), NEW top \in Nat, UpTo(rows, top), NEW c \in Nat
  PROVE  Sorted(RecentRows(rows, c)) /\ UpTo(RecentRows(rows, c), top)
<1> DEFINE n == Len(rows)
<1>1. n \in Nat /\ rows \in Seq(Nat) /\ \A i \in 1..n : rows[i] \in Nat /\ 1 <= rows[i] /\ rows[i] <= top
  BY DEF Sorted, UpTo
<1>2. PICK f : Retained(rows, c, n, f) /\ RecentRows(rows, c) = f[n]
  <2>1. \E f : Retained(rows, c, n, f)
    BY <1>1, RetainedExists
  <2> QED
    BY <2>1, Zenon DEF Retained, RecentRows
<1> HIDE DEF n
\* The highest line among the first k rows.
<1> DEFINE last(k) == IF k = 0 THEN 0 ELSE rows[k]
<1> DEFINE P == {k \in Nat : k <= n => Sorted(f[k]) /\ UpTo(f[k], last(k))}
<1>3. ASSUME NEW k \in 0..n
      PROVE  f[k] = IF k = 0 THEN <<>>
                    ELSE IF rows[k] > c THEN Append(f[k - 1], rows[k]) ELSE f[k - 1]
  BY <1>2 DEF Retained
<1>4. 0 \in P
  <2>1. f[0] = <<>>
    BY <1>1, <1>3
  <2>2. Sorted(<<>>) /\ UpTo(<<>>, 0)
    BY DEF Sorted, UpTo
  <2> QED
    BY <2>1, <2>2
<1>5. ASSUME NEW k \in Nat, k \in P PROVE k + 1 \in P
  <2> SUFFICES ASSUME k + 1 <= n PROVE Sorted(f[k + 1]) /\ UpTo(f[k + 1], rows[k + 1])
    BY <1>5
  <2>1. k + 1 \in 0..n /\ k + 1 # 0 /\ (k + 1) - 1 = k /\ k <= n /\ k + 1 \in 1..n
    BY <1>1
  <2>2. Sorted(f[k]) /\ UpTo(f[k], last(k))
    BY <1>5, <2>1
  <2>3. /\ last(k) \in Nat /\ rows[k + 1] \in Nat /\ last(k) < rows[k + 1]
    <3>1. CASE k = 0
      BY <1>1, <2>1, <3>1
    <3>2. CASE k # 0
      <4>1. k \in 1..n /\ k < k + 1
        BY <2>1, <3>2
      <4> QED
        BY <1>1, <2>1, <3>2, <4>1 DEF Sorted, n
    <3> QED
      BY <3>1, <3>2
  <2> HIDE DEF last
  <2>4. f[k + 1] = IF rows[k + 1] > c THEN Append(f[k], rows[k + 1]) ELSE f[k]
    BY <1>3, <2>1
  <2>5. CASE rows[k + 1] > c
    BY <2>2, <2>3, <2>4, <2>5, AppendSorted
  <2>6. CASE ~(rows[k + 1] > c)
    <3>1. f[k + 1] = f[k]
      BY <2>4, <2>6
    <3>2. UpTo(f[k], rows[k + 1])
      <4>1. ASSUME NEW i \in 1..Len(f[k]) PROVE 1 <= f[k][i] /\ f[k][i] <= rows[k + 1]
        <5>1. f[k][i] \in Nat /\ 1 <= f[k][i] /\ f[k][i] <= last(k)
          BY <2>2 DEF Sorted, UpTo
        <5> QED
          BY <2>3, <5>1
      <4> QED
        BY <4>1 DEF UpTo
    <3> QED
      BY <2>2, <3>1, <3>2
  <2> QED
    BY <2>5, <2>6
<1> HIDE DEF P
<1>6. n \in P
  BY <1>1, <1>4, <1>5, InductionOverNat
<1>7. Sorted(f[n]) /\ UpTo(f[n], last(n))
  BY <1>1, <1>6 DEF P
<1>8. last(n) \in Nat /\ last(n) <= top
  <2>1. CASE n = 0
    BY <2>1
  <2>2. CASE n # 0
    BY <1>1, <2>2
  <2> QED
    BY <2>1, <2>2
<1> HIDE DEF last
<1>9. UpTo(f[n], top)
  <2>1. ASSUME NEW i \in 1..Len(f[n]) PROVE 1 <= f[n][i] /\ f[n][i] <= top
    <3>1. f[n][i] \in Nat /\ 1 <= f[n][i] /\ f[n][i] <= last(n)
      BY <1>7 DEF Sorted, UpTo
    <3> QED
      BY <1>8, <3>1
  <2> QED
    BY <2>1 DEF UpTo
<1> QED
  BY <1>2, <1>7, <1>9

\* Where the prefix ends of the file of which the lines after p up to q were read.
PrefixEnd(p, q) == IF q - p < PrefixSize THEN q ELSE p + PrefixSize

\* The reader has the lines after a up to q of a file that begins after p; once
\* it has checked the prefix, that is the file there is, which begins after b.
Knows(b, p, q, a) ==
    /\ reader.offset = q - p /\ reader.rows = Run(a, q)
    /\ (a = p \/ a <= reader.cut)
    /\ reading.phase \in {"idle", "check"} => reader.prefix = Run(p, PrefixEnd(p, q))
    /\ reading.phase \in {"read", "ended"} => p = b
    /\ reading.phase = "ended" => reading.due <= q

\* The log is the lines since it was cut last, after b.
Follows(b) ==
    /\ log = Run(b, written)
    /\ Sorted(reader.rows)
    /\ UpTo(reader.rows, b + reader.offset) /\ UpTo(reader.rows, written)
    /\ ~reader.torn => \E q \in 0..written : \E p \in 0..q : \E a \in p..q : Knows(b, p, q, a)

ReaderTypes ==
    /\ written \in Nat /\ cutoff \in Nat /\ cutoff <= written
    /\ reader.offset \in Nat /\ reader.cut \in Nat
    /\ reading.phase \in {"idle", "check", "read", "ended"}
    /\ reading.due \in Nat /\ reading.due <= written
    /\ reader = [offset |-> reader.offset, prefix |-> reader.prefix, rows |-> reader.rows,
                 cut |-> reader.cut, torn |-> reader.torn]
    /\ reading = [phase |-> reading.phase, due |-> reading.due]

\* What the reader has is sorted, and of the file it takes it for unless that
\* was cut under a reading.
ReaderInv == ReaderTypes /\ \E b \in 0..written : Follows(b)

\* A reader that begins anew follows any file.
LEMMA ResetFollows ==
  ASSUME written' \in Nat, NEW b \in 0..written', log' = Run(b, written'), NEW c \in Nat,
         reader' = Reset(c), reading'.phase = "ended" => reading'.due = 0
  PROVE  Follows(b)'
<1> USE AccessLogAssumption
<1>1. /\ reader'.offset = 0 /\ reader'.rows = <<>> /\ reader'.prefix = <<>> /\ reader'.torn = FALSE
  BY DEF Reset
<1>2. b \in Nat /\ Run(b, b) = <<>> /\ PrefixEnd(b, b) = b /\ b - b = 0
      /\ b \in 0..written' /\ b \in 0..b /\ b \in b..b
  BY EmptyRun DEF PrefixEnd
<1>3. Sorted(<<>>) /\ \A top \in Nat : UpTo(<<>>, top)
  BY DEF Sorted, UpTo
<1>4. Knows(b, b, b, b)'
  BY <1>1, <1>2 DEF Knows
<1>5. b + reader'.offset \in Nat
  BY <1>1, <1>2
<1> QED
  BY <1>1, <1>2, <1>3, <1>4, <1>5 DEF Follows

\* ReadAt reads the beginning of a file that is long enough.
LEMMA BeginReads ==
  ASSUME written \in Nat, NEW b \in 0..written, log = Run(b, written), NEW d \in b..written
  PROVE  FirstLines(d - b) = Run(b, d)
<1>1. b \in Nat /\ d \in Nat /\ b <= written /\ b <= d /\ d <= written
  OBVIOUS
<1>2. Len(log) = written - b /\ \A i \in 1..(written - b) : log[i] = b + i
  BY <1>1, RunIsSeq
<1>3. ASSUME NEW i \in 1..(d - b) PROVE i <= Len(log) /\ log[i] = b + i
  BY <1>1, <1>2
<1> QED
  BY <1>3 DEF FirstLines, Run

\* A file that begins with the prefix is the one that was read.
LEMMA SameFile ==
  ASSUME written \in Nat, NEW b \in 0..written, log = Run(b, written),
         NEW q \in 0..written, NEW p \in 0..q, p < q,
         reader.prefix = Run(p, PrefixEnd(p, q)), ~LogChanged
  PROVE  b = p
<1> USE AccessLogAssumption
<1> DEFINE e == PrefixEnd(p, q)
<1>1. /\ e \in Nat /\ p < e /\ p <= e /\ e <= q /\ p \in Nat /\ q \in Nat
      /\ b \in Nat /\ b <= written
  BY DEF PrefixEnd
<1> HIDE DEF e
<1>2. Len(Run(p, e)) = e - p /\ \A i \in 1..(e - p) : Run(p, e)[i] = p + i
  BY <1>1, RunIsSeq
<1>3. 1 \in 1..(e - p) /\ Run(p, e)[1] = p + 1
  BY <1>1, <1>2
<1>4. FirstLines(e - p) = Run(p, e)
  BY <1>2 DEF LogChanged, e
<1>5. FirstLines(e - p)[1] = IF 1 <= Len(log) THEN log[1] ELSE 0
  BY <1>3 DEF FirstLines
<1>6. Len(log) = written - b /\ \A i \in 1..(written - b) : log[i] = b + i
  BY <1>1, RunIsSeq
<1>7. 1 <= Len(log) => log[1] = b + 1
  BY <1>1, <1>6
<1> QED
  BY <1>1, <1>3, <1>4, <1>5, <1>7

\* What is retained of the lines read is what is retained of the file up to there.
LEMMA RecentOfKnown ==
  ASSUME NEW p \in Nat, NEW q \in Nat, NEW a \in p..q, NEW c \in Nat, p <= q, a = p \/ a <= c
  PROVE  /\ RecentRows(Run(a, q), c) = Run(Later(p, q, c), q)
         /\ RecentRows(Run(p, q), c) = Run(Later(p, q, c), q)
         /\ Later(p, q, c) \in p..q
         /\ Later(p, q, c) = p \/ Later(p, q, c) <= c
<1>1. a \in Nat /\ a <= q /\ Later(a, q, c) = Later(p, q, c)
  BY DEF Later
<1>2. RecentRows(Run(a, q), c) = Run(Later(a, q, c), q)
  BY <1>1, RecentOfRun
<1>3. RecentRows(Run(p, q), c) = Run(Later(p, q, c), q)
  BY RecentOfRun
<1>4. /\ Later(p, q, c) \in p..q
      /\ Later(p, q, c) = p \/ Later(p, q, c) <= c
  BY DEF Later
<1> QED
  BY <1>1, <1>2, <1>3, <1>4

\* Opening the log keeps what the reader knows, or begins anew.
LEMMA OpenFollows ==
  ASSUME ReaderTypes, OpenLog, NEW b \in 0..written, Follows(b)
  PROVE  ReaderTypes' /\ Follows(b)'
<1>1. /\ reading.phase = "idle" /\ reading' = [phase |-> "check", due |-> written]
      /\ UNCHANGED <<log, written, cutoff>>
  BY DEF OpenLog
<1>2. PICK cut \in 0..cutoff :
          reader' = IF cut < reader.cut \/ Len(log) < reader.offset THEN Reset(cut)
                    ELSE [reader EXCEPT !.cut = cut]
  BY DEF OpenLog
<1>3. written \in Nat /\ cut \in Nat /\ log' = Run(b, written') /\ b \in 0..written'
      /\ reading'.phase = "check" /\ reading'.due = written
  BY <1>1 DEF ReaderTypes, Follows
<1>4. CASE reader' = Reset(cut)
  <2>1. Follows(b)'
    BY <1>1, <1>3, <1>4, ResetFollows
  <2>2. ReaderTypes'
    BY <1>1, <1>3, <1>4 DEF ReaderTypes, Reset
  <2> QED
    BY <2>1, <2>2
<1>5. CASE reader' = [reader EXCEPT !.cut = cut] /\ ~(cut < reader.cut)
  <2>1. /\ reader' = [offset |-> reader.offset, prefix |-> reader.prefix, rows |-> reader.rows,
                      cut |-> cut, torn |-> reader.torn]
    BY <1>5 DEF ReaderTypes
  <2>2. /\ reader'.offset = reader.offset /\ reader'.prefix = reader.prefix
        /\ reader'.rows = reader.rows /\ reader'.cut = cut /\ reader'.torn = reader.torn
        /\ reader.cut \in Nat /\ reader.cut <= cut
    BY <1>3, <1>5, <2>1 DEF ReaderTypes
  <2>3. ReaderTypes'
    BY <1>1, <1>3, <2>1, <2>2 DEF ReaderTypes
  <2>4. ASSUME ~reader.torn
        PROVE  \E q \in 0..written : \E p \in 0..q : \E a \in p..q : Knows(b, p, q, a)'
    <3>1. PICK q \in 0..written : \E p \in 0..q : \E a \in p..q : Knows(b, p, q, a)
      BY <2>4 DEF Follows
    <3>2. PICK p, a : p \in 0..q /\ a \in p..q /\ Knows(b, p, q, a)
      BY <3>1
    <3>3. a = p \/ a <= cut
      BY <2>2, <3>2 DEF Knows
    <3>4. Knows(b, p, q, a)'
      BY <1>1, <1>3, <2>2, <3>2, <3>3 DEF Knows
    <3> QED
      BY <3>2, <3>4
  <2> QED
    BY <1>1, <1>3, <2>2, <2>3, <2>4 DEF Follows
<1> QED
  BY <1>2, <1>4, <1>5

\* Checking the prefix leaves a reader that knows the file there is.
LEMMA CheckFollows ==
  ASSUME ReaderTypes, CheckPrefix, NEW b \in 0..written, Follows(b)
  PROVE  ReaderTypes' /\ Follows(b)'
<1>1. /\ reading.phase = "check" /\ reading' = [reading EXCEPT !.phase = "read"]
      /\ UNCHANGED <<log, written, cutoff>>
      /\ reader' = IF LogChanged THEN Reset(reader.cut) ELSE reader
  BY DEF CheckPrefix
<1>2. /\ written \in Nat /\ log = Run(b, written) /\ b \in 0..written' /\ reader.cut \in Nat
      /\ reading' = [phase |-> "read", due |-> reading.due]
      /\ reading'.phase = "read" /\ reading'.due = reading.due
  BY <1>1 DEF ReaderTypes, Follows
<1>3. CASE LogChanged
  <2>1. Follows(b)'
    BY <1>1, <1>2, <1>3, ResetFollows
  <2>2. ReaderTypes'
    BY <1>1, <1>2, <1>3 DEF ReaderTypes, Reset
  <2> QED
    BY <2>1, <2>2
<1>4. CASE ~LogChanged
  <2>1. reader' = reader
    BY <1>1, <1>4
  <2>2. ReaderTypes'
    BY <1>1, <1>2, <2>1 DEF ReaderTypes
  <2>3. ASSUME ~reader.torn
        PROVE  \E q \in 0..written : \E p \in 0..q : \E a \in p..q : Knows(b, p, q, a)'
    <3>1. PICK q \in 0..written : \E p \in 0..q : \E a \in p..q : Knows(b, p, q, a)
      BY <2>3 DEF Follows
    <3>2. PICK p, a : p \in 0..q /\ a \in p..q /\ Knows(b, p, q, a)
      BY <3>1
    <3>3. /\ reader.offset = q - p /\ reader.rows = Run(a, q) /\ (a = p \/ a <= reader.cut)
          /\ reader.prefix = Run(p, PrefixEnd(p, q))
      BY <1>1, <3>2 DEF Knows
    <3>4. CASE p < q
      <4>1. b = p
        BY <1>2, <1>4, <3>2, <3>3, <3>4, SameFile
      <4>2. Knows(b, p, q, a)'
        BY <1>2, <2>1, <3>2, <4>1 DEF Knows
      <4> QED
        BY <3>2, <4>2
    <3>5. CASE p = q
      <4>1. a = q /\ q \in Nat /\ b \in Nat
        BY <3>2, <3>5
      <4>2. reader.offset = 0 /\ reader.rows = <<>>
        BY <3>3, <3>5, <4>1, EmptyRun
      <4>3. Run(b, b) = <<>> /\ b - b = 0 /\ b \in 0..written /\ b \in 0..b /\ b \in b..b
        BY <4>1, EmptyRun
      <4>4. Knows(b, b, b, b)'
        BY <1>2, <2>1, <4>2, <4>3 DEF Knows
      <4> QED
        BY <4>3, <4>4
    <3> QED
      BY <3>2, <3>4, <3>5
  <2> QED
    BY <1>1, <1>2, <2>1, <2>2, <2>3 DEF Follows
<1> QED
  BY <1>3, <1>4

\* A chunk adds the lines that follow those the reader has.
LEMMA ChunkFollows ==
  ASSUME ReaderTypes, ReadChunk, NEW b \in 0..written, Follows(b)
  PROVE  ReaderTypes' /\ Follows(b)'
<1>1. reading.phase = "read" /\ UNCHANGED <<log, written, reading, cutoff>>
  BY DEF ReadChunk
<1>2. PICK end \in (reader.offset + 1)..Len(log) :
          reader' = [reader EXCEPT !.offset = end,
                                   !.rows = @ \o SubSeq(log, reader.offset + 1, end)]
  BY DEF ReadChunk
<1> DEFINE m == b + reader.offset
<1> DEFINE n == b + end
<1>3. /\ written \in Nat /\ log = Run(b, written) /\ b \in Nat /\ b <= written
      /\ reader.offset \in Nat /\ reader.cut \in Nat
  BY DEF ReaderTypes, Follows
<1>4. Len(log) = written - b
  BY <1>3, RunIsSeq
<1>5. /\ end \in Nat /\ m \in Nat /\ n \in Nat /\ b <= m /\ m <= n /\ n <= written
      /\ m - b = reader.offset /\ n - b = end
  BY <1>3, <1>4
<1> HIDE DEF m, n
<1>6. SubSeq(log, reader.offset + 1, end) = Run(m, n)
  <2>1. PICK w \in Nat : w = written
    BY <1>3
  <2>2. PICK m1 \in Nat : m1 = m
    BY <1>5
  <2>3. PICK n1 \in Nat : n1 = n
    BY <1>5
  <2>4. b \in Nat /\ b <= m1 /\ m1 <= n1 /\ n1 <= w
    BY <1>3, <1>5, <2>1, <2>2, <2>3
  <2>5. SubSeq(Run(b, w), (m1 - b) + 1, n1 - b) = Run(m1, n1)
    BY <2>4, PartOfRun
  <2>6. (m1 - b) + 1 = reader.offset + 1 /\ n1 - b = end
    BY <1>5, <2>2, <2>3
  <2> QED
    BY <1>3, <2>1, <2>2, <2>3, <2>5, <2>6
<1>7. /\ reader' = [offset |-> end, prefix |-> reader.prefix, rows |-> reader.rows \o Run(m, n),
                    cut |-> reader.cut, torn |-> reader.torn]
  <2>1. reader' = [reader EXCEPT !.offset = end, !.rows = reader.rows \o Run(m, n)]
    BY <1>2, <1>6
  <2> QED
    BY <2>1 DEF ReaderTypes
<1>8. /\ reader'.offset = end /\ reader'.rows = reader.rows \o Run(m, n)
      /\ reader'.cut = reader.cut /\ reader'.torn = reader.torn /\ reader'.prefix = reader.prefix
  BY <1>7
<1>9. ReaderTypes'
  BY <1>1, <1>3, <1>5, <1>7, <1>8 DEF ReaderTypes
<1>10. Sorted(reader'.rows) /\ UpTo(reader'.rows, n)
  <2>1. Sorted(reader.rows) /\ UpTo(reader.rows, m)
    BY DEF Follows, m
  <2> QED
    BY <1>5, <1>8, <2>1, JoinSorted
<1>11. UpTo(reader'.rows, written)
  <2>1. ASSUME NEW i \in 1..Len(reader'.rows)
        PROVE  1 <= reader'.rows[i] /\ reader'.rows[i] <= written
    <3>1. reader'.rows[i] \in Nat /\ 1 <= reader'.rows[i] /\ reader'.rows[i] <= n
      BY <1>10 DEF Sorted, UpTo
    <3> QED
      BY <1>3, <1>5, <3>1
  <2> QED
    BY <2>1 DEF UpTo
<1>12. ASSUME ~reader.torn
       PROVE  \E q \in 0..written : \E p \in 0..q : \E a \in p..q : Knows(b, p, q, a)'
  <2>1. PICK q \in 0..written : \E p \in 0..q : \E a \in p..q : Knows(b, p, q, a)
    BY <1>12 DEF Follows
  <2>2. PICK p, a : p \in 0..q /\ a \in p..q /\ Knows(b, p, q, a)
    BY <2>1
  <2>3. /\ reader.offset = q - b /\ reader.rows = Run(a, q) /\ (a = b \/ a <= reader.cut)
        /\ p = b
    BY <1>1, <2>2 DEF Knows
  <2>4. q = m /\ a \in Nat /\ a <= m /\ b <= a
    BY <1>3, <1>5, <2>2, <2>3 DEF m
  <2>5. Run(a, q) \o Run(m, n) = Run(a, n)
    BY <1>5, <2>4, RunsJoin
  <2>6. n \in 0..written /\ b \in 0..n /\ a \in b..n
    BY <1>3, <1>5, <2>4
  <2>7. Knows(b, b, n, a)'
    BY <1>1, <1>5, <1>8, <2>3, <2>5 DEF Knows
  <2> QED
    BY <2>6, <2>7
<1> QED
  BY <1>1, <1>3, <1>8, <1>9, <1>10, <1>11, <1>12 DEF Follows, n

\* At the end of the file the reader has all that was due; after a failed call
\* nothing is.
LEMMA EndFollows ==
  ASSUME ReaderTypes, ReadEnds \/ ReadBreaks, NEW b \in 0..written, Follows(b)
  PROVE  ReaderTypes' /\ Follows(b)'
<1>1. /\ reading.phase = "read" /\ UNCHANGED <<log, written, reader, cutoff>>
      /\ \/ reading' = [reading EXCEPT !.phase = "ended"] /\ Len(log) <= reader.offset
         \/ reading' = [phase |-> "ended", due |-> 0]
  BY DEF ReadEnds, ReadBreaks
<1>2. /\ reading' = [phase |-> "ended", due |-> reading'.due] /\ reading'.phase = "ended"
      /\ \/ reading'.due = reading.due /\ Len(log) <= reader.offset
         \/ reading'.due = 0
  BY <1>1 DEF ReaderTypes
<1>3. ReaderTypes'
  BY <1>1, <1>2 DEF ReaderTypes
<1>4. /\ written \in Nat /\ log = Run(b, written) /\ b \in Nat /\ b <= written
  BY DEF ReaderTypes, Follows
<1>5. Len(log) = written - b
  BY <1>4, RunIsSeq
<1>6. ASSUME ~reader.torn
      PROVE  \E q \in 0..written : \E p \in 0..q : \E a \in p..q : Knows(b, p, q, a)'
  <2>1. PICK q \in 0..written : \E p \in 0..q : \E a \in p..q : Knows(b, p, q, a)
    BY <1>6 DEF Follows
  <2>2. PICK p, a : p \in 0..q /\ a \in p..q /\ Knows(b, p, q, a)
    BY <2>1
  <2>3. reader.offset = q - p /\ p = b
    BY <1>1, <2>2 DEF Knows
  <2>4. reading'.due <= q
    <3>1. CASE reading'.due = 0
      BY <3>1
    <3>2. CASE reading'.due = reading.due /\ Len(log) <= reader.offset
      <4>1. reading.due \in Nat /\ reading.due <= written
        BY DEF ReaderTypes
      <4> QED
        BY <1>4, <1>5, <2>3, <3>2, <4>1
    <3> QED
      BY <1>2, <3>1, <3>2
  <2>5. Knows(b, p, q, a)'
    BY <1>1, <1>2, <2>2, <2>3, <2>4 DEF Knows
  <2> QED
    BY <2>2, <2>5
<1> QED
  BY <1>1, <1>3, <1>6 DEF Follows

\* A finished reading leaves the recent lines of what was read, and the
\* beginning of the file there is.
LEMMA FinishFollows ==
  ASSUME ReaderTypes, FinishReading, NEW b \in 0..written, Follows(b)
  PROVE  /\ ReaderTypes' /\ Follows(b)' /\ UpTo(reader'.rows, written)
         /\ ~reader.torn => /\ reader.offset <= Len(log)
                            /\ reader'.rows = RecentRows(SubSeq(log, 1, reader.offset), reader.cut)
                            /\ reading.due <= b + reader.offset
<1> USE AccessLogAssumption
<1> DEFINE size == IF reader.offset < PrefixSize THEN reader.offset ELSE PrefixSize
<1>1. /\ reading.phase = "ended" /\ UNCHANGED <<log, written, cutoff>>
      /\ reader' = [reader EXCEPT !.prefix = FirstLines(size), !.rows = RecentRows(reader.rows, reader.cut)]
      /\ reading' = NoReading
  BY DEF FinishReading
<1>2. /\ written \in Nat /\ log = Run(b, written) /\ b \in Nat /\ b <= written
      /\ reader.offset \in Nat /\ reader.cut \in Nat
  BY DEF ReaderTypes, Follows
<1> HIDE DEF size
<1> DEFINE begin == FirstLines(size)
<1> DEFINE recent == RecentRows(reader.rows, reader.cut)
<1> HIDE DEF begin, recent
<1>3. /\ reader' = [offset |-> reader.offset, prefix |-> begin, rows |-> recent,
                    cut |-> reader.cut, torn |-> reader.torn]
      /\ reading' = [phase |-> "idle", due |-> 0]
  BY <1>1 DEF ReaderTypes, NoReading, begin, recent
<1>4. /\ reader'.offset = reader.offset /\ reader'.prefix = FirstLines(size)
      /\ reader'.rows = RecentRows(reader.rows, reader.cut)
      /\ reader'.cut = reader.cut /\ reader'.torn = reader.torn
      /\ reading'.phase = "idle" /\ reading'.due = 0
  BY <1>3 DEF begin, recent
<1>5. ReaderTypes'
  <2>1. /\ written' \in Nat /\ cutoff' \in Nat /\ cutoff' <= written'
        /\ reader'.offset \in Nat /\ reader'.cut \in Nat
        /\ reading'.phase = "idle" /\ reading'.due \in Nat /\ reading'.due <= written'
    BY <1>1, <1>2, <1>4 DEF ReaderTypes
  <2>2. /\ reader' = [offset |-> reader'.offset, prefix |-> reader'.prefix, rows |-> reader'.rows,
                      cut |-> reader'.cut, torn |-> reader'.torn]
        /\ reading' = [phase |-> reading'.phase, due |-> reading'.due]
    BY <1>3
  <2> QED
    BY <2>1, <2>2 DEF ReaderTypes
<1>6. Sorted(reader'.rows) /\ UpTo(reader'.rows, b + reader.offset) /\ UpTo(reader'.rows, written)
  <2>1. b + reader.offset \in Nat
    BY <1>2
  <2> QED
    BY <1>2, <1>4, <2>1, RecentSorted DEF Follows
<1>7. ASSUME ~reader.torn
      PROVE  /\ \E q \in 0..written : \E p \in 0..q : \E a \in p..q : Knows(b, p, q, a)'
             /\ reader.offset <= Len(log)
             /\ reader'.rows = RecentRows(SubSeq(log, 1, reader.offset), reader.cut)
             /\ reading.due <= b + reader.offset
  <2>1. PICK q \in 0..written : \E p \in 0..q : \E a \in p..q : Knows(b, p, q, a)
    BY <1>7 DEF Follows
  <2>2. PICK p, a : p \in 0..q /\ a \in p..q /\ Knows(b, p, q, a)
    BY <2>1
  <2>3. /\ reader.offset = q - b /\ reader.rows = Run(a, q) /\ (a = b \/ a <= reader.cut)
        /\ p = b /\ reading.due <= q
    BY <1>1, <2>2 DEF Knows
  <2>4. /\ q \in Nat /\ b <= q /\ q <= written /\ a \in b..q /\ q = b + reader.offset
    BY <1>2, <2>2, <2>3
  <2>5. /\ RecentRows(Run(a, q), reader.cut) = Run(Later(b, q, reader.cut), q)
        /\ RecentRows(Run(b, q), reader.cut) = Run(Later(b, q, reader.cut), q)
        /\ Later(b, q, reader.cut) \in b..q
        /\ Later(b, q, reader.cut) = b \/ Later(b, q, reader.cut) <= reader.cut
    <3>1. ASSUME NEW p1 \in Nat, NEW q1 \in Nat, NEW a1 \in p1..q1, NEW c1 \in Nat, p1 <= q1,
                 a1 = p1 \/ a1 <= c1
          PROVE  /\ RecentRows(Run(a1, q1), c1) = Run(Later(p1, q1, c1), q1)
                 /\ RecentRows(Run(p1, q1), c1) = Run(Later(p1, q1, c1), q1)
                 /\ Later(p1, q1, c1) \in p1..q1
                 /\ Later(p1, q1, c1) = p1 \/ Later(p1, q1, c1) <= c1
      BY <3>1, RecentOfKnown
    <3>2. b \in Nat /\ q \in Nat /\ a \in b..q /\ reader.cut \in Nat /\ b <= q
          /\ (a = b \/ a <= reader.cut)
      BY <1>2, <2>3, <2>4
    <3> QED
      BY <3>1, <3>2
  <2>6. SubSeq(log, 1, reader.offset) = Run(b, q)
    <3>1. SubSeq(Run(b, written), 1, q - b) = Run(b, q)
      BY <1>2, <2>4, BeginOfRun
    <3> QED
      BY <1>2, <2>3, <3>1
  <2>7. FirstLines(size) = Run(b, PrefixEnd(b, q))
    <3> DEFINE e == PrefixEnd(b, q)
    <3>1. e \in b..written /\ e - b = size
      BY <1>2, <2>3, <2>4 DEF PrefixEnd, size
    <3> HIDE DEF e
    <3>2. FirstLines(e - b) = Run(b, e)
      BY <1>2, <3>1, BeginReads
    <3> QED
      BY <3>1, <3>2 DEF e
  <2>8. q \in 0..written /\ b \in 0..q
    BY <1>2, <2>4
  <2>9. \E q1 \in 0..written : \E p1 \in 0..q1 : \E a1 \in p1..q1 : Knows(b, p1, q1, a1)'
    BY <1>4, <2>3, <2>5, <2>7, <2>8 DEF Knows
  <2>10. reader.offset <= Len(log)
    <3>1. Len(log) = written - b
      BY <1>2, RunIsSeq
    <3> QED
      BY <1>2, <2>3, <2>4, <3>1
  <2> QED
    BY <1>4, <2>3, <2>4, <2>5, <2>6, <2>9, <2>10
<1> QED
  BY <1>1, <1>2, <1>4, <1>5, <1>6, <1>7 DEF Follows

\* Cutting the log leaves a reader that can tell, or one marked as torn.
LEMMA TruncateFollows ==
  ASSUME ReaderTypes, TruncateLog, NEW b \in 0..written, Follows(b)
  PROVE  ReaderTypes' /\ Follows(written)'
<1> DEFINE cutIn == reading.phase \in {"read", "ended"} /\ reader.offset > 0
<1>1. /\ log' = <<>> /\ UNCHANGED <<written, reading, cutoff>>
      /\ reader' = [reader EXCEPT !.torn = reader.torn \/ cutIn]
  BY DEF TruncateLog
<1>2. /\ written \in Nat /\ b \in Nat /\ reader.offset \in Nat
  BY DEF ReaderTypes
<1>3. /\ reader' = [offset |-> reader.offset, prefix |-> reader.prefix, rows |-> reader.rows,
                    cut |-> reader.cut, torn |-> reader.torn \/ cutIn]
  BY <1>1 DEF ReaderTypes
<1>4. /\ reader'.offset = reader.offset /\ reader'.rows = reader.rows
      /\ reader'.cut = reader.cut /\ reader'.prefix = reader.prefix
      /\ reader'.torn = (reader.torn \/ cutIn)
  BY <1>3
<1>5. ReaderTypes'
  BY <1>1, <1>2, <1>3, <1>4 DEF ReaderTypes
<1>6. log' = Run(written, written) /\ written' = written
  BY <1>1, <1>2, EmptyRun
<1>7. Sorted(reader.rows) /\ UpTo(reader.rows, written)
  BY DEF Follows
<1>8. UpTo(reader.rows, written + reader.offset)
  <2>1. ASSUME NEW i \in 1..Len(reader.rows)
        PROVE  1 <= reader.rows[i] /\ reader.rows[i] <= written + reader.offset
    <3>1. reader.rows[i] \in Nat /\ 1 <= reader.rows[i] /\ reader.rows[i] <= written
      BY <1>7 DEF Sorted, UpTo
    <3> QED
      BY <1>2, <3>1
  <2> QED
    BY <2>1 DEF UpTo
<1>9. ASSUME ~reader'.torn
      PROVE  \E q \in 0..written : \E p \in 0..q : \E a \in p..q : Knows(written, p, q, a)'
  <2>0. ~reader.torn /\ ~cutIn
    BY <1>4, <1>9
  <2>1. PICK q \in 0..written : \E p \in 0..q : \E a \in p..q : Knows(b, p, q, a)
    BY <2>0 DEF Follows
  <2>2. PICK p, a : p \in 0..q /\ a \in p..q /\ Knows(b, p, q, a)
    BY <2>1
  <2>3. CASE reading.phase \in {"idle", "check"}
    <3>1. reading.phase # "read" /\ reading.phase # "ended"
      BY <2>3
    <3>2. Knows(written, p, q, a)'
      BY <1>1, <1>4, <2>2, <3>1 DEF Knows
    <3> QED
      BY <2>2, <3>2
  <2>4. CASE reading.phase \in {"read", "ended"}
    <3>1. reader.offset = 0
      BY <1>2, <2>0, <2>4
    <3>2. q = p /\ a = q /\ q \in Nat
      BY <2>2, <3>1 DEF Knows
    <3>3. reader.rows = <<>>
      BY <2>2, <3>2, EmptyRun DEF Knows
    <3>4. /\ Run(written, written) = <<>> /\ written - written = 0
          /\ written \in 0..written /\ written \in written..written
      BY <1>2, EmptyRun
    <3>5. reading.due <= written /\ reading.phase # "idle" /\ reading.phase # "check"
      BY <2>4 DEF ReaderTypes
    <3>6. Knows(written, written, written, written)'
      BY <1>1, <1>4, <1>6, <3>1, <3>3, <3>4, <3>5 DEF Knows
    <3> QED
      BY <1>6, <3>4, <3>6
  <2> QED
    BY <2>3, <2>4 DEF ReaderTypes
<1> HIDE DEF cutIn
<1> QED
  BY <1>4, <1>5, <1>6, <1>7, <1>8, <1>9 DEF Follows

\* A line logged comes after those the reader has.
LEMMA AppendFollows ==
  ASSUME ReaderTypes, Append1, NEW b \in 0..written, Follows(b)
  PROVE  ReaderTypes' /\ Follows(b)'
<1>1. /\ written' = written + 1 /\ log' = Append(log, written + 1)
      /\ UNCHANGED <<reader, reading, cutoff>>
  BY DEF Append1, readerVars
<1>2. written \in Nat /\ b \in Nat /\ b <= written /\ log = Run(b, written)
  BY DEF ReaderTypes, Follows
<1>3. log' = Run(b, written')
  BY <1>1, <1>2, AppendToRun
<1>4. ReaderTypes'
  BY <1>1, <1>2 DEF ReaderTypes
<1>5. UpTo(reader.rows, written + 1)
  <2>1. ASSUME NEW i \in 1..Len(reader.rows)
        PROVE  1 <= reader.rows[i] /\ reader.rows[i] <= written + 1
    <3>1. reader.rows[i] \in Nat /\ 1 <= reader.rows[i] /\ reader.rows[i] <= written
      BY DEF Follows, Sorted, UpTo
    <3> QED
      BY <1>2, <3>1
  <2> QED
    BY <2>1 DEF UpTo
<1>6. ASSUME ~reader.torn
      PROVE  \E q \in 0..written' : \E p \in 0..q : \E a \in p..q : Knows(b, p, q, a)'
  <2>1. PICK q \in 0..written : \E p \in 0..q : \E a \in p..q : Knows(b, p, q, a)
    BY <1>6 DEF Follows
  <2>2. PICK p, a : p \in 0..q /\ a \in p..q /\ Knows(b, p, q, a)
    BY <2>1
  <2>3. q \in 0..written'
    BY <1>1, <1>2
  <2>4. Knows(b, p, q, a)'
    BY <1>1, <2>2 DEF Knows
  <2> QED
    BY <2>2, <2>3, <2>4
<1> QED
  BY <1>1, <1>3, <1>4, <1>5, <1>6 DEF Follows

\* The inductive invariant behind RowsAreTheFile.
THEOREM ReaderHasLines == LogSpec => []ReaderInv
<1> USE AccessLogAssumption
<1>1. LogInit => ReaderInv
  <2> SUFFICES ASSUME LogInit PROVE ReaderInv
    OBVIOUS
  <2>1. /\ log = Run(0, 0) /\ written = 0 /\ cutoff = 0 /\ reader = Reset(0)
        /\ reading = [phase |-> "idle", due |-> 0]
    BY EmptyRun DEF LogInit, NoReading
  <2>2. ReaderTypes
    BY <2>1 DEF ReaderTypes, Reset
  <2>3. /\ reader.offset = 0 /\ reader.rows = <<>> /\ reader.prefix = <<>> /\ reader.torn = FALSE
        /\ PrefixEnd(0, 0) = 0 /\ Run(0, 0) = <<>> /\ 0 - 0 = 0 /\ 0 \in 0..0
    BY <2>1, EmptyRun DEF Reset, PrefixEnd
  <2>4. Sorted(<<>>) /\ UpTo(<<>>, 0)
    BY DEF Sorted, UpTo
  <2>5. Knows(0, 0, 0, 0)
    BY <2>1, <2>3 DEF Knows
  <2>6. Follows(0)
    BY <2>1, <2>3, <2>4, <2>5 DEF Follows
  <2> QED
    BY <2>1, <2>2, <2>3, <2>6 DEF ReaderInv
<1>2. ReaderInv /\ [LogNext]_logVars => ReaderInv'
  <2> SUFFICES ASSUME ReaderInv, [LogNext]_logVars PROVE ReaderInv'
    OBVIOUS
  <2>0. ReaderTypes /\ written \in Nat
    BY DEF ReaderInv, ReaderTypes
  <2>1. PICK b \in 0..written : Follows(b)
    BY DEF ReaderInv
  <2>2. CASE Append1
    <3>1. ReaderTypes' /\ Follows(b)'
      BY <2>0, <2>1, <2>2, AppendFollows
    <3>2. b \in 0..written'
      BY <2>0, <2>2 DEF Append1
    <3> QED
      BY <3>1, <3>2 DEF ReaderInv
  <2>3. CASE WindowMoves
    <3>1. /\ cutoff' = cutoff + 1 /\ cutoff < written
          /\ UNCHANGED <<log, written, reader, reading>>
      BY <2>3 DEF WindowMoves, readerVars
    <3>2. ReaderTypes'
      BY <2>0, <3>1 DEF ReaderTypes
    <3>3. Follows(b)'
      BY <2>1, <3>1 DEF Follows, Knows
    <3> QED
      BY <3>1, <3>2, <3>3 DEF ReaderInv
  <2>4. CASE TruncateLog
    <3>1. ReaderTypes' /\ Follows(written)' /\ written' = written
      BY <2>0, <2>1, <2>4, TruncateFollows DEF TruncateLog
    <3>2. ASSUME NEW w \in Nat, w = written PROVE Follows(w)'
      BY <3>1, <3>2
    <3> QED
      BY <2>0, <3>1 DEF ReaderInv
  <2>5. CASE OpenLog
    BY <2>0, <2>1, <2>5, OpenFollows DEF ReaderInv, OpenLog
  <2>6. CASE CheckPrefix
    BY <2>0, <2>1, <2>6, CheckFollows DEF ReaderInv, CheckPrefix
  <2>7. CASE ReadChunk
    BY <2>0, <2>1, <2>7, ChunkFollows DEF ReaderInv, ReadChunk
  <2>8. CASE ReadEnds \/ ReadBreaks
    BY <2>0, <2>1, <2>8, EndFollows DEF ReaderInv, ReadEnds, ReadBreaks
  <2>9. CASE ReaderFails
    <3>1. /\ reader' = Reset(reader.cut) /\ reading' = [phase |-> "ended", due |-> 0]
          /\ UNCHANGED <<log, written, cutoff>>
      BY <2>9 DEF ReaderFails
    <3>2. reader.cut \in Nat /\ log' = Run(b, written') /\ b \in 0..written' /\ written' \in Nat
      BY <2>0, <2>1, <3>1 DEF ReaderTypes, Follows
    <3>3. Follows(b)'
      BY <3>1, <3>2, ResetFollows
    <3>4. ReaderTypes'
      BY <2>0, <3>1, <3>2 DEF ReaderTypes, Reset
    <3> QED
      BY <3>2, <3>3, <3>4 DEF ReaderInv
  <2>10. CASE FinishReading
    BY <2>0, <2>1, <2>10, FinishFollows DEF ReaderInv, FinishReading
  <2>11. CASE CopyLog \/ RemoveOldest \/ ShiftBackup \/ PublishBackup \/ RotationFails
              \/ UNCHANGED logVars
    <3>1. UNCHANGED <<log, written, reader, reading, cutoff>>
      BY <2>11 DEF CopyLog, RemoveOldest, ShiftBackup, PublishBackup, RotationFails, logVars,
                   readerVars
    <3>2. ReaderTypes'
      BY <2>0, <3>1 DEF ReaderTypes
    <3>3. Follows(b)'
      BY <2>1, <3>1 DEF Follows, Knows
    <3> QED
      BY <3>1, <3>2, <3>3 DEF ReaderInv
  <2> QED
    BY <2>2, <2>3, <2>4, <2>5, <2>6, <2>7, <2>8, <2>9, <2>10, <2>11 DEF LogNext
<1> QED
  BY <1>1, <1>2, PTL DEF LogSpec

\* A reading ends with requests once logged, each once and in order; unless the
\* file was cut under it they are the recent ones of what it has behind it, which
\* is all that was there when it began (accessLogReader.recent), whatever is
\* written, rotated and read between its calls.
THEOREM ReaderFollowsFile == LogSpec => RowsAreTheFile
<1>1. ReaderInv /\ [LogNext]_logVars
        => [reading.phase = "ended" /\ reading' # reading
              => /\ \A i, j \in DOMAIN reader'.rows : i < j => reader'.rows[i] < reader'.rows[j]
                 /\ \A i \in DOMAIN reader'.rows : reader'.rows[i] \in 1..written
                 /\ ~reader.torn
                       => /\ reader.offset <= Len(log)
                          /\ reader'.rows = RecentRows(SubSeq(log, 1, reader.offset), reader.cut)
                          /\ \A i \in DOMAIN log : log[i] <= reading.due => i <= reader.offset]_logVars
  <2> SUFFICES ASSUME ReaderInv, LogNext, reading.phase = "ended", reading' # reading
               PROVE  /\ \A i, j \in DOMAIN reader'.rows : i < j => reader'.rows[i] < reader'.rows[j]
                      /\ \A i \in DOMAIN reader'.rows : reader'.rows[i] \in 1..written
                      /\ ~reader.torn
                            => /\ reader.offset <= Len(log)
                               /\ reader'.rows = RecentRows(SubSeq(log, 1, reader.offset), reader.cut)
                               /\ \A i \in DOMAIN log : log[i] <= reading.due => i <= reader.offset
    OBVIOUS
  <2>1. FinishReading
    <3>1. ~OpenLog /\ ~CheckPrefix /\ ~ReadChunk /\ ~ReadEnds /\ ~ReadBreaks /\ ~ReaderFails
      BY DEF OpenLog, CheckPrefix, ReadChunk, ReadEnds, ReadBreaks, ReaderFails
    <3>2. ~Append1 /\ ~WindowMoves /\ ~CopyLog /\ ~RemoveOldest
      BY DEF Append1, WindowMoves, CopyLog, RemoveOldest, readerVars
    <3>3. ~ShiftBackup /\ ~PublishBackup /\ ~TruncateLog /\ ~RotationFails
      BY DEF ShiftBackup, PublishBackup, TruncateLog, RotationFails, readerVars
    <3> QED
      BY <3>1, <3>2, <3>3 DEF LogNext
  <2>2. PICK b \in 0..written : Follows(b)
    BY DEF ReaderInv
  <2>3. ReaderTypes /\ written \in Nat /\ reader.offset \in Nat /\ reading.due \in Nat /\ b \in Nat
    BY DEF ReaderInv, ReaderTypes
  <2>4. /\ Sorted(reader'.rows) /\ UpTo(reader'.rows, written)
        /\ ~reader.torn => /\ reader.offset <= Len(log)
                           /\ reader'.rows = RecentRows(SubSeq(log, 1, reader.offset), reader.cut)
                           /\ reading.due <= b + reader.offset
    BY <2>1, <2>2, <2>3, FinishFollows DEF Follows
  <2>5. reader'.rows \in Seq(Nat) /\ DOMAIN reader'.rows = 1..Len(reader'.rows)
    BY <2>4 DEF Sorted
  <2>6. \A i, j \in DOMAIN reader'.rows : i < j => reader'.rows[i] < reader'.rows[j]
    BY <2>4, <2>5 DEF Sorted
  <2>7. \A i \in DOMAIN reader'.rows : reader'.rows[i] \in 1..written
    BY <2>3, <2>4, <2>5 DEF UpTo
  <2>8. ASSUME ~reader.torn, NEW i \in DOMAIN log, log[i] <= reading.due PROVE i <= reader.offset
    <3>1. b <= written /\ log = Run(b, written)
      BY <2>2 DEF Follows
    <3>2. DOMAIN log = 1..(written - b) /\ \A k \in 1..(written - b) : log[k] = b + k
      BY <2>3, <3>1, RunIsSeq
    <3> QED
      BY <2>3, <2>4, <2>8, <3>2
  <2> QED
    BY <2>4, <2>6, <2>7, <2>8
<1> QED
  BY <1>1, ReaderHasLines, PTL DEF LogSpec, RowsAreTheFile

=============================================================================
