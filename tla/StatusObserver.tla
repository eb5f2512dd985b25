--------------------------- MODULE StatusObserver ---------------------------
(***************************************************************************)
(* The account status observer (internal/accountstatus): a cache of what   *)
(* the accounts' containers say of their credentials, filled by one        *)
(* refresh at a time per set of services, read by route changes (Observe)  *)
(* and by displays (ObserveForDisplay).  One account is watched; the sets  *)
(* of services asked about (Query) stand for the fingerprints.             *)
(***************************************************************************)
EXTENDS Integers, FiniteSets

CONSTANTS Asker,        \* requests that change a route
          Query,        \* fingerprints of the services asked about
          CacheTTL,     \* cacheTTL
          ProbeTime,    \* probeTimeout + 1 s: the deadline of a refresh
          MaxSeconds,   \* bound on the clock
          ContainerState  \* the states the container changes between

(***************************************************************************)
(* The container's credentials: some usable, all unusable with a reason    *)
(* that lasts, all cooling down after an upstream error, or no answer.     *)
(***************************************************************************)
RuntimeState == {"active", "degraded", "exhausted", "invalid", "missing", "transient", "silent"}

(***************************************************************************)
(* Durations are counted in the same unit.                                 *)
(***************************************************************************)
ASSUME ObserverAssumption ==
    /\ CacheTTL \in Nat /\ ProbeTime \in Nat /\ MaxSeconds \in Nat
    /\ ContainerState \subseteq RuntimeState

VARIABLES seconds,   \* now
          container, \* what the container would answer
          openAt,    \* when the account was last not blocked
          cache,     \* cacheFingerprint, cacheExpiresAt, cache
          flights,   \* the refreshes in flight, one per fingerprint
          asks       \* the route changes

observerVars == <<seconds, container, openAt, cache, flights, asks>>

(***************************************************************************)
(* The reasons that keep a user from choosing the account by hand.         *)
(***************************************************************************)
Blocker == {"quota_exhausted", "credential_unavailable"}

NoFlight == [on |-> FALSE, at |-> 0, saw |-> "none"]
NoAsk == [phase |-> "idle", query |-> "none", state |-> "none"]

(***************************************************************************)
(* presentRuntime, for an account without recent errors.                   *)
(***************************************************************************)
ProbeNative(n) == IF n = "silent" THEN "unknown" ELSE n

PresentRuntime(n) ==
    CASE n = "active"    -> "available"
      [] n = "degraded"  -> "degraded"
      [] n = "exhausted" -> "quota_exhausted"
      [] n \in {"invalid", "missing"} -> "credential_unavailable"
      [] n = "transient" -> "transient_cooldown"
      [] OTHER           -> "runtime_unknown"

MaySwitchTo(reason) == reason \notin Blocker

----------------------------------------------------------------------------
(***************************************************************************)
(* MUTANT: serves a route change what a display may still show.            *)
(***************************************************************************)
CachedForTwo(q) == cache.query = q /\ seconds < cache.expires + CacheTTL

Cached(q) == cache.query = q /\ seconds < cache.expires

CachedForDisplay(q) == cache.query = q /\ seconds < cache.expires + CacheTTL

(***************************************************************************)
(* refreshSnapshot joins the refresh in flight for the same services.      *)
(***************************************************************************)
RefreshSnapshot(q) ==
    flights' = IF flights[q].on THEN flights
               ELSE [flights EXCEPT ![q] = [NoFlight EXCEPT !.on = TRUE, !.at = seconds]]

(***************************************************************************)
(* A route change asks, and waits where the cache is too old.              *)
(***************************************************************************)
Observe(r) ==
    /\ asks[r].phase = "idle"
    /\ \E q \in Query :
          IF Cached(q)
          THEN /\ asks' = [asks EXCEPT ![r] = [phase |-> "answered", query |-> q, state |-> cache.state]]
               /\ UNCHANGED flights
          ELSE /\ asks' = [asks EXCEPT ![r] = [NoAsk EXCEPT !.phase = "waiting", !.query = q]]
               /\ RefreshSnapshot(q)
    /\ UNCHANGED <<seconds, container, openAt, cache>>

(***************************************************************************)
(* A display is served from the cache for two periods; past the first it   *)
(* starts a refresh and does not wait.                                     *)
(***************************************************************************)
ObserveForDisplay ==
    /\ \E q \in Query :
          /\ ~Cached(q)
          /\ CachedForDisplay(q)
          /\ ~flights[q].on
          /\ RefreshSnapshot(q)
    /\ UNCHANGED <<seconds, container, openAt, cache, asks>>

(***************************************************************************)
(* The refresh reads the container,                                        *)
(***************************************************************************)
RefreshReads(q) ==
    /\ flights[q].on
    /\ flights[q].saw = "none"
    /\ flights' = [flights EXCEPT ![q].saw = PresentRuntime(ProbeNative(container))]
    /\ UNCHANGED <<seconds, container, openAt, cache, asks>>

(***************************************************************************)
(* and its end dates the cache from then and answers everyone waiting.     *)
(***************************************************************************)
RefreshEnds(q) ==
    /\ flights[q].saw # "none"
    /\ cache' = [query |-> q, expires |-> seconds + CacheTTL, state |-> flights[q].saw]
    /\ flights' = [flights EXCEPT ![q] = NoFlight]
    /\ asks' = [r \in Asker |->
                   IF asks[r].phase = "waiting" /\ asks[r].query = q
                   THEN [asks[r] EXCEPT !.phase = "answered", !.state = flights[q].saw]
                   ELSE asks[r]]
    /\ UNCHANGED <<seconds, container, openAt>>

(***************************************************************************)
(* A request that gives up waiting reads "unknown".                        *)
(***************************************************************************)
AskCancelled(r) ==
    /\ asks[r].phase = "waiting"
    /\ asks' = [asks EXCEPT ![r].phase = "answered", ![r].state = "runtime_unknown"]
    /\ UNCHANGED <<seconds, container, openAt, cache, flights>>

(***************************************************************************)
(* The route change is decided at once on what was observed.               *)
(***************************************************************************)
Decide(r) ==
    /\ asks[r].phase = "answered"
    /\ asks' = [asks EXCEPT ![r] = NoAsk]
    /\ UNCHANGED <<seconds, container, openAt, cache, flights>>

(***************************************************************************)
(* A refresh ends by its deadline and an answer is used when it arrives.   *)
(***************************************************************************)
Second ==
    /\ seconds < MaxSeconds
    /\ \A q \in Query : flights[q].on => seconds - flights[q].at < ProbeTime
    /\ \A r \in Asker : asks[r].phase # "answered"
    /\ seconds' = seconds + 1
    /\ openAt' = IF MaySwitchTo(PresentRuntime(ProbeNative(container))) THEN seconds + 1 ELSE openAt
    /\ UNCHANGED <<container, cache, flights, asks>>

RuntimeChanges ==
    /\ \E n \in ContainerState \ {container} :
          /\ container' = n
          /\ openAt' = IF MaySwitchTo(PresentRuntime(ProbeNative(n))) THEN seconds ELSE openAt
    /\ UNCHANGED <<seconds, cache, flights, asks>>

ObserverInit ==
    /\ seconds = 0
    /\ container = "active"
    /\ openAt = 0
    /\ cache = [query |-> "none", expires |-> 0, state |-> "none"]
    /\ flights = [q \in Query |-> NoFlight]
    /\ asks = [r \in Asker |-> NoAsk]

ObserverNext ==
    \/ \E r \in Asker : Observe(r) \/ AskCancelled(r) \/ Decide(r)
    \/ ObserveForDisplay
    \/ \E q \in Query : RefreshReads(q) \/ RefreshEnds(q)
    \/ Second
    \/ RuntimeChanges

ObserverSpec == ObserverInit /\ [][ObserverNext]_observerVars

----------------------------------------------------------------------------
(***************************************************************************)
(* A route change that finds the account selectable decides on a moment no *)
(* further back than a cache period and a refresh: had the account been    *)
(* blocked for longer than that, the change would have seen it, whatever   *)
(* displays had kept the cache alive for and whatever other sets of        *)
(* services were asked about meanwhile ("an expired healthy display        *)
(* snapshot cannot authorize a switch").  An account the observer could    *)
(* not ask, or did not wait for, stays selectable.                         *)
(***************************************************************************)
SwitchesOnRecentSight ==
    \A r \in Asker :
        (asks[r].phase = "answered" /\ MaySwitchTo(asks[r].state) /\ asks[r].state # "runtime_unknown")
            => seconds - openAt < CacheTTL + ProbeTime \/ seconds - openAt <= ProbeTime
=============================================================================
