---------------------------- MODULE QuotaWorker ----------------------------
(***************************************************************************)
(* The official quota worker (cmd/quota, internal/quota): the refresh      *)
(* requests the Admin and Usage handlers leave for it, its rounds, the     *)
(* recovery of a container's old quota cooldown, and the operators' use of *)
(* reset credits.                                                          *)
(*                                                                         *)
(* The rounds treat every account alike and independently, so the module   *)
(* has one.  Its official weekly window, the cooldown its container keeps, *)
(* and the credits are the upstream's: other clients use the window up and *)
(* the upstream renews it at any moment, the fence notwithstanding.  Times *)
(* are in units of ForceRefreshMinimumAge.                                 *)
(***************************************************************************)
EXTENDS Integers, FiniteSets

CONSTANTS Operator,      \* who uses reset credits
          Credit,        \* the reset credits
          FreshAge,      \* how old evidence for a recovery may be
          MinAge,        \* ForceRefreshMinimumAge
          QWeek,         \* WeeklyWindowSeconds
          MaxWall,       \* bound on the clock
          QScenario      \* what is bounded how: refresh requests, the credits
                         \* there are, crashes and failed writes, whether
                         \* the catalog and the upstream's other limits change,
                         \* and whether the worker's container is started

(***************************************************************************)
(* Who holds the fence can be told from what it holds.                     *)
(***************************************************************************)
ASSUME QuotaWorkerAssumption ==
    /\ {"free", "worker"} \cap Operator = {}
    /\ FreshAge \in Nat
    /\ MinAge \in Nat
    /\ QWeek \in Nat \ {0}
    /\ MaxWall \in Nat
    /\ QScenario \subseteq [requests : Nat, credits : SUBSET Credit,
                            faults : Nat, others : BOOLEAN,
                            worker : BOOLEAN]

VARIABLES wall,      \* time.Now
          official,  \* the upstream's weekly window and the other limits
          cooldown,  \* the credential state of the account's container
          credits,   \* the credits the upstream lists as available
          delayed,   \* credits of requests the client gave up on and the
                     \* upstream may still answer
          enabled,   \* GroupEnabled in the catalog
          refresh,   \* runtime state official_quota_refresh
          snapshot,  \* runtime state official_quota
          round,     \* the worker's round
          resets,    \* the operators' resets
          fence,     \* who holds the write fence
          qfaults,   \* crashes and failed writes so far
          qscenario  \* the scenario

workerVars == <<refresh, snapshot, round>>
upstreamVars == <<official, cooldown, credits, delayed>>
quotaVars == <<wall, official, cooldown, credits, delayed, enabled, refresh, snapshot,
               round, resets, fence, qfaults, qscenario>>

Free == "free"
Worker == "worker"

(***************************************************************************)
(* The window as a round saw it (ok: it saw one), and the state the worker *)
(* persists: when its snapshot was begun, and the last error.  What is in  *)
(* the snapshot matters to the failover worker, see FailoverControl.       *)
(***************************************************************************)
NoWindow == [ok |-> FALSE, start |-> 0, used |-> FALSE, short |-> FALSE]
NoState == [at |-> -1, err |-> FALSE]
NoRefresh == [requested |-> 0, at |-> 0, started |-> 0, completed |-> 0, err |-> FALSE]
NoCooldown == [cool |-> FALSE, updated |-> 0, resets |-> 0]
NoRound == [phase |-> "down", id |-> 0, at |-> 0, seen |-> NoWindow,
            auth |-> NoCooldown, readAt |-> 0, err |-> FALSE]
NoReset == [phase |-> "idle", credit |-> "none"]

(***************************************************************************)
(* What a round that has only its request left to complete remembers.      *)
(***************************************************************************)
RoundDone == [NoRound EXCEPT !.phase = "complete", !.id = round.id]

FenceIgnored(who) == who \in Operator \/ fence = Free

(***************************************************************************)
(* Every lock-taking transaction of the store waits for the fence.         *)
(***************************************************************************)
FenceFree(who) == fence = Free

----------------------------------------------------------------------------
(* Refresh requests. *)

Pending(r) == r.requested # 0 /\ r.completed # r.requested

MarkRefreshStarted(r, id) ==
    IF id = 0 THEN r ELSE [r EXCEPT !.started = id, !.err = FALSE]

(***************************************************************************)
(* MUTANT: completes whatever is requested when the round ends.            *)
(***************************************************************************)
MarkRefreshCompletedLatest(r, id, failed) ==
    [r EXCEPT !.completed = r.requested, !.err = failed]

MarkRefreshCompleted(r, id, failed) ==
    IF id = 0 THEN r ELSE [r EXCEPT !.completed = id, !.err = failed]

(***************************************************************************)
(* The snapshot is young enough to hold a forced refresh back.             *)
(***************************************************************************)
Throttled == snapshot.at >= 0 /\ wall - snapshot.at \in 0..(MinAge - 1)

RequestRefresh ==
    /\ fence = Free
    /\ ~Pending(refresh)
    /\ ~Throttled
    /\ refresh.requested < qscenario.requests
    /\ refresh' = [refresh EXCEPT !.requested = @ + 1, !.at = wall, !.err = FALSE]
    /\ UNCHANGED <<wall, upstreamVars, enabled, snapshot, round, resets, fence, qfaults>>

----------------------------------------------------------------------------
(* A refresh round. *)

(***************************************************************************)
(* What one account's fetch records: nothing usable without an OAuth       *)
(* record, a proxy where one is due, or an answer; else the upstream's     *)
(* window.                                                                 *)
(***************************************************************************)
LoadResults == {"auth_missing", "ok"}

ResolveResults == {"unavailable", "ok"}

FetchResults == {"auth_expired", "unavailable", "ok"}

Normalized(w) == [ok |-> TRUE, start |-> w.start, used |-> w.used, short |-> w.short]

FetchedAccount(load, resolve, fetch) ==
    IF load = "ok" /\ resolve = "ok" /\ fetch = "ok" THEN Normalized(official) ELSE NoWindow

(***************************************************************************)
(* A round begins when the worker starts, on its schedule, and when the    *)
(* watcher sees a pending request.  It captures that request first.        *)
(***************************************************************************)
BeginRound ==
    /\ FenceFree(Worker)
    /\ LET id == IF Pending(refresh) THEN refresh.requested ELSE 0
       IN  /\ refresh' = MarkRefreshStarted(refresh, id)
           /\ round' = [NoRound EXCEPT !.phase = "run", !.id = id]
    /\ UNCHANGED <<wall, upstreamVars, enabled, snapshot, resets, fence, qfaults>>

StartWorker == qscenario.worker /\ round.phase = "down" /\ BeginRound

ScheduledRound == round.phase = "idle" /\ BeginRound

WatchRequest == round.phase = "idle" /\ Pending(refresh) /\ BeginRound

(***************************************************************************)
(* RunOnce notes the time, fetches, and writes the state.                  *)
(***************************************************************************)
BeginRunOnce ==
    /\ round.phase = "run"
    /\ round' = [round EXCEPT !.phase = "fetch", !.at = wall]
    /\ UNCHANGED <<wall, upstreamVars, enabled, refresh, snapshot, resets, fence, qfaults>>

FetchAccount ==
    /\ round.phase = "fetch"
    /\ \E l \in LoadResults, p \in ResolveResults, f \in FetchResults :
          round' = [round EXCEPT !.phase = "write", !.seen = FetchedAccount(l, p, f)]
    /\ UNCHANGED <<wall, upstreamVars, enabled, refresh, snapshot, resets, fence, qfaults>>

WriteState ==
    /\ round.phase = "write"
    /\ FenceFree(Worker)
    /\ snapshot' = [at |-> round.at, err |-> FALSE]
    /\ round' = [round EXCEPT !.phase = "reconcile"]
    /\ UNCHANGED <<wall, upstreamVars, enabled, refresh, resets, fence, qfaults>>

(***************************************************************************)
(* The write fails: RecordError keeps the old snapshot.                    *)
(***************************************************************************)
WriteStateFails ==
    /\ round.phase = "write"
    /\ FenceFree(Worker)
    /\ qfaults < qscenario.faults
    /\ qfaults' = qfaults + 1
    /\ snapshot' = [snapshot EXCEPT !.err = TRUE]
    /\ round' = [RoundDone EXCEPT !.err = TRUE]
    /\ UNCHANGED <<wall, upstreamVars, enabled, refresh, resets, fence>>

CompleteRound ==
    /\ round.phase = "complete"
    /\ FenceFree(Worker)
    /\ refresh' = MarkRefreshCompleted(refresh, round.id, round.err)
    /\ round' = [NoRound EXCEPT !.phase = "idle"]
    /\ UNCHANGED <<wall, upstreamVars, enabled, snapshot, resets, fence, qfaults>>

(***************************************************************************)
(* The write of completed_id fails: the request is still pending.          *)
(***************************************************************************)
CompleteFails ==
    /\ round.phase = "complete"
    /\ FenceFree(Worker)
    /\ qfaults < qscenario.faults
    /\ qfaults' = qfaults + 1
    /\ round' = [NoRound EXCEPT !.phase = "idle"]
    /\ UNCHANGED <<wall, upstreamVars, enabled, refresh, snapshot, resets, fence>>

(***************************************************************************)
(* The process dies, with its lock, or loses its lease and exits.          *)
(***************************************************************************)
WorkerCrash ==
    /\ round.phase # "down"
    /\ qfaults < qscenario.faults
    /\ qfaults' = qfaults + 1
    /\ round' = NoRound
    /\ fence' = IF fence = Worker THEN Free ELSE fence
    /\ UNCHANGED <<wall, upstreamVars, enabled, refresh, snapshot, resets>>

----------------------------------------------------------------------------
(* Recovery of a cooldown the official window has overtaken. *)

FreshEvidence(at) == wall - at \in 0..FreshAge

(***************************************************************************)
(* The official window the round saw has room, no other limit is reached,  *)
(* and the window is the current one.                                      *)
(***************************************************************************)
RecoveryWindow(w) ==
    w.ok /\ ~w.used /\ ~w.short /\ w.start <= wall /\ wall < w.start + QWeek

RecoverableCooldown(auth, w) ==
    /\ RecoveryWindow(w)
    /\ auth.cool
    /\ auth.resets < w.start + QWeek
    /\ auth.updated < w.start

(***************************************************************************)
(* The state of the container as the worker reads it.  The request may     *)
(* fail, which ends the account's recovery.                                *)
(***************************************************************************)
ReadAuth == cooldown

Reconcile ==
    /\ round.phase = "reconcile"
    /\ \E answers \in BOOLEAN :
          IF answers /\ enabled /\ FreshEvidence(round.at) /\ RecoverableCooldown(ReadAuth, round.seen)
          THEN round' = [round EXCEPT !.phase = "fenced", !.auth = ReadAuth]
          ELSE round' = RoundDone
    /\ UNCHANGED <<wall, upstreamVars, enabled, refresh, snapshot, resets, fence, qfaults>>

(***************************************************************************)
(* MUTANT: trusts the state read before the fence was taken.               *)
(***************************************************************************)
RecheckedCatalogOnly == enabled /\ FreshEvidence(round.at)

(***************************************************************************)
(* Under the fence the catalog, the age of the evidence and the            *)
(* container's state are looked at again.                                  *)
(***************************************************************************)
Rechecked ==
    /\ enabled
    /\ FreshEvidence(round.at)
    /\ ReadAuth = round.auth
    /\ RecoverableCooldown(ReadAuth, round.seen)

Recheck ==
    /\ round.phase = "fenced"
    /\ FenceFree(Worker)
    /\ \E answers \in BOOLEAN :
          IF answers /\ Rechecked
          THEN /\ fence' = Worker
               /\ round' = [round EXCEPT !.phase = "post", !.readAt = wall]
          ELSE /\ round' = RoundDone
               /\ UNCHANGED fence
    /\ UNCHANGED <<wall, upstreamVars, enabled, refresh, snapshot, resets, qfaults>>

(***************************************************************************)
(* POST /reset-quota clears whatever cooldown the credential has by then,  *)
(* or fails.  Confirming it only reads.                                    *)
(***************************************************************************)
ResetQuota ==
    /\ round.phase = "post"
    /\ \E cleared \in BOOLEAN :
          cooldown' = IF cleared THEN NoCooldown ELSE cooldown
    /\ fence' = Free
    /\ round' = RoundDone
    /\ UNCHANGED <<wall, official, credits, delayed, enabled, refresh, snapshot, resets,
                   qfaults>>

----------------------------------------------------------------------------
(* An operator resets the window with a credit. *)

(***************************************************************************)
(* The dialog lists the credits and the used-up windows.                   *)
(***************************************************************************)
Inspect(o) ==
    /\ resets[o].phase = "idle"
    /\ official.used
    /\ \E c \in credits : resets' = [resets EXCEPT ![o] = [phase |-> "chosen", credit |-> c]]
    /\ UNCHANGED <<wall, upstreamVars, enabled, workerVars, fence, qfaults>>

(***************************************************************************)
(* Reset reads usage and credits again under the fence; a credit gone or a *)
(* window with room ends it.                                               *)
(***************************************************************************)
ResetReads(o) ==
    /\ resets[o].phase = "chosen"
    /\ FenceFree(o)
    /\ IF resets[o].credit \in credits /\ official.used
       THEN /\ fence' = o
            /\ resets' = [resets EXCEPT ![o].phase = "consume"]
       ELSE /\ resets' = [resets EXCEPT ![o] = NoReset]
            /\ UNCHANGED fence
    /\ UNCHANGED <<wall, upstreamVars, enabled, workerVars, qfaults>>

(***************************************************************************)
(* The upstream renews the window and takes the credit.                    *)
(***************************************************************************)
Redeem(c, by) ==
    /\ c \in credits
    /\ credits' = credits \ {c}
    /\ delayed' = delayed \ {c}
    /\ official' = [official EXCEPT !.start = wall, !.used = FALSE, !.by = by]

(***************************************************************************)
(* The upstream takes the credit, whether or not its answer arrives,       *)
(* refuses it, or lets the request wait until the client's timeout.  The   *)
(* operator starts over from the dialog.                                   *)
(***************************************************************************)
ConsumeResetCredit(o) ==
    /\ resets[o].phase = "consume"
    /\ \/ Redeem(resets[o].credit, "credit")
       \/ /\ delayed' \in {delayed, delayed \cup {resets[o].credit}}
          /\ UNCHANGED <<credits, official>>
    /\ resets' = [resets EXCEPT ![o] = NoReset]
    /\ fence' = IF fence = o THEN Free ELSE fence
    /\ UNCHANGED <<wall, cooldown, enabled, workerVars, qfaults>>

(***************************************************************************)
(* A request the client has given up on comes through after all; no fence  *)
(* waits for it.                                                           *)
(***************************************************************************)
RedeemLate ==
    /\ \E c \in delayed : Redeem(c, "late")
    /\ UNCHANGED <<wall, cooldown, enabled, workerVars, resets, fence, qfaults>>

----------------------------------------------------------------------------
(* The rest of the system. *)

(***************************************************************************)
(* Admin enables or disables the account, under the store's lock.          *)
(***************************************************************************)
SetEnabled ==
    /\ fence = Free
    /\ qscenario.others
    /\ enabled' = ~enabled
    /\ UNCHANGED <<wall, upstreamVars, workerVars, resets, fence, qfaults>>

TickWall ==
    /\ wall < MaxWall
    /\ wall' = wall + 1
    /\ UNCHANGED <<upstreamVars, enabled, workerVars, resets, fence, qfaults>>

(***************************************************************************)
(* The upstream: the window is used up, another limit comes and goes, and  *)
(* a window that has ended is followed by the next.                        *)
(***************************************************************************)
Upstream ==
    /\ \/ /\ ~official.used
          /\ official' = [official EXCEPT !.used = TRUE]
       \/ /\ qscenario.others
          /\ official' = [official EXCEPT !.short = ~@]
       \/ /\ wall >= official.start + QWeek
          /\ official' = [official EXCEPT !.start = wall, !.used = FALSE, !.by = "week"]
    /\ UNCHANGED <<wall, cooldown, credits, delayed, enabled, workerVars, resets, fence,
                   qfaults>>

(***************************************************************************)
(* The container meets a limit and cools down until it ends, or its own    *)
(* retry succeeds.                                                         *)
(***************************************************************************)
Native ==
    /\ \/ /\ official.used \/ official.short
          /\ cooldown' = [cool |-> TRUE, updated |-> wall,
                          resets |-> IF official.used THEN official.start + QWeek ELSE wall + 1]
       \/ /\ cooldown.cool /\ ~official.used /\ ~official.short
          /\ cooldown' = NoCooldown
    /\ UNCHANGED <<wall, official, credits, delayed, enabled, workerVars, resets, fence,
                   qfaults>>

QuotaInit ==
    /\ wall = 0
    /\ official = [start |-> 0, used |-> FALSE, short |-> FALSE, by |-> "week"]
    /\ cooldown = NoCooldown
    /\ qscenario \in QScenario
    /\ credits = qscenario.credits /\ delayed = {}
    /\ enabled = TRUE
    /\ refresh = NoRefresh
    /\ snapshot = NoState
    /\ round = NoRound
    /\ resets = [o \in Operator |-> NoReset]
    /\ fence = Free
    /\ qfaults = 0

WorkerStep ==
    \/ StartWorker \/ WatchRequest \/ BeginRunOnce \/ FetchAccount \/ WriteState
    \/ CompleteRound \/ Reconcile \/ Recheck \/ ResetQuota

ResetStep == \E o \in Operator : ResetReads(o) \/ ConsumeResetCredit(o)

QuotaAct ==
    \/ WorkerStep \/ ScheduledRound \/ WriteStateFails \/ CompleteFails \/ WorkerCrash
    \/ RequestRefresh
    \/ \E o \in Operator : Inspect(o)
    \/ ResetStep
    \/ SetEnabled \/ TickWall \/ Upstream \/ RedeemLate \/ Native

QuotaNext == QuotaAct /\ UNCHANGED qscenario

QuotaSpec == QuotaInit /\ [][QuotaNext]_quotaVars

----------------------------------------------------------------------------
(***************************************************************************)
(* A request marked completed without an error was answered by a snapshot  *)
(* whose fetches began after it was made: a request made while a round is  *)
(* running is left for the next (runRefreshRound completes the id it       *)
(* captured).                                                              *)
(***************************************************************************)
RequestsAnswered ==
    (refresh.requested # 0 /\ refresh.completed = refresh.requested /\ ~refresh.err)
        => snapshot.at >= refresh.at

(***************************************************************************)
(* A recovery clears a cooldown of an enabled account only, and only one   *)
(* set before the official window the evidence shows, or set after the     *)
(* worker's last look at it, which the fence cannot keep out.              *)
(***************************************************************************)
OldCooldownsCleared ==
    [][(round.phase = "post" /\ round'.phase # "post" /\ cooldown.cool /\ ~cooldown'.cool)
          => /\ enabled
             /\ cooldown.updated < round.seen.start \/ cooldown.updated >= round.readAt]_quotaVars

(***************************************************************************)
(* No credit is spent on a window that another credit has renewed and      *)
(* nobody has used up since, however many operators reset it and however   *)
(* often a lost answer makes them try again: but for one that waited       *)
(* upstream beyond the client's timeout, and one spent on the window such  *)
(* a request, or the end of the week, has renewed in between.              *)
(***************************************************************************)
CreditsBuyWindows ==
    [][\A c \in credits \ credits' :
          official.used \/ official.by # "credit" \/ c \in delayed]_quotaVars
=============================================================================
