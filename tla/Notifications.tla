--------------------------- MODULE Notifications ---------------------------
(***************************************************************************)
(* The notification worker (cmd/notifications, internal/notifications) and *)
(* the Admin handlers that configure it.  Time is what the worker tells    *)
(* apart: whether a daily slot is within its grace, whether the quota      *)
(* check is due again, whether a weekly window has ended.  A message is    *)
(* the set of slots it reports for and of accounts whose change it tells.  *)
(***************************************************************************)
EXTENDS Integers, FiniteSets

CONSTANTS NAccount,    \* accounts
          Slot,        \* <<time zone, date, daily time>>: the keys of `scheduled'
          NScenario,   \* which slots come, how many weekly windows an account
                       \* has, whether Admin changes the configuration
          MaxNFaults   \* bound on crashes and failed sends

Level == {"normal", "warning", "exhausted", "unavailable"}

(***************************************************************************)
(* The scenarios bound what they say they bound.                           *)
(***************************************************************************)
ASSUME NotificationsAssumption ==
    /\ NScenario \subseteq [slots : SUBSET Slot, cycles : Nat, admin : BOOLEAN]
    /\ MaxNFaults \in Nat

VARIABLES level,     \* what the quota snapshot says of an account
          cycle,     \* its weekly window: number, and the number of the last ended
          slots,     \* each slot: before, open, past
          checkDue,  \* QuotaCheckInterval has passed since quota_checked_at
          settings,  \* notification.enabled, notification.quota_alert_enabled
          hook,      \* wecom_webhook is set
          clearing,  \* clearNotificationWebhook is between its two writes
          nstate,    \* the runtime state `notifications'
          nround,    \* the worker's round
          told,      \* the level the group was last alerted to
          delivered, \* how many messages reported for a slot
          unrecorded,\* a message was accepted and its answer or record lost
          nfaults,   \* crashes and failed sends so far
          nscenario  \* the scenario

notifyVars == <<level, cycle, slots, checkDue, settings, hook, clearing, nstate,
                nround, told, delivered, unrecorded, nfaults, nscenario>>
ghostVars == <<told, delivered, unrecorded>>
outsideVars == <<level, cycle, slots, settings, hook, clearing>>

NoNRound == [phase |-> "idle", due |-> {}, events |-> {}, rows |-> [a \in NAccount |-> "normal"],
             base |-> [a \in NAccount |-> 0], check |-> FALSE]

----------------------------------------------------------------------------
(* A round. *)

(***************************************************************************)
(* Sent records are kept for 14 days, longer than any grace.               *)
(***************************************************************************)
PruneScheduled(sent) == {s \in sent : slots[s] # "past"}

DueSchedules == {s \in Slot : slots[s] = "open"} \ nstate.scheduled

(***************************************************************************)
(* The accounts whose level differs from the one last alerted, an          *)
(* unreadable one apart, and those whose window has ended and been         *)
(* followed by another.                                                    *)
(***************************************************************************)
LevelEvents ==
    {a \in NAccount : level[a] # "unavailable" /\ level[a] # nstate.alerts[a]}

RefreshEvents ==
    {a \in NAccount : /\ level[a] = "normal"
                      /\ nstate.base[a] > 0
                      /\ nstate.base[a] <= cycle[a].ended
                      /\ nstate.base[a] < cycle[a].number}

Events ==
    RefreshEvents \cup (IF settings.alerts THEN LevelEvents ELSE {})

(***************************************************************************)
(* The windows the next round compares with: those read now, the earlier   *)
(* ones where the account cannot be read.                                  *)
(***************************************************************************)
Baseline ==
    [a \in NAccount |-> IF level[a] = "unavailable" THEN nstate.base[a] ELSE cycle[a].number]

(***************************************************************************)
(* A round that may not send, or has nothing to look at, prunes and ends.  *)
(***************************************************************************)
IdleRound ==
    /\ nround.phase = "idle"
    /\ ~settings.on \/ ~hook \/ (DueSchedules = {} /\ ~checkDue)
    /\ nstate' = [nstate EXCEPT !.scheduled = PruneScheduled(@)]
    /\ UNCHANGED <<outsideVars, checkDue, nround, ghostVars, nfaults>>

(***************************************************************************)
(* The round reads the settings, the state and the quota snapshot.         *)
(***************************************************************************)
BeginNotifyRound ==
    /\ nround.phase = "idle"
    /\ settings.on /\ hook
    /\ DueSchedules # {} \/ checkDue
    /\ nround' = [phase  |-> IF DueSchedules = {} /\ Events = {} THEN "record" ELSE "send",
                  due    |-> DueSchedules,
                  events |-> Events,
                  rows   |-> level,
                  base   |-> Baseline,
                  check  |-> settings.alerts]
    /\ UNCHANGED <<outsideVars, checkDue, nstate, ghostVars, nfaults>>

(***************************************************************************)
(* The webhook accepted the message: one for the slots that are due, with  *)
(* the changes in it, else one for the changes.  With alerts switched off  *)
(* only ended windows are announced, which is no word on the level.        *)
(***************************************************************************)
Accepted ==
    /\ told' = [a \in NAccount |-> IF nround.check /\ a \in nround.events THEN nround.rows[a]
                                                                         ELSE told[a]]
    /\ delivered' = [s \in Slot |-> delivered[s] + IF s \in nround.due THEN 1 ELSE 0]

Send ==
    /\ nround.phase = "send"
    /\ hook
    /\ Accepted
    /\ nround' = [nround EXCEPT !.phase = "record"]
    /\ UNCHANGED <<outsideVars, checkDue, nstate, unrecorded, nfaults>>

(***************************************************************************)
(* The webhook is gone by then, refuses, or accepts and the answer is lost.*)
(***************************************************************************)
SendFails ==
    /\ nround.phase = "send"
    /\ \/ /\ ~hook
          /\ UNCHANGED <<ghostVars, nfaults>>
       \/ /\ nfaults < MaxNFaults
          /\ nfaults' = nfaults + 1
          /\ \/ UNCHANGED ghostVars
             \/ hook /\ Accepted /\ unrecorded' = TRUE
    /\ nround' = [nround EXCEPT !.phase = "failed"]
    /\ UNCHANGED <<outsideVars, checkDue, nstate>>

(***************************************************************************)
(* The alerts a round that has sent its message records: the levels it     *)
(* told, an unreadable account's as it was.                                *)
(***************************************************************************)
UpdatedAlerts ==
    [a \in NAccount |-> IF nround.check /\ a \in nround.events THEN nround.rows[a]
                                                              ELSE nstate.alerts[a]]

(***************************************************************************)
(* MUTANT: remembers the first of the slots it reported for.               *)
(***************************************************************************)
ReportedFirst ==
    IF nround.due = {} THEN {} ELSE {CHOOSE s \in nround.due : TRUE}

Reported == nround.due

Record ==
    /\ nround.phase = "record"
    /\ nstate' = [scheduled |-> PruneScheduled(nstate.scheduled \cup Reported),
                  base      |-> nround.base,
                  alerts    |-> UpdatedAlerts]
    /\ checkDue' = FALSE
    /\ nround' = NoNRound
    /\ UNCHANGED <<outsideVars, ghostVars, nfaults>>

(***************************************************************************)
(* MUTANT: records the alerts of a message that was not accepted.          *)
(***************************************************************************)
AlertsAfterError == UpdatedAlerts

(***************************************************************************)
(* An error keeps the alerts, to be tried again, and advances the rest.    *)
(***************************************************************************)
AlertsKept == nstate.alerts

RecordError ==
    /\ nround.phase = "failed"
    /\ nstate' = [scheduled |-> PruneScheduled(nstate.scheduled),
                  base      |-> nround.base,
                  alerts    |-> AlertsKept]
    /\ checkDue' = FALSE
    /\ nround' = NoNRound
    /\ UNCHANGED <<outsideVars, ghostVars, nfaults>>

(***************************************************************************)
(* The worker dies, loses its lease, or cannot write its state.            *)
(***************************************************************************)
NotifyCrash ==
    /\ nround.phase # "idle"
    /\ nfaults < MaxNFaults
    /\ nfaults' = nfaults + 1
    /\ unrecorded' = (unrecorded \/ (nround.phase = "record" /\ nround.due \cup nround.events # {}))
    /\ nround' = NoNRound
    /\ UNCHANGED <<outsideVars, checkDue, nstate, told, delivered>>

----------------------------------------------------------------------------
(* The Admin handlers and the rest of the world. *)

UpdateNotificationSettings ==
    /\ nscenario.admin
    /\ \/ /\ hook \/ settings.on
          /\ settings' = [settings EXCEPT !.on = ~@]
       \/ settings' = [settings EXCEPT !.alerts = ~@]
    /\ UNCHANGED <<level, cycle, slots, checkDue, hook, clearing, nstate, nround, ghostVars, nfaults>>

UpdateNotificationWebhook ==
    /\ nscenario.admin
    /\ hook' = TRUE
    /\ UNCHANGED <<level, cycle, slots, checkDue, settings, clearing, nstate, nround, ghostVars, nfaults>>

(***************************************************************************)
(* The secret goes first, so that a failure in between leaves the worker   *)
(* without a webhook.                                                      *)
(***************************************************************************)
ClearNotificationWebhook ==
    /\ nscenario.admin
    /\ ~clearing
    /\ hook' = FALSE
    /\ clearing' = TRUE
    /\ UNCHANGED <<level, cycle, slots, checkDue, settings, nstate, nround, ghostVars, nfaults>>

DisableAfterClear ==
    /\ clearing
    /\ clearing' = FALSE
    /\ \/ settings' = [settings EXCEPT !.on = FALSE]
       \/ UNCHANGED settings
    /\ UNCHANGED <<level, cycle, slots, checkDue, hook, nstate, nround, ghostVars, nfaults>>

(***************************************************************************)
(* Levels move; a window ends and another follows, or is renewed early by  *)
(* a reset credit.                                                         *)
(***************************************************************************)
QuotaChanges ==
    /\ \E a \in NAccount :
          \/ /\ \E l \in Level \ {level[a]} : level' = [level EXCEPT ![a] = l]
             /\ UNCHANGED cycle
          \/ /\ cycle[a].number < nscenario.cycles
             /\ \E ended \in {cycle[a].number, cycle[a].ended} :
                   cycle' = [cycle EXCEPT ![a] = [number |-> @.number + 1, ended |-> ended]]
             /\ level' = [level EXCEPT ![a] = "normal"]
    /\ UNCHANGED <<slots, checkDue, settings, hook, clearing, nstate, nround, ghostVars, nfaults>>

SlotTime ==
    /\ \E s \in nscenario.slots :
          \/ slots[s] = "before" /\ slots' = [slots EXCEPT ![s] = "open"]
          \/ slots[s] = "open" /\ slots' = [slots EXCEPT ![s] = "past"]
    /\ UNCHANGED <<level, cycle, checkDue, settings, hook, clearing, nstate, nround, ghostVars, nfaults>>

CheckInterval ==
    /\ ~checkDue
    /\ checkDue' = TRUE
    /\ UNCHANGED <<outsideVars, nstate, nround, ghostVars, nfaults>>

NotifyInit ==
    /\ nscenario \in NScenario
    /\ level = [a \in NAccount |-> "normal"]
    /\ cycle = [a \in NAccount |-> [number |-> 1, ended |-> 0]]
    /\ slots = [s \in Slot |-> "before"]
    /\ checkDue = TRUE
    /\ settings = [on |-> TRUE, alerts |-> TRUE]
    /\ hook = TRUE
    /\ clearing = FALSE
    /\ nstate = [scheduled |-> {}, base |-> [a \in NAccount |-> 0],
                 alerts |-> [a \in NAccount |-> "normal"]]
    /\ nround = NoNRound
    /\ told = [a \in NAccount |-> "normal"]
    /\ delivered = [s \in Slot |-> 0]
    /\ unrecorded = FALSE
    /\ nfaults = 0

NotifyStep == BeginNotifyRound \/ Send \/ SendFails \/ Record \/ RecordError

NotifyAct ==
    \/ IdleRound \/ NotifyStep \/ NotifyCrash
    \/ UpdateNotificationSettings \/ UpdateNotificationWebhook
    \/ ClearNotificationWebhook \/ DisableAfterClear
    \/ QuotaChanges \/ SlotTime \/ CheckInterval

NotifyNext == NotifyAct /\ UNCHANGED nscenario

NotifySpec == NotifyInit /\ [][NotifyNext]_notifyVars

(***************************************************************************)
(* Cron runs a round every interval, a round has a deadline, time passes.  *)
(***************************************************************************)
FairNotifySpec ==
    /\ NotifySpec
    /\ WF_notifyVars(NotifyStep /\ UNCHANGED nscenario)
    /\ WF_notifyVars(CheckInterval /\ UNCHANGED nscenario)

----------------------------------------------------------------------------
(***************************************************************************)
(* A slot is reported for once, and once more for every crash or lost      *)
(* answer at the most, however slots overlap and settings change.          *)
(***************************************************************************)
ReportedOnce == \A s \in Slot : delivered[s] <= 1 + nfaults

(***************************************************************************)
(* When an account's level stays and notifications stay on, the group ends *)
(* up knowing it, whatever sends were refused before; an accepted message  *)
(* that was never recorded is the exception: the change back from what it  *)
(* announced may never be told.                                            *)
(***************************************************************************)
LevelsTold ==
    \A a \in NAccount :
        \/ []<><<level'[a] # level[a]>>_notifyVars
        \/ []<>(\/ told[a] = level[a] \/ level[a] = "unavailable"
               \/ ~(settings.on /\ settings.alerts /\ hook)
               \/ unrecorded)
=============================================================================
