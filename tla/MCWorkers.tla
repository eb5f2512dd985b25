----------------------------- MODULE MCWorkers ------------------------------
(***************************************************************************)
(* The usage collector and the notifications, which are checked for        *)
(* liveness too, each on an instance of its own: a behaviour is one of     *)
(* part, the other rests in an initial state.                              *)
(***************************************************************************)
EXTENDS Metering, Notifications

VARIABLE part

(***************************************************************************)
(* Metering: two requests, one of which may be redelivered; two requests   *)
(* and a change of the time zone; a request and changes of the zone or of  *)
(* the account's switch beside a fault; a personal quota under weekly      *)
(* reset, the zone going forth and back; a request and quota actions.      *)
(***************************************************************************)
MCScenario ==
    {[requests |-> 2, keys |-> MKey, reset |-> FALSE, faults |-> 1,
      changes |-> 0, kinds |-> {}, zones |-> {}],
     [requests |-> 2, keys |-> {}, reset |-> FALSE, faults |-> 0,
      changes |-> 1, kinds |-> {"zone"}, zones |-> {1}],
     [requests |-> 1, keys |-> {}, reset |-> FALSE, faults |-> 1,
      changes |-> 2, kinds |-> {"zone", "switch"}, zones |-> {1}],
     [requests |-> 0, keys |-> {}, reset |-> TRUE, faults |-> 1,
      changes |-> 3, kinds |-> {"policy", "zone"}, zones |-> Zone],
     [requests |-> 1, keys |-> {}, reset |-> FALSE, faults |-> 0,
      changes |-> 2, kinds |-> {"policy", "action"}, zones |-> {}]}

(***************************************************************************)
(* Notifications: two report slots in one quota cycle, or two cycles with  *)
(* the settings changing.                                                  *)
(***************************************************************************)
MCNScenario ==
    {[slots |-> Slot, cycles |-> 1, admin |-> FALSE],
     [slots |-> {}, cycles |-> 2, admin |-> TRUE]}

-----------------------------------------------------------------------------
Part == {"metering", "notifications"}

allVars == <<part, meterVars, notifyVars>>

MCInit ==
    /\ part \in Part
    /\ MeterInit /\ (part # "metering" =>
                        /\ scenario = CHOOSE s \in Scenario : TRUE
                        /\ \A a \in adjustments : a.kind = "bonus")
    /\ NotifyInit /\ (part # "notifications" => nscenario = CHOOSE s \in NScenario : TRUE)

\* A step of one part leaves the rest alone.
MeteringPart(A) ==
    part = "metering" /\ A /\ UNCHANGED <<part, notifyVars>>
NotificationsPart(A) ==
    part = "notifications" /\ A /\ UNCHANGED <<part, meterVars>>

MCNext == MeteringPart(MeterNext) \/ NotificationsPart(NotifyNext)

\* The fairness of FairMeterSpec and FairNotifySpec.
MCSpec ==
    /\ MCInit /\ [][MCNext]_allVars
    /\ WF_allVars(MeteringPart(CollectorStep /\ UNCHANGED scenario))
    /\ WF_allVars(NotificationsPart(NotifyStep /\ UNCHANGED nscenario))
    /\ WF_allVars(NotificationsPart(CheckInterval /\ UNCHANGED nscenario))
=============================================================================
