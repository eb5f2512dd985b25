---------------------------- MODULE MCOwnership ----------------------------
(***************************************************************************)
(* Instances of Ownership for TLC.  blue and green are two deployments     *)
(* that take turns owning one root; every process slot is named after its  *)
(* deployment and its worker scope.                                        *)
(***************************************************************************)
EXTENDS Ownership, TLC

CONSTANTS
    blueAdmin, greenAdmin, blueCollector,  \* process slots
    admin, collector, runtime,             \* scopes
    blue, green,                           \* runtime owner labels
    o1, o2                                 \* operator invocations

MCScopeOf == [p \in Proc |-> IF p = blueCollector THEN collector ELSE admin]
MCOwnerOf == [p \in Proc |-> IF p = greenAdmin THEN green ELSE blue]
=============================================================================
