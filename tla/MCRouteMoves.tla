---------------------------- MODULE MCRouteMoves ----------------------------
(***************************************************************************)
(* Instances of RouteMoves for TLC: the failover worker and Admin move     *)
(* users between accounts, one of which may be disabled.                   *)
(***************************************************************************)
EXTENDS RouteMoves

CONSTANTS
    u1, a1, a2, blue, green, failover, admin

BothEnabled == {[a \in Account |-> "enabled"]}
SecondDisabled == {[a \in Account |-> IF a = a2 THEN "disabled" ELSE "enabled"]}
MCCatalogs == BothEnabled \cup SecondDisabled
=============================================================================
