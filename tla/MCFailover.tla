----------------------------- MODULE MCFailover -----------------------------
(***************************************************************************)
(* Instances of FailoverControl for TLC.                                   *)
(***************************************************************************)
EXTENDS FailoverControl

Usage(used) == [answer |-> "ok", weekly |-> "default", used |-> used,
                limit |-> FALSE, allowed |-> TRUE]
LimitReached == [Usage(80) EXCEPT !.limit = TRUE]
Disallowed == [Usage(40) EXCEPT !.allowed = FALSE]
NoUsage == [Usage(0) EXCEPT !.answer = "error"]

\* Two accounts: both free, the first spent, and neither usable.
MCSnapshots ==
    {<<Usage(35), Usage(75)>>, <<LimitReached, Usage(75)>>, <<Disallowed, NoUsage>>}
MCProbes == {Account, Account \ {2}}
MCNatives == {<<"no_oauth", "unknown">>, <<"unavailable", "exhausted">>}
MCKeySets == {[u \in User |-> "complete"], [u \in User |-> IF u = 1 THEN "partial" ELSE "complete"]}
MCRoutes == {<<1, 1>>, <<1, Nowhere>>}
=============================================================================
