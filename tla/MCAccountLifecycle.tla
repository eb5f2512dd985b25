------------------------- MODULE MCAccountLifecycle -------------------------
(***************************************************************************)
(* Instances of AccountLifecycle for TLC: two accounts exist, a third name *)
(* is free for a creation or a rename.                                     *)
(***************************************************************************)
EXTENDS AccountLifecycle, TLC

CONSTANTS
    u1, a1, a2, a3, blue

TwoOfThree ==
    {[a \in Account |-> IF a = a3 THEN "absent" ELSE "enabled"]}

AnyRouting == Routing

\* Routes to a2 are the same but for the name.
UnroutedOrFirst == [User -> {NoAccount, a1}]

NoneCustom == {{}}
NoneOrOne == {{}, {a1}, {a2}}

PlainProxy == {[custom |-> FALSE, key |-> FALSE]}
AnyProxy == [custom : BOOLEAN, key : BOOLEAN]

\* The two accounts that exist are alike.
AccountSymmetry == Permutations({a1, a2})

=============================================================================
