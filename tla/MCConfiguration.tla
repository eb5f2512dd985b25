-------------------------- MODULE MCConfiguration ---------------------------
(***************************************************************************)
(* Instances of Configuration for TLC: pages that change several settings  *)
(* at once, one that asks for a proxy without an address, and one that is  *)
(* refused.                                                                *)
(***************************************************************************)
EXTENDS Configuration

MCConfAccounts == <<"b1", "b2">>

MCRequests ==
    {<<>>, [retry |-> 2, zone |-> 2, listen |-> 2], [proxy_on |-> 2, proxy |-> 2],
     [proxy_on |-> 2], [notify |-> 2, unlimited |-> 2],
     [zone |-> 1, port |-> 12, name |-> 2], [proxy_on |-> 1, listen |-> 1, proxy |-> 0],
     [retry |-> 99]}
=============================================================================
