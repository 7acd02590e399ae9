------------------------------ MODULE MCIdentity -------------------------------
(* Constants of Identity for TLC: functions a .cfg cannot hold.             *)
EXTENDS Identity

CONSTANTS v, n, v1, v2, n1, n2

MCKeysOf == (v :> {v1, v2}) @@ (n :> {n1, n2})
MCFirst  == (v :> v1) @@ (n :> n1)
MCRank   == (v :> 1) @@ (n :> 2)

=============================================================================
