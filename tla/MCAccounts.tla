------------------------------ MODULE MCAccounts ------------------------------
(* Two people with one customer id, as a checksum may give them.  The      *)
(* other id is that of somebody who shares a name with one of them, as all *)
(* do who come from Frontier, and who has logged in before.                *)
EXTENDS Accounts, TLC
CONSTANTS p1, p2, n1, n2, i1, i2, r1, r2
MCNameOf == (p1 :> n1) @@ (p2 :> n2)
MCIdOf == (p1 :> i1) @@ (p2 :> i1)
MCSurveys == (r1 :> <<n1, n2>>) @@ (r2 :> <<n2, n1>>)
=============================================================================
