------------------------------ MODULE MCZSamples ------------------------------
(* Three requests on two projects, one of which is yet to be added.  A     *)
(* DELETE visits the rows upwards and the list is inserted downwards, so   *)
(* that replacements can wait for one another in a circle.                 *)
EXTENDS ZSamples, TLC

CONSTANTS p1, p2, r1, r2, r3
MCList == {<<>>, <<2, 1>>}
Symmetric == Permutations(Request)
=============================================================================
