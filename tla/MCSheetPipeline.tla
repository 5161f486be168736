--------------------------- MODULE MCSheetPipeline ---------------------------
(***************************************************************************)
(* A folder of two files and up to three tabs; two systems, two EDSM ids,  *)
(* and surveys chosen so that tabs repeat one another, share systems, and  *)
(* are refused by the database.                                            *)
(***************************************************************************)
EXTENDS SheetPipeline, TLC

CONSTANTS a, b, c1

TwoNames == {a, b}
OneCmdr == {c1}

SurveysOf(sets) == {[points |-> s, bad |-> {}, cmdr |-> c1] : s \in sets}

(* A survey of one system and of both; one whose point the table refuses,  *)
(* one whose commander it refuses.                                         *)
Surveys ==
    SurveysOf({{a}, {a, b}}) \cup
    {[points |-> {b}, bad |-> {b}, cmdr |-> c1], [points |-> {b}, bad |-> {}, cmdr |-> "toolong"]}

Interchangeable == Permutations(EdsmId)
=============================================================================
