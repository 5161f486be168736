---------------------------- MODULE MCSheetReading ----------------------------
(* Tabs of up to three rows under one or two header rows.  The rows have   *)
(* one thing each that the code tells apart: numbers that do not parse,    *)
(* systems to skip, and distances missing, zero, negative, NaN, too long   *)
(* or without a decimal point.  The last layout starts with a variant that    *)
(* has no checks, as one just added has none.                              *)
EXTENDS SheetReading

CONSTANTS MCBad, MCNaN, MCUnknown

MCEmpty == ""
MCSkipped == {"", "-", "N/A"}
MCAtoi == [c \in Cell |->
    CASE c = "0" -> 0 [] c = "50" -> 50 [] c = "-1" -> -1 [] c = "150" -> 150 [] OTHER -> MCBad]
MCParseFloat == [c \in Cell |->
    CASE c = "0" -> 0 [] c = "50" -> 50000 [] c = "-1" -> -1000 [] c = "150" -> 150000
      [] c = "19,5" -> 19500 [] c = "NaN" -> MCNaN [] OTHER -> MCBad]
MCCell == {"", "-", "N/A", "A", "B", "System", "n", "0", "50", "-1", "150", "19,5", "NaN"}

Sample == {
    <<"A", "0", "50", "19,5">>, <<"A", "50", "0", "0">>, <<"B", "50", "0", "">>,
    <<"B", "0", "50", "0">>, <<"A", "0", "0", "150">>, <<"-", "0", "50", "n">>,
    <<"A", "n", "0", "50">>, <<"B", "0", "0", "50">>, <<"B", "50">>,
    <<"B", "150", "150", "-1">>, <<"A", "", "0", "0">>, <<"A", "0", "0", "NaN">>}
Title == <<"System", "0", "n">>
MCTab == UNION {{<<Title>> \o rest, <<Title, Title>> \o rest} :
                    rest \in UNION {[1..k -> Sample] : k \in 0..3}}

Column(header, checks) ==
    [header |-> header, sys |-> 0, z |-> 1, count |-> 2, dist |-> 3, checks |-> checks]
One == Column(0, {[col |-> 0, row |-> 0, value |-> "System"], [col |-> 0, row |-> 1, value |-> "A"]})
Two == Column(1, {[col |-> 2, row |-> 1, value |-> "n"]})
MCLayout == {<<One, Two>>, <<Column(1, {}), One>>}

MCPlace == {[y |-> 0], [y |-> 25]}
=============================================================================
