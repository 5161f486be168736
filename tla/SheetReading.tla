----------------------------- MODULE SheetReading -----------------------------
(***************************************************************************)
(* What becomes of the cells of one tab: the variant it is read with       *)
(* (pkg/vsds/sheetvariations.go), the points read from its rows            *)
(* (pkg/vsds/densitysheet.go), which of several points of one system is    *)
(* kept (pkg/vsds/types/types.go), and whether the constraints of          *)
(* vsds.surveypoints accept the survey.                                    *)
(*                                                                         *)
(* Rows and columns count from 0.  Distances are in thousandths of a light *)
(* year, coordinates and z samples in light years.                         *)
(***************************************************************************)
EXTENDS Integers, Sequences, FiniteSets

CONSTANTS
    Cell,        \* contents of a cell
    Empty,       \* the empty string
    Skipped,     \* skipSysNames
    Atoi,        \* the integer a cell holds, or Bad
    ParseFloat,  \* the distance a cell holds, NaN, or Bad
    Bad, NaN,
    Tab,         \* tabs: rows of cells, not all of the same length
    Layout,      \* lists of variants, as FetchVariants returns them
    Place,       \* coordinates of systems, as far as they are used
    Unknown      \* no system of that name was found

Name == Cell \ Skipped
Variant == [header : Nat, sys : Nat, z : Nat, count : Nat, dist : Nat,
            checks : SUBSET [col : Nat, row : Nat, value : Cell \ {Empty}]]
Point == [name : Name, z : Int, count : Int, dist : Int \cup {NaN}]

ASSUME CellAssumption == Empty \in Skipped /\ Skipped \subseteq Cell
ASSUME NumberAssumption ==
    /\ Bad \notin Int /\ NaN \notin Int /\ NaN # Bad
    /\ Atoi \in [Cell -> Int \cup {Bad}] /\ ParseFloat \in [Cell -> Int \cup {NaN, Bad}]
    /\ Atoi[Empty] = Bad /\ ParseFloat[Empty] = Bad
ASSUME TabAssumption == Tab \subseteq Seq(Seq(Cell))
ASSUME LayoutAssumption == Layout \subseteq Seq(Variant)
ASSUME PlaceAssumption == Place \subseteq [y : Int] /\ Unknown \notin Place

VARIABLES
    tab, layout, \* the input
    pc,          \* the step
    v,           \* the variant Identify tries, then the one it found
    row,         \* i, the row ParseSheet reads
    points,      \* SurveyPoints
    system,      \* systems: [Name -> where Lookup found it]
    done, best   \* Normalize: points visited, and the best index by name

vars == <<tab, layout, pc, v, row, points, system, done, best>>

Full == 20000    \* the longest distance a sample may have

TypeOK ==
    /\ tab \in Seq(Seq(Cell)) /\ layout \in Seq(Variant)
    /\ pc \in {"identify", "parse", "lookup", "normalize", "store", "stored", "failed"}
    /\ v \in 1..Len(layout) + 1
    /\ pc \notin {"identify", "failed"} => v <= Len(layout)
    /\ row \in Nat
    /\ points \in Seq(Point) 
    /\ \A k \in DOMAIN points : points[k].dist = NaN \/ points[k].dist <= Full
    /\ system \in [Name -> Place \cup {Unknown}]
    /\ done \in 0..Len(points)
    /\ best \in [Name -> 0..done]

Init ==
    /\ tab \in Tab /\ layout \in Layout
    /\ pc = "identify" /\ v = 1 /\ row = 0 /\ points = <<>>
    /\ system = [n \in Name |-> Unknown]
    /\ done = 0 /\ best = [n \in Name |-> 0]

-----------------------------------------------------------------------------
(* Identify.                                                               *)

Get(r, c) ==
    IF r < Len(tab) THEN (IF c < Len(tab[r + 1]) THEN tab[r + 1][c + 1] ELSE Empty) ELSE Empty

Holds(check) == Len(tab) > check.row /\ Get(check.row, check.col) = check.value

(* The rows below the header, up to the first without a z sample.          *)
Body(sv) == {r \in sv.header + 1 .. Len(tab) - 1 :
                 \A q \in sv.header + 1 .. r : Get(q, sv.z) # Empty}

(* A row that counts as data.  An empty distance does not, nor do NaN and  *)
(* 50 systems.                                                             *)
HasData(sv, r) ==
    /\ Get(r, sv.sys) \notin Skipped
    /\ \/ Atoi[Get(r, sv.count)] \in 0..49
       \/ ParseFloat[Get(r, sv.dist)] \in 0..Full

Eval(sv) ==
    /\ \A check \in sv.checks : Holds(check)
    /\ \E r \in Body(sv) : HasData(sv, r)

(* EvalChecks, and what the validation of the variant dialog makes of it.  *)
EvalChecks_Swapped(sv) ==     \* mutant: row and column swapped
    [check \in sv.checks |-> Get(check.col, check.row) = check.value]

EvalChecks(sv) == [check \in sv.checks |-> Get(check.row, check.col) = check.value]

Matched(sv) == \A check \in sv.checks : EvalChecks(sv)[check]

Identify ==
    /\ pc = "identify"
    /\ \/ /\ v > Len(layout) /\ pc' = "failed" /\ UNCHANGED <<v, row>>
       \/ /\ v <= Len(layout) /\ Eval(layout[v])
          /\ pc' = "parse" /\ row' = layout[v].header + 1 /\ UNCHANGED v
       \/ /\ v <= Len(layout) /\ ~Eval(layout[v])
          /\ v' = v + 1 /\ UNCHANGED <<pc, row>>
    /\ UNCHANGED <<tab, layout, points, system, done, best>>

-----------------------------------------------------------------------------
(* ParseSheet, row by row.                                                 *)

Used == layout[v]
ZCell == Get(row, Used.z)
CountCell == Get(row, Used.count)
DistCell == Get(row, Used.dist)
NameCell == Get(row, Used.sys)

(* An empty sample reaches all the way; a distance between 100 and 200     *)
(* lacks its decimal point.  NaN compares with nothing and stays.          *)
Repaired_NoCap(count, dist) ==     \* mutant: only the forgotten point
    IF dist = NaN THEN NaN
    ELSE IF count = 0 /\ dist < 10 THEN Full
    ELSE IF dist > 100000 /\ dist < 200000 THEN dist \div 10
    ELSE dist

Repaired_NoEmpty(count, dist) ==   \* mutant: empty samples are not special
    IF dist = NaN THEN NaN
    ELSE IF dist > 100000 /\ dist < 200000 THEN dist \div 10
    ELSE IF dist > Full THEN Full
    ELSE dist

Repaired(count, dist) ==
    IF dist = NaN THEN NaN
    ELSE IF count = 0 /\ dist < 10 THEN Full
    ELSE IF dist > 100000 /\ dist < 200000 THEN dist \div 10
    ELSE IF dist > Full THEN Full
    ELSE dist

Distance == IF DistCell = Empty THEN Full ELSE ParseFloat[DistCell]

Numbers == Atoi[ZCell] # Bad /\ Atoi[CountCell] # Bad

ReadRow ==
    /\ pc = "parse" /\ row < Len(tab) /\ ZCell # Empty
    /\ row' = row + 1
    /\ \/ ~Numbers /\ UNCHANGED <<pc, points>>
       \/ Numbers /\ Distance = Bad /\ pc' = "failed" /\ UNCHANGED points
       \/ /\ Numbers /\ Distance # Bad /\ NameCell \in Skipped
          /\ UNCHANGED <<pc, points>>
       \/ /\ Numbers /\ Distance # Bad /\ NameCell \notin Skipped
          /\ points' = Append(points,
                 [name |-> NameCell, z |-> Atoi[ZCell], count |-> Atoi[CountCell],
                  dist |-> Repaired(Atoi[CountCell], Distance)])
          /\ UNCHANGED pc
    /\ UNCHANGED <<tab, layout, v, system, done, best>>

EndOfRows ==
    /\ pc = "parse" /\ (row >= Len(tab) \/ ZCell = Empty)
    /\ pc' = "lookup"
    /\ UNCHANGED <<tab, layout, v, row, points, system, done, best>>

-----------------------------------------------------------------------------
(* Hash, Lookup and Normalize.                                             *)

(* What Survey.Hash writes of a list of points: they are sorted by name,   *)
(* and those of one name come in any order, the sort not being stable.     *)
Hashed(list, before) ==
    {[i \in DOMAIN list |-> list[at[i]]] : at \in
        {p \in [DOMAIN list -> DOMAIN list] :
            /\ \A i \in DOMAIN list : \E j \in DOMAIN list : p[j] = i
            /\ \A i, j \in DOMAIN list : i < j =>
                   <<list[p[j]].name, list[p[i]].name>> \notin before}}

Names == {points[k].name : k \in DOMAIN points}

(* SystemCache.Lookup finds some of the systems.  Rows that come back      *)
(* under another name than was asked for find none, but the tab goes on;   *)
(* it is given up when an error leaves no rows at all.                     *)
Lookup ==
    /\ pc = "lookup"
    /\ \/ /\ \E found \in [Names -> Place \cup {Unknown}] :
                 system' = [n \in Name |-> IF n \in Names THEN found[n] ELSE Unknown]
          /\ pc' = "normalize"
       \/ Names # {} /\ pc' = "failed" /\ UNCHANGED system
    /\ UNCHANGED <<tab, layout, v, row, points, done, best>>

(* A savepoint before or after the lookup, the project, the commander or   *)
(* an insert fails by itself.                                              *)
GiveUp ==
    /\ pc \in {"lookup", "store"}
    /\ pc' = "failed"
    /\ UNCHANGED <<tab, layout, v, row, points, system, done, best>>

Abs(n) == IF n < 0 THEN -n ELSE n

(* process() hands Normalize the Y coordinates as systemZ, where the       *)
(* comment on Normalize speaks of the real Z.  Points of an unknown system *)
(* are all as far away as each other.                                      *)
Dist(p) == IF system[p.name] = Unknown THEN 0 ELSE Abs(system[p.name].y - p.z)

Nearer_OrSame(p, q) == Dist(p) <= Dist(q)     \* mutant: a tie goes to the last

Nearer(p, q) == Dist(p) < Dist(q)

NormalizePoint ==
    /\ pc = "normalize" /\ done < Len(points)
    /\ done' = done + 1
    /\ LET p == points[done + 1]
       IN  IF best[p.name] = 0 \/ Nearer(p, points[best[p.name]])
           THEN best' = [best EXCEPT ![p.name] = done + 1]
           ELSE UNCHANGED best
    /\ UNCHANGED <<tab, layout, pc, v, row, points, system>>

EndOfPoints ==
    /\ pc = "normalize" /\ done = Len(points)
    /\ pc' = "store"
    /\ UNCHANGED <<tab, layout, v, row, points, system, done, best>>

Kept == {k \in DOMAIN points : best[points[k].name] = k}

(* AddSurvey: points of unknown systems are passed over.                   *)
Inserted == {k \in Kept : system[points[k].name] # Unknown}

Accepted ==
    /\ \A k \in Inserted : points[k].count \in 0..50 /\ points[k].dist \in 1..Full
    /\ \A k, l \in Inserted : points[k].z = points[l].z \/ points[k].name = points[l].name => k = l

AddSurvey ==
    /\ pc = "store"
    /\ pc' = IF Accepted THEN "stored" ELSE "failed"
    /\ UNCHANGED <<tab, layout, v, row, points, system, done, best>>

(* The tab is dealt with.                                                  *)
Finished == pc \in {"stored", "failed"} /\ UNCHANGED vars

Next ==
    \/ Identify \/ ReadRow \/ EndOfRows \/ Lookup \/ NormalizePoint \/ EndOfPoints
    \/ AddSurvey \/ GiveUp \/ Finished

Spec == Init /\ [][Next]_vars
-----------------------------------------------------------------------------
(* Properties.                                                             *)

(* However the distance was written, left out, or lost its decimal point:  *)
(* the only distances the constraint of surveypoints refuses are NaN,      *)
(* which no repair touches, and those of a sample with systems in it and a *)
(* distance of 0 or less.                                                  *)
DistancesFit == \A k \in DOMAIN points : points[k].dist \notin 1..Full =>
    points[k].dist = NaN \/ (points[k].count # 0 /\ points[k].dist <= 0)

Same(k) == {l \in DOMAIN points : points[l].name = points[k].name}

(* Normalize keeps one point of every system, nearer to the system in the  *)
(* coordinate it is handed than those before it and no farther than those  *)
(* after it.  That the coordinate is not the one its comment promises is   *)
(* another matter (types.go:25-29, processor.go:328).                      *)
NearestKept == pc \in {"store", "stored"} => \A k \in DOMAIN points :
    Cardinality(Same(k) \cap Kept) = 1 /\ (k \in Kept <=>
        \A l \in Same(k) : IF l < k THEN Dist(points[k]) < Dist(points[l])
                                    ELSE Dist(points[k]) <= Dist(points[l]))

(* For a tab with data, the validation an administrator sees and the run   *)
(* agree on whether the variant fits: they test the checks with different  *)
(* code.                                                                   *)
ValidationAgrees == \A k \in DOMAIN layout :
    (\E r \in Body(layout[k]) : HasData(layout[k], r)) =>
        (Eval(layout[k]) <=> Matched(layout[k]))
=============================================================================
