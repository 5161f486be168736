-------------------------- MODULE SheetReadingProofs --------------------------
(***************************************************************************)
(* For tabs of any length and any table of numbers: what ParseSheet reads  *)
(* are the readable rows, only NaN and samples with systems in them can    *)
(* have a distance the database refuses, Normalize keeps the nearest point *)
(* of each system, and the survey hash does not depend on the order of     *)
(* rows.                                                                   *)
(***************************************************************************)
EXTENDS SheetReading, FunctionTheorems, FiniteSetTheorems, TLAPS

-----------------------------------------------------------------------------
(* A cell is a member of Cell wherever it is asked for.                    *)
LEMMA GetCell ==
    ASSUME TypeOK, NEW r \in Nat, NEW c \in Nat
    PROVE  Get(r, c) \in Cell
<1>1. CASE r < Len(tab) /\ c < Len(tab[r + 1])
  <2>1. r + 1 \in 1..Len(tab) /\ tab[r + 1] \in Seq(Cell)
    BY <1>1 DEF TypeOK
  <2>2. c + 1 \in 1..Len(tab[r + 1])
    BY <1>1, <2>1
  <2>3. tab[r + 1][c + 1] \in Cell
    BY <2>1, <2>2
  <2>. QED
    BY <1>1, <2>3 DEF Get
<1>2. CASE ~(r < Len(tab) /\ c < Len(tab[r + 1]))
  BY <1>2, CellAssumption DEF Get
<1>. QED
  BY <1>1, <1>2

(* The parts of a variant and of a point.                                  *)
LEMMA VariantFields ==
    ASSUME NEW sv \in Variant
    PROVE  sv.header \in Nat /\ sv.sys \in Nat /\ sv.z \in Nat /\ sv.count \in Nat /\ sv.dist \in Nat
  BY DEF Variant

LEMMA PointFields ==
    ASSUME TypeOK, NEW k \in 1..Len(points)
    PROVE  /\ k \in DOMAIN points /\ points[k] \in Point
           /\ points[k].name \in Name /\ points[k].z \in Int
<1>1. k \in DOMAIN points /\ points[k] \in Point
  BY DEF TypeOK
<1>. QED
  BY <1>1 DEF Point

(* What the repair of distances returns, whatever number it is given.      *)
LEMMA NumberRepaired ==
    ASSUME NEW count \in Int, NEW dist \in Int
    PROVE  /\ Repaired(count, dist) \in Int
           /\ Repaired(count, dist) <= Full
           /\ Repaired(count, dist) \notin 1..Full => count # 0 /\ Repaired(count, dist) <= 0
<1>0. dist # NaN
  BY NumberAssumption
<1>1. CASE count = 0 /\ dist < 10
  BY <1>0, <1>1 DEF Repaired, Full
<1>2. CASE ~(count = 0 /\ dist < 10) /\ dist > 100000 /\ dist < 200000
  <2>1. Repaired(count, dist) = dist \div 10
    BY <1>0, <1>2, SMTT(30) DEF Repaired
  <2>2. dist \div 10 \in 1..Full
    BY <1>2, SMTT(30) DEF Full
  <2>3. PICK r \in 1..Full : Repaired(count, dist) = r
    BY <2>1, <2>2, Zenon
  <2>4. r \in Int /\ r <= Full
    BY SMTT(30) DEF Full
  <2>. QED
    BY <2>3, <2>4, Zenon
<1>3. CASE ~(count = 0 /\ dist < 10) /\ ~(dist > 100000 /\ dist < 200000)
  <2>1. CASE dist > 20000
    <3>1. Repaired(count, dist) = 20000
      BY <1>0, <1>3, <2>1 DEF Repaired, Full
    <3>. QED
      BY <3>1 DEF Full
  <2>2. CASE ~(dist > 20000)
    <3>1. Repaired(count, dist) = dist
      BY <1>0, <1>3, <2>2 DEF Repaired, Full
    <3>2. dist \notin 1..20000 => count # 0 /\ dist <= 0
      BY <1>3, <2>2
    <3>. QED
      BY <2>2, <3>1, <3>2 DEF Full
  <2>. QED
    BY <2>1, <2>2
<1>. QED
  BY <1>1, <1>2, <1>3

(* A distance the constraint takes, or one of those it must refuse.        *)
Fits(p) == p.dist \notin 1..Full => p.dist = NaN \/ (p.count # 0 /\ p.dist <= 0)
Short(p) == p.dist = NaN \/ p.dist <= Full

LEMMA RepairedFits ==
    ASSUME NEW count \in Int, NEW dist \in Int \cup {NaN}
    PROVE  /\ Repaired(count, dist) \in Int \cup {NaN}
           /\ Repaired(count, dist) = NaN \/ Repaired(count, dist) <= Full
           /\ Repaired(count, dist) \notin 1..Full =>
                  Repaired(count, dist) = NaN \/ (count # 0 /\ Repaired(count, dist) <= 0)
<1>1. CASE dist = NaN
  BY <1>1 DEF Repaired
<1>2. CASE dist \in Int
  BY <1>2, NumberRepaired
<1>. QED
  BY <1>1, <1>2

(* The numbers of a row that ReadRow turns into a point.                   *)
LEMMA RowNumbers ==
    ASSUME TypeOK, pc = "parse", Numbers, Distance # Bad, NameCell \notin Skipped
    PROVE  /\ NameCell \in Name /\ Atoi[ZCell] \in Int
           /\ Atoi[CountCell] \in Int /\ Distance \in Int \cup {NaN}
<1>1. v \in DOMAIN layout /\ layout[v] \in Variant
  BY DEF TypeOK
<1>2. /\ Used.z \in Nat /\ Used.count \in Nat /\ Used.dist \in Nat /\ Used.sys \in Nat
      /\ row \in Nat
  BY <1>1 DEF Used, Variant, TypeOK
<1>3. ZCell \in Cell /\ CountCell \in Cell /\ DistCell \in Cell /\ NameCell \in Cell
  BY <1>2, GetCell DEF ZCell, CountCell, DistCell, NameCell
<1>4. Atoi[ZCell] \in Int /\ Atoi[CountCell] \in Int
  BY <1>3, NumberAssumption DEF Numbers
<1>5. Distance \in Int \cup {NaN}
  BY <1>3, NumberAssumption DEF Distance, Full
<1>. QED
  BY <1>3, <1>4, <1>5 DEF Name

(* The point ReadRow appends.                                              *)
LEMMA NewPoint ==
    ASSUME TypeOK, pc = "parse", Numbers, Distance # Bad, NameCell \notin Skipped,
           NEW p, p = [name |-> NameCell, z |-> Atoi[ZCell], count |-> Atoi[CountCell],
                       dist |-> Repaired(Atoi[CountCell], Distance)]
    PROVE  p \in Point /\ Short(p) /\ Fits(p)
<1>1. /\ Repaired(Atoi[CountCell], Distance) \in Int \cup {NaN}
      /\ p.dist = Repaired(Atoi[CountCell], Distance) /\ p.count = Atoi[CountCell]
  BY RowNumbers, RepairedFits
<1>2. p \in Point
  BY <1>1, RowNumbers DEF Point
<1>. QED
  BY <1>1, <1>2, RowNumbers, RepairedFits DEF Short, Fits

-----------------------------------------------------------------------------
(* Type correctness.                                                       *)

LEMMA TypeInit == Init => TypeOK
<1>. SUFFICES ASSUME Init PROVE TypeOK
  OBVIOUS
<1>1. tab \in Seq(Seq(Cell)) /\ layout \in Seq(Variant)
  BY TabAssumption, LayoutAssumption DEF Init
<1>2. v \in 1..Len(layout) + 1
  BY <1>1 DEF Init
<1>3. points \in Seq(Point) /\ \A k \in DOMAIN points : Short(points[k])
  BY DEF Init
<1>4. done \in 0..Len(points) /\ best \in [Name -> 0..done]
  BY DEF Init
<1>. QED
  BY <1>1, <1>2, <1>3, <1>4 DEF Init, TypeOK, Short

LEMMA TypeStep == TypeOK /\ [Next]_vars => TypeOK'
<1>. SUFFICES ASSUME TypeOK, [Next]_vars PROVE TypeOK'
  OBVIOUS
<1>. USE DEF TypeOK
<1>1. CASE Identify
  <2>1. CASE v > Len(layout) /\ pc' = "failed" /\ UNCHANGED <<v, row>>
    BY <1>1, <2>1 DEF Identify
  <2>2. CASE /\ v <= Len(layout) /\ Eval(layout[v])
             /\ pc' = "parse" /\ row' = layout[v].header + 1 /\ UNCHANGED v
    <3>1. layout[v] \in Variant
      BY <2>2
    <3>2. row' \in Nat
      BY <2>2, <3>1, VariantFields
    <3>. QED
      BY <1>1, <2>2, <3>2 DEF Identify
  <2>3. CASE v <= Len(layout) /\ v' = v + 1 /\ UNCHANGED <<pc, row>>
    BY <1>1, <2>3 DEF Identify
  <2>. QED
    BY <1>1, <2>1, <2>2, <2>3 DEF Identify
<1>2. CASE ReadRow
  <2>1. CASE UNCHANGED points
    BY <1>2, <2>1 DEF ReadRow
  <2>2. CASE /\ Numbers /\ Distance # Bad /\ NameCell \notin Skipped /\ UNCHANGED pc
             /\ points' = Append(points,
                    [name |-> NameCell, z |-> Atoi[ZCell], count |-> Atoi[CountCell],
                     dist |-> Repaired(Atoi[CountCell], Distance)])
    <3>. DEFINE p == [name |-> NameCell, z |-> Atoi[ZCell], count |-> Atoi[CountCell],
                      dist |-> Repaired(Atoi[CountCell], Distance)]
    <3>1. p \in Point /\ Short(p)
      BY <1>2, <2>2, NewPoint, SMTT(30) DEF ReadRow
    <3>. HIDE DEF p
    <3>2. points' \in Seq(Point) /\ Len(points') = Len(points) + 1
      BY <2>2, <3>1 DEF p
    <3>3. \A k \in DOMAIN points' : points'[k].dist = NaN \/ points'[k].dist <= Full
      BY <2>2, <3>1, SMTT(30) DEF p, Short
    <3>4. done' \in 0..Len(points') /\ best' \in [Name -> 0..done']
      BY <1>2, <3>2 DEF ReadRow
    <3>. QED
      BY <1>2, <2>2, <3>2, <3>3, <3>4 DEF ReadRow
  <2>. QED
    BY <1>2, <2>1, <2>2 DEF ReadRow
<1>3. CASE EndOfRows
  BY <1>3 DEF EndOfRows
<1>4. CASE Lookup
  <2>1. ASSUME NEW found \in [Names -> Place \cup {Unknown}],
               system' = [n \in Name |-> IF n \in Names THEN found[n] ELSE Unknown]
        PROVE  system' \in [Name -> Place \cup {Unknown}]
    BY <2>1
  <2>2. system' \in [Name -> Place \cup {Unknown}]
    BY <1>4, <2>1 DEF Lookup
  <2>. QED
    BY <1>4, <2>2 DEF Lookup
<1>5. CASE NormalizePoint
  <2>1. done' \in 0..Len(points) /\ done' = done + 1
    BY <1>5 DEF NormalizePoint
  <2>2. best' \in [Name -> 0..done']
    <3>1. CASE UNCHANGED best
      BY <2>1, <3>1
    <3>2. CASE best' = [best EXCEPT ![points[done + 1].name] = done + 1]
      <4>1. best \in [Name -> 0..done'] /\ done + 1 \in 0..done'
        BY <2>1
      <4>. QED
        BY <3>2, <4>1
    <3>. QED
      BY <1>5, <3>1, <3>2 DEF NormalizePoint
  <2>. QED
    BY <1>5, <2>1, <2>2 DEF NormalizePoint
<1>6. CASE EndOfPoints
  BY <1>6 DEF EndOfPoints
<1>7. CASE AddSurvey
  BY <1>7 DEF AddSurvey
<1>8. CASE GiveUp
  BY <1>8 DEF GiveUp
<1>9. CASE UNCHANGED vars
  BY <1>9 DEF vars
<1>. QED
  BY <1>1, <1>2, <1>3, <1>4, <1>5, <1>6, <1>7, <1>8, <1>9 DEF Next, Finished

(* Every distance that is read is at most the longest one allowed, and     *)
(* every index and counter stays in range, for tabs of any size.           *)
THEOREM TypeCorrect == Spec => []TypeOK
  BY TypeInit, TypeStep, PTL DEF Spec

-----------------------------------------------------------------------------
(* The constraint on distances refuses nothing but NaN and the zero or     *)
(* negative distances of samples with systems in them                      *)
(* (densitysheet.go:98-109).                                               *)
THEOREM DistancesFitHolds == Spec => []DistancesFit
<1>1. Init => DistancesFit
  BY DEF Init, DistancesFit
<1>2. TypeOK /\ DistancesFit /\ [Next]_vars => DistancesFit'
  <2>. SUFFICES ASSUME TypeOK, DistancesFit, [Next]_vars PROVE DistancesFit'
    OBVIOUS
  <2>1. CASE UNCHANGED points
    BY <2>1, Zenon DEF DistancesFit
  <2>2. CASE ReadRow /\ ~UNCHANGED points
    <3>. DEFINE p == [name |-> NameCell, z |-> Atoi[ZCell], count |-> Atoi[CountCell],
                      dist |-> Repaired(Atoi[CountCell], Distance)]
    <3>1. points' = Append(points, p)
      BY <2>2 DEF ReadRow
    <3>2. Fits(p)
      BY <2>2, NewPoint DEF ReadRow
    <3>. HIDE DEF p
    <3>3. points \in Seq(Point)
      BY DEF TypeOK
    <3>4. ASSUME NEW k \in DOMAIN points', points'[k].dist \notin 1..Full
          PROVE  points'[k].dist = NaN \/ (points'[k].count # 0 /\ points'[k].dist <= 0)
      <4>1. points'[k] = p \/ (k \in DOMAIN points /\ points'[k] = points[k])
        BY <3>1, <3>3
      <4>2. CASE points'[k] = p
        BY <3>2, <3>4, <4>2, Zenon DEF Fits
      <4>3. CASE k \in DOMAIN points /\ points'[k] = points[k]
        BY <3>4, <4>3, Zenon DEF DistancesFit
      <4>. QED
        BY <4>1, <4>2, <4>3
    <3>. QED
      BY <3>4, Zenon DEF DistancesFit
  <2>. QED
    BY <2>1, <2>2 DEF Next, Identify, EndOfRows, Lookup, NormalizePoint, EndOfPoints,
                      AddSurvey, GiveUp, Finished, vars
<1>. QED
  BY <1>1, <1>2, TypeCorrect, PTL DEF Spec
-----------------------------------------------------------------------------
(* Normalize: among the points visited so far, best is the first of the    *)
(* nearest ones of each system.                                            *)

BestSoFar(n) ==
    IF best[n] = 0 THEN \A k \in 1..done : points[k].name # n
    ELSE /\ points[best[n]].name = n
         /\ \A k \in 1..done : points[k].name = n =>
                IF k < best[n] THEN Dist(points[best[n]]) < Dist(points[k])
                ELSE Dist(points[best[n]]) <= Dist(points[k])

NormalizeInv ==
    /\ \A n \in Name : BestSoFar(n)
    /\ pc \in {"identify", "parse", "lookup"} => done = 0
    /\ pc \in {"store", "stored"} => done = Len(points)

LEMMA DistInt == ASSUME TypeOK, NEW k \in DOMAIN points PROVE Dist(points[k]) \in Int
<1>1. points[k] \in Point
  BY DEF TypeOK
<1>2. system[points[k].name] \in Place \cup {Unknown}
  BY <1>1 DEF TypeOK, Point
<1>. QED
  BY <1>1, <1>2, PlaceAssumption DEF Dist, Abs, Point

(* One iteration of Normalize's first loop.                                *)
LEMMA BestStep ==
    ASSUME TypeOK, NormalizeInv, NormalizePoint
    PROVE  \A n \in Name : BestSoFar(n)'
<1>. PICK j \in 1..Len(points) : j = done + 1
  BY DEF NormalizePoint, TypeOK
<1>. PICK p \in Point : p = points[j] /\ p.name \in Name
  BY PointFields
<1>0. j \in DOMAIN points
  BY PointFields
<1>1. \A k \in DOMAIN points : Dist(points[k])' = Dist(points[k])
  BY DEF NormalizePoint, Dist
<1>2. done' = j /\ points' = points /\ 1..done' = (1..done) \cup {j}
  BY DEF NormalizePoint, TypeOK
<1>3. \A k \in 1..done : k \in DOMAIN points /\ k < j
  BY DEF TypeOK
<1>4. ASSUME NEW n \in Name, n # p.name PROVE BestSoFar(n)'
  <2>1. best'[n] = best[n]
    BY <1>0, <1>4 DEF NormalizePoint, TypeOK
  <2>2. best[n] # 0 => best[n] \in DOMAIN points
    BY DEF TypeOK
  <2>3. BestSoFar(n)
    BY DEF NormalizeInv
  <2>. QED
    BY <1>1, <1>2, <1>3, <1>4, <2>1, <2>2, <2>3 DEF BestSoFar
<1>5. ASSUME NEW n \in Name, n = p.name PROVE BestSoFar(n)'
  <2>. PICK b \in 0..done : b = best[n]
    BY DEF TypeOK
  <2>1. BestSoFar(n)
    BY DEF NormalizeInv
  <2>2. \A k \in DOMAIN points : Dist(points[k]) \in Int
    BY DistInt
  <2>3. CASE b = 0
    <3>1. best'[n] = j
      BY <1>0, <1>5, <2>3 DEF NormalizePoint, TypeOK
    <3>2. \A k \in 1..done : points[k].name # n
      BY <2>1, <2>3 DEF BestSoFar
    <3>3. best'[n] # 0 /\ points'[best'[n]].name = n /\ Dist(points[j])' \in Int
      BY <1>0, <1>1, <1>2, <1>5, <2>2, <3>1
    <3>4. \A k \in 1..done' : points'[k].name = n => k = j
      BY <1>2, <3>2
    <3>. QED
      BY <3>1, <3>3, <3>4 DEF BestSoFar
  <2>4. CASE b # 0 /\ Dist(p) < Dist(points[b])
    <3>1. best'[n] = j
      BY <1>0, <1>5, <2>4 DEF NormalizePoint, Nearer, TypeOK
    <3>2. b \in DOMAIN points /\ b < j
      BY <1>3, <2>1, <2>4
    <3>3. \A k \in 1..done : points[k].name = n => Dist(p) < Dist(points[k])
      BY <1>0, <1>5, <1>3, <2>1, <2>2, <2>4, <3>2 DEF BestSoFar
    <3>4. best'[n] # 0 /\ points'[best'[n]].name = n /\ Dist(points[best[n]])' = Dist(p)
      BY <1>0, <1>1, <1>2, <1>5, <3>1
    <3>5. \A k \in 1..done : k < best'[n] /\ points'[k] = points[k]
                             /\ Dist(points[k])' = Dist(points[k])
      BY <1>1, <1>2, <1>3, <3>1
    <3>6. ASSUME NEW k \in 1..done', points'[k].name = n
          PROVE  IF k < best'[n] THEN Dist(points[best[n]])' < Dist(points[k])'
                 ELSE Dist(points[best[n]])' <= Dist(points[k])'
      <4>1. CASE k \in 1..done
        BY <3>3, <3>4, <3>5, <3>6, <4>1
      <4>2. CASE k = j
        <5>1. Dist(p) \in Int
          BY <1>0, <2>2
        <5>. QED
          BY <1>0, <1>1, <3>1, <3>4, <4>2, <5>1
      <4>. QED
        BY <1>2, <4>1, <4>2
    <3>. QED
      BY <3>4, <3>6 DEF BestSoFar
  <2>5. CASE b # 0 /\ ~(Dist(p) < Dist(points[b]))
    <3>1. best'[n] = b
      BY <1>0, <1>5, <2>5 DEF NormalizePoint, Nearer, TypeOK
    <3>2. b \in DOMAIN points /\ b < j
      BY <1>3, <2>1, <2>5
    <3>3. Dist(points[b]) <= Dist(p)
      BY <1>0, <1>5, <2>2, <2>5, <3>2
    <3>4. /\ points[b].name = n
          /\ \A k \in 1..done : points[k].name = n =>
                 IF k < b THEN Dist(points[b]) < Dist(points[k])
                 ELSE Dist(points[b]) <= Dist(points[k])
      BY <2>1, <2>5 DEF BestSoFar
    <3>5. best'[n] # 0 /\ points'[best'[n]].name = n /\ Dist(points[best[n]])' = Dist(points[b])
      BY <1>1, <1>2, <2>5, <3>1, <3>2, <3>4
    <3>6. ASSUME NEW k \in 1..done', points'[k].name = n
          PROVE  IF k < best'[n] THEN Dist(points[best[n]])' < Dist(points[k])'
                 ELSE Dist(points[best[n]])' <= Dist(points[k])'
      <4>1. CASE k \in 1..done
        <5>1. k \in DOMAIN points /\ points[k].name = n /\ Dist(points[k])' = Dist(points[k])
          BY <1>1, <1>2, <1>3, <3>6, <4>1
        <5>. QED
          BY <3>1, <3>4, <3>5, <4>1, <5>1
      <4>2. CASE k = j
        <5>1. ~(k < best'[n]) /\ Dist(points[k])' = Dist(p)
          BY <1>0, <1>1, <3>1, <3>2, <4>2
        <5>. QED
          BY <3>3, <3>5, <5>1
      <4>. QED
        BY <1>2, <4>1, <4>2
    <3>. QED
      BY <3>5, <3>6 DEF BestSoFar
  <2>. QED
    BY <2>3, <2>4, <2>5
<1>. QED
  BY <1>4, <1>5

LEMMA NormalizeStep == TypeOK /\ NormalizeInv /\ [Next]_vars => NormalizeInv'
<1>. SUFFICES ASSUME TypeOK, NormalizeInv, [Next]_vars PROVE NormalizeInv'
  OBVIOUS
<1>1. CASE NormalizePoint
  <2>1. \A n \in Name : BestSoFar(n)'
    BY <1>1, BestStep
  <2>. QED
    BY <1>1, <2>1 DEF NormalizePoint, NormalizeInv
<1>2. CASE pc \in {"identify", "parse", "lookup"} /\ UNCHANGED <<done, best>>
  <2>1. done = 0 /\ \A n \in Name : best[n] = 0
    BY <1>2 DEF NormalizeInv, TypeOK
  <2>2. \A n \in Name : BestSoFar(n)'
    BY <1>2, <2>1 DEF BestSoFar
  <2>3. pc' \notin {"store", "stored"}
    BY <1>2 DEF Next, Identify, ReadRow, EndOfRows, Lookup, NormalizePoint, EndOfPoints,
                AddSurvey, GiveUp, Finished, vars
  <2>. QED
    BY <1>2, <2>1, <2>2, <2>3 DEF NormalizeInv
<1>3. CASE pc \notin {"identify", "parse", "lookup"} /\ UNCHANGED <<points, system, done, best>>
           /\ pc' \notin {"identify", "parse", "lookup"}
           /\ (pc' \in {"store", "stored"} => done = Len(points))
  <2>1. \A n \in Name : BestSoFar(n)'
    BY <1>3 DEF NormalizeInv, BestSoFar, Dist
  <2>. QED
    BY <1>3, <2>1 DEF NormalizeInv
<1>. QED
  BY <1>1, <1>2, <1>3 DEF NormalizeInv, Next, Identify, ReadRow, EndOfRows, Lookup,
                          EndOfPoints, AddSurvey, GiveUp, Finished, vars

(* The loop's invariant at its end is the promise.                         *)
LEMMA NormalizeResult == TypeOK /\ NormalizeInv => NearestKept
<1>. SUFFICES ASSUME TypeOK, NormalizeInv, pc \in {"store", "stored"}, NEW k \in DOMAIN points
              PROVE  /\ Cardinality(Same(k) \cap Kept) = 1
                     /\ k \in Kept <=>
                            \A l \in Same(k) : IF l < k THEN Dist(points[k]) < Dist(points[l])
                                               ELSE Dist(points[k]) <= Dist(points[l])
  BY DEF NearestKept
<1>. DEFINE n == points[k].name
            b == best[n]
<1>1. done = Len(points) /\ 1..Len(points) = DOMAIN points
  BY DEF NormalizeInv, TypeOK
<1>2. n \in Name /\ BestSoFar(n)
  BY <1>1, PointFields DEF NormalizeInv
<1>3. b # 0 /\ b \in DOMAIN points /\ points[b].name = n
  BY <1>1, <1>2 DEF BestSoFar, TypeOK
<1>4. Same(k) \cap Kept = {b}
  BY <1>3 DEF Same, Kept
<1>5. \A l \in Same(k) : IF l < b THEN Dist(points[b]) < Dist(points[l])
                         ELSE Dist(points[b]) <= Dist(points[l])
  BY <1>1, <1>2, <1>3 DEF BestSoFar, Same
<1>6. k \in Same(k) /\ b \in Same(k) /\ (k \in Kept <=> k = b)
  BY <1>3 DEF Same, Kept
<1>7. \A l \in DOMAIN points : Dist(points[l]) \in Int
  BY DistInt
<1>8. ASSUME k # b,
             \A l \in Same(k) : IF l < k THEN Dist(points[k]) < Dist(points[l])
                                ELSE Dist(points[k]) <= Dist(points[l])
      PROVE  FALSE
  BY <1>3, <1>5, <1>6, <1>7, <1>8 DEF TypeOK
<1>9. Cardinality({b}) = 1
  BY FS_Singleton
<1>. QED
  BY <1>4, <1>5, <1>6, <1>8, <1>9

(* Normalize keeps exactly one point of each system, the first of those    *)
(* whose z sample is nearest to the coordinate it is given, for surveys of *)
(* any length (types.go:30-64).                                            *)
THEOREM NearestKeptHolds == Spec => []NearestKept
<1>1. Init => NormalizeInv
  BY DEF Init, NormalizeInv, BestSoFar
<1>. QED
  BY <1>1, NormalizeStep, NormalizeResult, TypeCorrect, PTL DEF Spec
-----------------------------------------------------------------------------
(* One check: a cell the tab does not have reads as the empty string, and  *)
(* no check asks for that.                                                 *)
LEMMA CheckAgrees ==
    ASSUME NEW sv \in Variant, NEW check \in sv.checks
    PROVE  Holds(check) <=> EvalChecks(sv)[check]
<1>1. check.row \in Nat /\ check.value # Empty
  BY DEF Variant
<1>2. EvalChecks(sv)[check] <=> Get(check.row, check.col) = check.value
  BY DEF EvalChecks
<1>3. Get(check.row, check.col) = check.value => check.row < Len(tab)
  BY <1>1, Zenon DEF Get
<1>4. Len(tab) > check.row <=> check.row < Len(tab)
  OBVIOUS
<1>. QED
  BY <1>2, <1>3, <1>4 DEF Holds

(* The validation shown to an administrator and the run agree about every  *)
(* variant and every tab with data, though Eval tests the length of the    *)
(* tab and EvalChecks relies on the empty string it reads beyond the end   *)
(* (sheetvariations.go:86-135).                                            *)
THEOREM ValidationAgreesHolds == Spec => []ValidationAgrees
<1>1. TypeOK => ValidationAgrees
  <2>. SUFFICES ASSUME TypeOK, NEW k \in DOMAIN layout,
                       \E r \in Body(layout[k]) : HasData(layout[k], r)
                PROVE  Eval(layout[k]) <=> Matched(layout[k])
    BY DEF ValidationAgrees
  <2>1. layout[k] \in Variant
    BY DEF TypeOK
  <2>2. \A check \in layout[k].checks : Holds(check) <=> EvalChecks(layout[k])[check]
    BY <2>1, CheckAgrees
  <2>. QED
    BY <2>2, Zenon DEF Eval, Matched
<1>. QED
  BY <1>1, TypeCorrect, PTL

-----------------------------------------------------------------------------
(* What ParseSheet reads.                                                  *)

(* A row as ParseSheet reads it: its numbers, its distance, its point.     *)
Countable(r) == Atoi[Get(r, Used.z)] # Bad /\ Atoi[Get(r, Used.count)] # Bad
DistanceOf(r) == IF Get(r, Used.dist) = Empty THEN Full ELSE ParseFloat[Get(r, Used.dist)]
Sampled(r) == Countable(r) /\ DistanceOf(r) # Bad /\ Get(r, Used.sys) \notin Skipped
PointOf(r) ==
    [name |-> Get(r, Used.sys), z |-> Atoi[Get(r, Used.z)], count |-> Atoi[Get(r, Used.count)],
     dist |-> Repaired(Atoi[Get(r, Used.count)], DistanceOf(r))]

Past == Used.header + 1 .. row - 1
Reading == pc \in {"parse", "lookup", "normalize", "store", "stored"}

(* The points, in the order of their rows.                                 *)
Listed(from) ==
    /\ from \in [DOMAIN points -> Past]
    /\ \A k, l \in DOMAIN points : k < l => from[k] < from[l]
    /\ \A k \in DOMAIN points : Sampled(from[k]) /\ points[k] = PointOf(from[k])
    /\ \A r \in Past : Sampled(r) => \E k \in DOMAIN points : from[k] = r

PastRows ==
    /\ row >= Used.header + 1 /\ Past \subseteq Body(Used)
    /\ \A r \in Past : Countable(r) => DistanceOf(r) # Bad
    /\ pc # "parse" => Past = Body(Used)

(* From the first row below the header to the first without a z sample,    *)
(* each row with numbers and a system's name is a point, once and in       *)
(* order, and nothing else is; no row with an unreadable distance is       *)
(* passed over.                                                            *)
RowsRead == Reading => PastRows /\ \E from \in [DOMAIN points -> Past] : Listed(from)

Unread == pc = "identify" => points = <<>>

LEMMA RowCells ==
    ASSUME TypeOK, Reading
    PROVE  /\ Used \in Variant /\ row \in Nat /\ Used.header \in Nat
           /\ ZCell = Get(row, Used.z) /\ (Numbers <=> Countable(row))
           /\ Distance = DistanceOf(row) /\ NameCell = Get(row, Used.sys)
<1>1. v \in DOMAIN layout
  BY DEF TypeOK, Reading
<1>2. Used \in Variant /\ row \in Nat
  BY <1>1 DEF Used, TypeOK
<1>. QED
  BY <1>2, VariantFields
     DEF ZCell, Numbers, CountCell, Distance, DistCell, DistanceOf, NameCell, Countable

(* The rows of a tab, and what they say, are the same in the next state.   *)
LEMMA RowsStay ==
    ASSUME UNCHANGED <<tab, layout, v>>
    PROVE  /\ Used' = Used /\ Body(Used)' = Body(Used)
           /\ \A r : /\ (Countable(r)' <=> Countable(r)) /\ DistanceOf(r)' = DistanceOf(r)
                     /\ (Sampled(r)' <=> Sampled(r)) /\ PointOf(r)' = PointOf(r)
<1>1. Used' = Used /\ \A r, c : Get(r, c)' = Get(r, c)
  BY DEF Used, Get
<1>. QED
  BY <1>1 DEF Body, Countable, DistanceOf, Sampled, PointOf

(* The row that is read becomes one of those behind.                       *)
LEMMA NextRow ==
    ASSUME TypeOK, RowsRead, ReadRow, pc' = "parse"
    PROVE  /\ Past' = Past \cup {row} /\ row \notin Past
           /\ Past' \subseteq Body(Used) /\ PastRows'
<1>1. Reading /\ PastRows /\ row < Len(tab) /\ ZCell # Empty /\ row' = row + 1
  BY DEF ReadRow, RowsRead, Reading
<1>2. UNCHANGED <<tab, layout, v>>
  BY DEF ReadRow
<1>3. Used.header \in Nat /\ row \in Nat /\ row >= Used.header + 1
  BY <1>1, RowCells DEF PastRows
<1>4. Past' = Used.header + 1 .. row
  BY <1>1, <1>2, <1>3, RowsStay DEF Past
<1>5. Past' = Past \cup {row} /\ row \notin Past
  <2>1. \A q : q \in Used.header + 1 .. row <=> q \in Past \/ q = row
    BY <1>3 DEF Past
  <2>2. Past' = Past \cup {row}
    BY <1>4, <2>1
  <2>3. row \notin Past
    BY <1>3 DEF Past
  <2>. QED
    BY <2>2, <2>3
<1>6. Past' \subseteq Body(Used)
  <2>1. Len(tab) \in Nat
    BY DEF TypeOK
  <2>2. \A q \in Used.header + 1 .. row : Get(q, Used.z) # Empty
    BY <1>1, <1>4, <1>5, RowCells DEF PastRows, Body
  <2>. QED
    BY <1>1, <1>3, <1>4, <2>1, <2>2 DEF Body
<1>7. Countable(row) => DistanceOf(row) # Bad
  BY <1>1, RowCells DEF ReadRow
<1>8. PastRows'
  <2>1. row' >= Used.header + 1
    BY <1>1, <1>3
  <2>. QED
    BY <1>1, <1>2, <1>5, <1>6, <1>7, <2>1, RowsStay DEF PastRows
<1>. QED
  BY <1>5, <1>6, <1>8

(* A row that is no sample is passed over.                                 *)
LEMMA RowPassed ==
    ASSUME TypeOK, RowsRead, ReadRow, pc' = "parse", ~Sampled(row), UNCHANGED points
    PROVE  \E from \in [DOMAIN points -> Past]' : Listed(from)'
<1>1. PICK from \in [DOMAIN points -> Past] : Listed(from)
  BY DEF ReadRow, RowsRead, Reading
<1>2. UNCHANGED <<tab, layout, v>>
  BY DEF ReadRow
<1>3. from \in [DOMAIN points' -> Past']
  BY <1>1, NextRow
<1>4. Listed(from)'
  BY <1>1, <1>2, <1>3, NextRow, RowsStay DEF Listed
<1>. QED
  BY <1>3, <1>4

LEMMA RowTaken ==
    ASSUME TypeOK, RowsRead, ReadRow, pc' = "parse", Sampled(row),
           points' = Append(points, PointOf(row))
    PROVE  \E from \in [DOMAIN points -> Past]' : Listed(from)'
<1>1. PICK from \in [DOMAIN points -> Past] : Listed(from)
  BY DEF ReadRow, RowsRead, Reading
<1>. DEFINE n == Len(points) + 1
<1>0. PICK longer : longer = [k \in 1..n |-> IF k = n THEN row ELSE from[k]]
  OBVIOUS
<1>2. UNCHANGED <<tab, layout, v>>
  BY DEF ReadRow
<1>3. /\ Len(points) \in Nat /\ DOMAIN points = 1..Len(points) /\ DOMAIN points' = 1..n
      /\ points'[n] = PointOf(row) /\ \A k \in 1..Len(points) : points'[k] = points[k]
  BY DEF TypeOK
<1>4. /\ longer[n] = row /\ \A k \in 1..Len(points) : longer[k] = from[k]
      /\ \A k \in 1..n : k = n \/ k \in 1..Len(points)
  BY <1>0, <1>3
<1>5. \A k \in 1..Len(points) : from[k] \in Past
  BY <1>1, <1>3
<1>6. longer \in [DOMAIN points' -> Past']
  BY <1>0, <1>3, <1>4, <1>5, NextRow
<1>7. \A k, l \in 1..n : k < l => longer[k] < longer[l]
  <2>. SUFFICES ASSUME NEW k \in 1..n, NEW l \in 1..n, k < l PROVE longer[k] < longer[l]
    OBVIOUS
  <2>1. k \in 1..Len(points)
    BY <1>3
  <2>2. CASE l = n
    <3>1. \A r \in Past : r < row
      BY RowCells DEF Past, ReadRow, Reading
    <3>. QED
      BY <1>4, <1>5, <2>1, <2>2, <3>1
  <2>3. CASE l # n
    BY <1>1, <1>3, <1>4, <2>1, <2>3 DEF Listed
  <2>. QED
    BY <2>2, <2>3
<1>8. \A k \in 1..n : Sampled(longer[k]) /\ points'[k] = PointOf(longer[k])
  BY <1>1, <1>3, <1>4 DEF Listed
<1>9. \A r \in Past' : Sampled(r) => \E k \in 1..n : longer[k] = r
  <2>. SUFFICES ASSUME NEW r \in Past', Sampled(r) PROVE \E k \in 1..n : longer[k] = r
    OBVIOUS
  <2>1. CASE r = row
    BY <1>3, <1>4, <2>1
  <2>2. CASE r \in Past
    <3>1. PICK k \in 1..Len(points) : from[k] = r
      BY <1>1, <1>3, <2>2 DEF Listed
    <3>. QED
      BY <1>3, <1>4, <3>1
  <2>. QED
    BY <2>1, <2>2, NextRow
<1>. HIDE DEF n
<1>10. Listed(longer)'
  <2>1. \A k, l \in DOMAIN points' : k < l => longer[k] < longer[l]
    BY <1>3, <1>7
  <2>2. \A k \in DOMAIN points' : Sampled(longer[k])' /\ points'[k] = PointOf(longer[k])'
    BY <1>2, <1>3, <1>8, RowsStay
  <2>3. \A r \in Past' : Sampled(r)' => \E k \in DOMAIN points' : longer[k] = r
    BY <1>2, <1>3, <1>9, RowsStay
  <2>. QED
    BY <1>6, <2>1, <2>2, <2>3 DEF Listed
<1>. QED
  BY <1>6, <1>10

LEMMA RowsKept ==
    ASSUME RowsRead, Reading, UNCHANGED <<tab, layout, v, row, points>>,
           Past = Body(Used)
    PROVE  PastRows' /\ \E from \in [DOMAIN points -> Past]' : Listed(from)'
<1>1. PICK from \in [DOMAIN points -> Past] : Listed(from)
  BY DEF RowsRead
<1>2. Past' = Past
  BY RowsStay DEF Past
<1>3. PastRows'
  BY <1>2, RowsStay DEF RowsRead, PastRows
<1>4. Listed(from)'
  BY <1>1, <1>2, RowsStay DEF Listed
<1>. QED
  BY <1>2, <1>3, <1>4

LEMMA RowsStep == TypeOK /\ Unread /\ RowsRead /\ [Next]_vars => RowsRead'
<1>. SUFFICES ASSUME TypeOK, Unread, RowsRead, [Next]_vars, Reading'
              PROVE  PastRows' /\ \E from \in [DOMAIN points -> Past]' : Listed(from)'
  BY DEF RowsRead
<1>1. CASE Identify
  <2>1. /\ pc' = "parse" /\ row' = Used.header + 1 /\ UNCHANGED <<tab, layout, v, points>>
        /\ pc = "identify" /\ v \in DOMAIN layout
    BY <1>1 DEF Identify, Reading, Used, TypeOK
  <2>2. Used' = Used /\ Used.header \in Nat
    BY <2>1, RowsStay, VariantFields DEF Used, TypeOK
  <2>3. Past' = {}
    BY <2>1, <2>2 DEF Past
  <2>4. points = <<>>
    BY <2>1 DEF Unread
  <2>5. PastRows'
    BY <2>1, <2>2, <2>3 DEF PastRows
  <2>6. << >> \in [DOMAIN points' -> Past'] /\ Listed(<< >>)'
    BY <2>1, <2>3, <2>4 DEF Listed
  <2>. QED
    BY <2>5, <2>6
<1>2. CASE ReadRow
  <2>1. pc' = "parse" /\ Reading
    BY <1>2 DEF ReadRow, Reading
  <2>2. CASE Sampled(row)
    <3>1. points' = Append(points, PointOf(row))
      BY <1>2, <2>1, <2>2, RowCells DEF ReadRow, Sampled, PointOf, ZCell, CountCell, Countable
    <3>. QED
      BY <1>2, <2>1, <2>2, <3>1, NextRow, RowTaken
  <2>3. CASE ~Sampled(row)
    <3>1. UNCHANGED points
      BY <1>2, <2>1, <2>3, RowCells DEF ReadRow, Sampled
    <3>. QED
      BY <1>2, <2>1, <2>3, <3>1, NextRow, RowPassed
  <2>. QED
    BY <2>2, <2>3
<1>3. CASE EndOfRows
  <2>1. Reading /\ PastRows /\ UNCHANGED <<tab, layout, v, row, points>>
    BY <1>3 DEF EndOfRows, Reading, RowsRead
  <2>2. /\ Used.header \in Nat /\ row \in Nat /\ Len(tab) \in Nat
        /\ row >= Len(tab) \/ Get(row, Used.z) = Empty
    BY <1>3, <2>1, RowCells DEF EndOfRows, TypeOK
  <2>3. Body(Used) \subseteq Past
    BY <2>1, <2>2 DEF Body, Past, PastRows
  <2>. QED
    BY <2>1, <2>3, RowsKept DEF PastRows
<1>4. CASE Lookup \/ NormalizePoint \/ EndOfPoints \/ AddSurvey \/ GiveUp
  <2>1. Reading /\ pc # "parse" /\ UNCHANGED <<tab, layout, v, row, points>>
    BY <1>4 DEF Lookup, NormalizePoint, EndOfPoints, AddSurvey, GiveUp, Reading
  <2>. QED
    BY <2>1, RowsKept DEF RowsRead, PastRows
<1>5. CASE Finished \/ UNCHANGED vars
  <2>1. UNCHANGED vars
    BY <1>5 DEF Finished
  <2>2. UNCHANGED <<tab, layout, pc, v, row, points>>
    BY <2>1 DEF vars
  <2>3. PICK from \in [DOMAIN points -> Past] : Listed(from)
    BY <2>2 DEF RowsRead, Reading
  <2>4. Past' = Past
    BY <2>2, RowsStay DEF Past
  <2>5. PastRows'
    BY <2>2, <2>4, RowsStay DEF RowsRead, Reading, PastRows
  <2>6. Listed(from)'
    BY <2>2, <2>3, <2>4, RowsStay DEF Listed
  <2>. QED
    BY <2>2, <2>3, <2>4, <2>5, <2>6
<1>. QED
  BY <1>1, <1>2, <1>3, <1>4, <1>5 DEF Next

LEMMA RowsHold == Spec => [](TypeOK /\ Unread /\ RowsRead)
<1>1. Init => Unread /\ RowsRead
  BY DEF Init, Unread, RowsRead, Reading
<1>2. TypeOK /\ Unread /\ [Next]_vars => Unread'
  BY DEF Unread, Next, Identify, ReadRow, EndOfRows, Lookup, NormalizePoint, EndOfPoints,
         AddSurvey, GiveUp, Finished, vars
<1>. QED
  BY <1>1, <1>2, RowsStep, TypeCorrect, PTL DEF Spec

(* ParseSheet: whatever the tab and the variant, the points are the        *)
(* readable rows of the body, each once and in order; ReadRow's several    *)
(* ways to pass over a row lose none of them (densitysheet.go:69-117).     *)
THEOREM RowsReadHolds == Spec => []RowsRead
  BY RowsHold, PTL

(* A tab that was read to its end and gave nothing: identification took    *)
(* rows for data that ParseSheet passes over, and all of them lack a       *)
(* number that ParseSheet needs.                                           *)
NothingRead == Reading /\ pc # "parse" /\ points = <<>> =>
    \A r \in Body(Used) : HasData(Used, r) => ~Countable(r)

(* The two readings of a row differ in nothing else: a row with a system   *)
(* and its numbers, in a tab that identification accepts, becomes a point  *)
(* (sheetvariations.go:136-164, densitysheet.go:69-117).                   *)
THEOREM NothingReadHolds == Spec => []NothingRead
<1>1. TypeOK /\ RowsRead => NothingRead
  <2>. SUFFICES ASSUME TypeOK, RowsRead, Reading, pc # "parse", points = <<>>,
                       NEW r \in Body(Used), HasData(Used, r), Countable(r)
                PROVE  FALSE
    BY DEF NothingRead
  <2>1. r \in Past
    BY DEF RowsRead, PastRows
  <2>2. Sampled(r)
    BY <2>1 DEF RowsRead, PastRows, Sampled, HasData
  <2>. QED
    BY <2>1, <2>2 DEF RowsRead, Listed
<1>. QED
  BY <1>1, RowsHold, PTL

(* A row that stops ParseSheet with an error.                              *)
Unreadable == \E r \in Body(Used) : Countable(r) /\ DistanceOf(r) = Bad

(* The variant a tab is read with is the first of the list that fits; only *)
(* a tab that none fits is given up without one; and a survey is stored    *)
(* only if no row up to the end of the samples stops ParseSheet, read or   *)
(* not, and the constraints accept every point.                            *)
Fate ==
    /\ \A k \in DOMAIN layout : k < v => ~Eval(layout[k])
    /\ pc # "identify" /\ v <= Len(layout) => Eval(Used)
    /\ pc = "stored" => ~Unreadable /\ Accepted

LEMMA FitsStay ==
    ASSUME UNCHANGED <<tab, layout>>
    PROVE  \A sv : Eval(sv)' = Eval(sv)
<1>1. \A r, c : Get(r, c)' = Get(r, c)
  BY DEF Get
<1>2. \A check : Holds(check)' = Holds(check)
  BY <1>1 DEF Holds
<1>3. \A sv : Body(sv)' = Body(sv) /\ \A r : HasData(sv, r)' = HasData(sv, r)
  BY <1>1 DEF Body, HasData
<1>. QED
  BY <1>2, <1>3 DEF Eval

LEMMA FateStep == TypeOK /\ TypeOK' /\ RowsRead /\ Fate /\ [Next]_vars => Fate'
<1>. SUFFICES ASSUME TypeOK, TypeOK', RowsRead, Fate, [Next]_vars PROVE Fate'
  OBVIOUS
<1>1. UNCHANGED <<tab, layout>>
  BY DEF Next, Identify, ReadRow, EndOfRows, Lookup, NormalizePoint, EndOfPoints, AddSurvey,
         GiveUp, Finished, vars
<1>2. v \in Nat /\ Len(layout) \in Nat /\ DOMAIN layout = 1..Len(layout)
  BY DEF TypeOK
<1>3. CASE Identify
  <2>1. CASE v > Len(layout) /\ pc' = "failed" /\ UNCHANGED v
    BY <1>1, <1>2, <2>1, FitsStay DEF Fate
  <2>2. CASE v <= Len(layout) /\ Eval(layout[v]) /\ pc' = "parse" /\ UNCHANGED v
    BY <1>1, <2>2, FitsStay DEF Fate, Used
  <2>3. CASE v <= Len(layout) /\ ~Eval(layout[v]) /\ v' = v + 1 /\ UNCHANGED pc
    <3>1. pc' = "identify"
      BY <1>3, <2>3 DEF Identify
    <3>2. \A k \in DOMAIN layout : k < v + 1 => ~Eval(layout[k])
      BY <1>2, <2>3 DEF Fate
    <3>. QED
      BY <1>1, <2>3, <3>1, <3>2, FitsStay DEF Fate
  <2>. QED
    BY <1>3, <2>1, <2>2, <2>3 DEF Identify
<1>4. ASSUME pc # "identify", UNCHANGED v, pc' = "stored" => (~Unreadable /\ Accepted)'
      PROVE  Fate'
  BY <1>1, <1>4, FitsStay DEF Fate, Used
<1>5. CASE ReadRow \/ EndOfRows \/ Lookup \/ NormalizePoint \/ EndOfPoints \/ GiveUp
  <2>1. pc # "identify" /\ UNCHANGED v /\ pc' # "stored"
    BY <1>5 DEF ReadRow, EndOfRows, Lookup, NormalizePoint, EndOfPoints, GiveUp
  <2>. QED
    BY <1>4, <2>1
<1>6. CASE AddSurvey
  <2>1. /\ pc = "store" /\ UNCHANGED <<v, points, system, best>>
        /\ pc' = "stored" => Accepted
    BY <1>6 DEF AddSurvey
  <2>2. Accepted' = Accepted
    BY <2>1 DEF Accepted, Inserted, Kept
  <2>3. PastRows /\ Past = Body(Used)
    BY <2>1 DEF RowsRead, Reading, PastRows
  <2>4. ~Unreadable
    BY <2>3 DEF PastRows, Unreadable
  <2>5. ~Unreadable'
    BY <1>1, <2>1, <2>4, RowsStay DEF Unreadable
  <2>. QED
    BY <1>4, <2>1, <2>2, <2>5
<1>7. CASE Finished \/ UNCHANGED vars
  <2>1. UNCHANGED <<tab, layout, pc, v, row, points, system, done, best>>
    BY <1>7 DEF Finished, vars
  <2>2. Unreadable' = Unreadable
    BY <2>1, RowsStay DEF Unreadable
  <2>3. Accepted' = Accepted
    BY <2>1 DEF Accepted, Inserted, Kept
  <2>. QED
    BY <2>1, <2>2, <2>3, FitsStay DEF Fate, Used
<1>. QED
  BY <1>3, <1>5, <1>6, <1>7 DEF Next

(* A tab is read with the first variant that fits it, is given up at once  *)
(* only if none does, and never becomes a survey with some of its samples  *)
(* unread for a distance that is no number (sheetvariations.go:213-224,    *)
(* densitysheet.go:85-92).                                                 *)
THEOREM FateHolds == Spec => []Fate
<1>1. Init => Fate
  <2>1. Init => layout \in Seq(Variant) /\ v = 1 /\ pc = "identify"
    BY LayoutAssumption DEF Init
  <2>. QED
    BY <2>1 DEF Fate, Reading
<1>. QED
  BY <1>1, FateStep, RowsHold, PTL DEF Spec

-----------------------------------------------------------------------------
(* The hash by which copies of a survey are told.                          *)

Once(list) == \A i, j \in DOMAIN list : list[i].name = list[j].name => i = j
PointsOf(list) == {list[i] : i \in DOMAIN list}
InOrder(list, before) == \A i, j \in DOMAIN list : i < j => <<list[j].name, list[i].name>> \notin before

(* A set of numbers up to n has a least one: of the intervals up to its    *)
(* members, one contains no other.                                         *)
LEMMA Least ==
    ASSUME NEW n \in Nat, NEW S \in SUBSET (1..n), S # {}
    PROVE  \E k \in S : \A j \in S : k <= j
<1>. DEFINE intervals == {1..k : k \in S}
<1>1. IsWellFoundedOn(StrictSubsetOrdering(1..n), SUBSET (1..n))
  <2>1. IsFiniteSet(1..n)
    BY FS_Interval
  <2>. DEFINE T == 1..n
  <2>. HIDE DEF T
  <2>2. IsFiniteSet(T) => IsWellFoundedOn(StrictSubsetOrdering(T), SUBSET T)
    BY FS_StrictSubsetOrderingWellFounded, FS_FiniteSubsetsOfFinite
  <2>. QED
    BY <2>1, <2>2 DEF T
<1>2. intervals \subseteq SUBSET (1..n) /\ intervals # {}
  <2>1. \A k \in S : 1..k \subseteq 1..n
    OBVIOUS
  <2>. QED
    BY <2>1
<1>3. PICK c \in intervals : \A d \in intervals : <<d, c>> \notin StrictSubsetOrdering(1..n)
  <2>. HIDE DEF intervals
  <2>. QED
    BY <1>1, <1>2, WFMin
<1>4. PICK k \in S : c = 1..k
  OBVIOUS
<1>5. ASSUME NEW j \in S, j < k PROVE FALSE
  <2>1. 1..j \in intervals /\ 1..j \in SUBSET (1..n) /\ c \in SUBSET (1..n)
    BY <1>2
  <2>2. 1..j \subseteq c /\ k \in c /\ k \notin 1..j
    BY <1>4, <1>5
  <2>. QED
    BY <1>3, <2>1, <2>2 DEF StrictSubsetOrdering
<1>. QED
  BY <1>5

(* Of the same points there is one list in the order of their names.       *)
LEMMA OneOrder ==
    ASSUME NEW n \in Nat, NEW h, NEW g, DOMAIN h = 1..n, DOMAIN g = 1..n,
           h = [i \in 1..n |-> h[i]], g = [i \in 1..n |-> g[i]],
           PointsOf(h) = PointsOf(g), Once(h), Once(g),
           NEW before, InOrder(h, before), InOrder(g, before),
           \A i, j \in 1..n : h[i].name # g[j].name =>
               <<h[i].name, g[j].name>> \in before \/ <<g[j].name, h[i].name>> \in before
    PROVE  h = g
<1>. SUFFICES ASSUME NEW x \in 1..n, h[x] # g[x] PROVE FALSE
  OBVIOUS
<1>1. PICK k \in 1..n : h[k] # g[k] /\ \A j \in 1..n : h[j] # g[j] => k <= j
  <2>. DEFINE S == {i \in 1..n : h[i] # g[i]}
  <2>1. S \in SUBSET (1..n) /\ S # {}
    OBVIOUS
  <2>2. PICK k \in S : \A j \in S : k <= j
    <3>. HIDE DEF S
    <3>. QED
      BY <2>1, Least
  <2>. QED
    BY <2>2
<1>2. \A j \in 1..n : j < k => h[j] = g[j]
  BY <1>1
<1>3. PICK i \in 1..n : h[i] = g[k]
  BY DEF PointsOf
<1>4. PICK j \in 1..n : g[j] = h[k]
  BY DEF PointsOf
<1>5. i > k
  <2>1. i # k
    BY <1>1, <1>3
  <2>2. ~(i < k)
    BY <1>2, <1>3 DEF Once
  <2>. QED
    BY <2>1, <2>2
<1>6. j > k
  <2>1. j # k
    BY <1>1, <1>4
  <2>2. ~(j < k)
    BY <1>2, <1>4 DEF Once
  <2>. QED
    BY <2>1, <2>2
<1>7. <<h[i].name, h[k].name>> \notin before /\ <<g[j].name, g[k].name>> \notin before
  BY <1>5, <1>6 DEF InOrder
<1>8. h[k].name # g[k].name
  BY <1>3, <1>5 DEF Once
<1>. QED
  BY <1>3, <1>4, <1>7, <1>8

(* Survey.Hash tells copies of a survey by content: without duplicates,    *)
(* the same points in another order of rows are written to the hash alike, *)
(* whatever the sort does.  With duplicates they need not be               *)
(* (types.go:68-90).                                                       *)
THEOREM HashIgnoresRowOrder ==
    ASSUME NEW s \in Seq(Point), NEW t \in Seq(Point), Once(s), Once(t),
           PointsOf(s) = PointsOf(t),
           NEW before, \A a, b \in Name : a # b => <<a, b>> \in before \/ <<b, a>> \in before
    PROVE  \A h \in Hashed(s, before), g \in Hashed(t, before) : h = g
<1>1. ASSUME NEW list \in Seq(Point), Once(list), NEW h \in Hashed(list, before)
      PROVE  /\ Len(list) \in Nat /\ DOMAIN h = 1..Len(list) /\ h = [i \in 1..Len(list) |-> h[i]]
             /\ PointsOf(h) = PointsOf(list) /\ Once(h) /\ InOrder(h, before)
             /\ \A i \in 1..Len(list) : h[i].name \in Name
  <2>. DEFINE D == DOMAIN list
  <2>0. \A x \in Point : x.name \in Name
    BY DEF Point
  <2>1. D = 1..Len(list) /\ Len(list) \in Nat /\ \A i \in D : list[i].name \in Name
    BY <2>0
  <2>2. PICK p \in [D -> D] :
            /\ \A i \in D : \E j \in D : p[j] = i
            /\ \A i, j \in D : i < j => <<list[p[j]].name, list[p[i]].name>> \notin before
            /\ h = [i \in D |-> list[p[i]]]
    BY DEF Hashed
  <2>3. \A i, j \in D : p[i] = p[j] => i = j
    <3>1. IsFiniteSet(D)
      BY <2>1, FS_Interval
    <3>. HIDE DEF D
    <3>2. p \in Surjection(D, D)
      BY <2>2, Fun_IsSurj
    <3>3. p \in Injection(D, D)
      BY <3>1, <3>2, FS_Surjection
    <3>4. \A i, j \in D : p[i] = p[j] => i = j
      BY <3>3, Fun_InjectionProperties
    <3>. QED
      BY <3>4
  <2>4. DOMAIN h = D /\ \A i \in D : h[i] = list[p[i]]
    BY <2>2
  <2>5. PointsOf(h) = PointsOf(list)
    BY <2>2, <2>4 DEF PointsOf
  <2>6. Once(h) /\ InOrder(h, before)
    BY <1>1, <2>2, <2>3, <2>4 DEF Once, InOrder
  <2>. QED
    BY <2>1, <2>2, <2>4, <2>5, <2>6
<1>2. Len(s) = Len(t)
  <2>1. ASSUME NEW list \in Seq(Point), Once(list)
        PROVE  Len(list) \in Nat /\ Cardinality(PointsOf(list)) = Len(list)
    <3>1. DOMAIN list = 1..Len(list) /\ Len(list) \in Nat
      OBVIOUS
    <3>. DEFINE f == [i \in 1..Len(list) |-> list[i]]
    <3>2. f \in Bijection(1..Len(list), PointsOf(list))
      <4>1. f \in [1..Len(list) -> PointsOf(list)]
        BY <3>1 DEF PointsOf
      <4>2. \A i, j \in 1..Len(list) : f[i] = f[j] => i = j
        BY <2>1, <3>1 DEF Once
      <4>3. \A x \in PointsOf(list) : \E i \in 1..Len(list) : f[i] = x
        BY <3>1 DEF PointsOf
      <4>. HIDE DEF f
      <4>. QED
        BY <4>1, <4>2, <4>3, Fun_IsInj, Fun_IsSurj DEF Bijection
    <3>3. ExistsBijection(1..Len(list), PointsOf(list))
      BY <3>2 DEF ExistsBijection
    <3>4. IsFiniteSet(1..Len(list)) /\ Cardinality(1..Len(list)) = Len(list)
      <4>1. \A m \in Nat : IsFiniteSet(1..m) /\ Cardinality(1..m) = IF 1 > m THEN 0 ELSE m - 1 + 1
        BY FS_Interval
      <4>2. \A m \in Nat : (IF 1 > m THEN 0 ELSE m - 1 + 1) = m
        OBVIOUS
      <4>. QED
        BY <3>1, <4>1, <4>2
    <3>. QED
      BY <3>1, <3>3, <3>4, FS_Bijection
  <2>. QED
    BY <2>1
<1>. TAKE h \in Hashed(s, before), g \in Hashed(t, before)
<1>. DEFINE n == Len(s)
<1>3. /\ n \in Nat /\ DOMAIN h = 1..n /\ h = [i \in 1..n |-> h[i]] /\ PointsOf(h) = PointsOf(s)
      /\ Once(h) /\ InOrder(h, before) /\ \A i \in 1..n : h[i].name \in Name
  BY <1>1
<1>4. /\ DOMAIN g = 1..n /\ g = [i \in 1..n |-> g[i]] /\ PointsOf(g) = PointsOf(t)
      /\ Once(g) /\ InOrder(g, before) /\ \A i \in 1..n : g[i].name \in Name
  BY <1>1, <1>2
<1>5. \A i, j \in 1..n : h[i].name # g[j].name =>
          <<h[i].name, g[j].name>> \in before \/ <<g[j].name, h[i].name>> \in before
  BY <1>3, <1>4
<1>6. PointsOf(h) = PointsOf(g)
  BY <1>3, <1>4
<1>. HIDE DEF n
<1>. QED
  BY <1>3, <1>4, <1>5, <1>6, OneOrder
=============================================================================
