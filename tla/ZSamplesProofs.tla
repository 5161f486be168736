---------------------------- MODULE ZSamplesProofs ----------------------------
(***************************************************************************)
(* For any projects, values, lists and number of requests: the answers of  *)
(* the zsample endpoints are truthful, and their transactions implement    *)
(* ZSampleSet, whatever waits, deadlocks and lost connections there are;   *)
(* and no group of requests waits for itself alone.                        *)
(***************************************************************************)
EXTENDS ZSamples, FunctionTheorems, FiniteSetTheorems, TLAPS

-----------------------------------------------------------------------------
(* Parts of rows and operations.                                           *)
LEMMA OpFields ==
    ASSUME TypeOK, NEW r \in Request, op[r] # NoOp
    PROVE  /\ op[r].kind \in {"set", "add", "delete"} /\ op[r].project \in Project
           /\ op[r].list \in Seq(Z)
           /\ op[r].kind # "set" => \E z \in Z : op[r].list = <<z>>
<1>1. op[r] \in Operation
  BY DEF TypeOK
<1>2. CASE op[r] \in [kind : {"set"}, project : Project, list : List]
  BY <1>2, ZAssumption
<1>3. CASE op[r] \in [kind : {"add", "delete"}, project : Project, list : {<<z>> : z \in Z}]
  <2>1. PICK z \in Z : op[r].list = <<z>>
    BY <1>3
  <2>. QED
    BY <1>3, <2>1
<1>. QED
  BY <1>1, <1>2, <1>3 DEF Operation

LEMMA RowFields ==
    ASSUME NEW row \in Row
    PROVE  /\ row.project \in Project /\ row.z \in Z /\ row.by \in Project \cup Request
           /\ <<row.project, row.z>> \in Project \X Z
  BY DEF Row

(* A DELETE that has rows to visit is at one of them.                      *)
LEMMA VictimThere ==
    ASSUME TypeOK, NEW r \in Request, targets[r] # {}
    PROVE  Victim(r) \in targets[r]
<1>. DEFINE S == {row.z : row \in targets[r]}
<1>1. targets[r] \subseteq Row
  BY DEF TypeOK
<1>2. S \in SUBSET Z /\ S # {}
  BY <1>1, RowFields
<1>3. PICK least \in S : \A z \in S : least <= z
  BY <1>2, ZAssumption
<1>4. \E row \in targets[r] : \A other \in targets[r] : row.z <= other.z
  BY <1>3
<1>. QED
  BY <1>4 DEF Victim

LEMMA KeysOfRow ==
    ASSUME NEW S, NEW row \in S PROVE <<row.project, row.z>> \in KeysOf(S)
  BY DEF KeysOf

(* The row of an INSERT.                                                   *)
LEMMA NewRowTyped ==
    ASSUME TypeOK, NEW r \in Request, op[r] # NoOp, rest[r] # <<>>
    PROVE  /\ NewRow(r) \in Row /\ NewRow(r).by = r
           /\ NewRow(r).project = op[r].project /\ NewRow(r).z = Head(rest[r])
           /\ Tail(rest[r]) \in Seq(Z) /\ Head(rest[r]) \in Z
<1>1. rest[r] \in Seq(Z)
  BY DEF TypeOK
<1>2. Head(rest[r]) \in Z /\ Tail(rest[r]) \in Seq(Z)
  BY <1>1
<1>. QED
  BY <1>2, OpFields DEF NewRow, Row

(* A request is named by the steps of its own.                             *)
Step(r) ==
    \/ Begin(r) \/ CheckProject(r) \/ StartDelete(r) \/ DeleteRow(r) \/ NothingDeleted(r)
    \/ Insert(r) \/ ReadBack(r) \/ Commit(r) \/ Lose(r) \/ DeadlockVictim(r)

Aborts(r) == \E what \in {"notfound", "duplicate", "error"} : Abort(r, what)

(* Functions that a step changes at one request.                           *)
LEMMA ForgottenTyped ==
    ASSUME NEW S, NEW f \in [Request -> SUBSET S], NEW r, NEW keys \in SUBSET S
    PROVE  Forgotten(f, r) \in [Request -> SUBSET S] /\ Noted(f, r, keys) \in [Request -> SUBSET S]
  BY DEF Forgotten, Noted

LEMMA KeysTyped == ASSUME NEW S \in SUBSET Row PROVE KeysOf(S) \subseteq Project \X Z
  BY RowFields DEF KeysOf

LEMMA AbortTyped ==
    ASSUME TypeOK, NEW r \in Request, Aborts(r), losses' \in 0..MaxLosses
    PROVE  TypeOK'
<1>1. /\ Forgotten(doomed, r) \in [Request -> SUBSET Row]
      /\ Forgotten(targets, r) \in [Request -> SUBSET Row]
      /\ Forgotten(added, r) \in [Request -> SUBSET (Project \X Z)]
      /\ Forgotten(gone, r) \in [Request -> SUBSET (Project \X Z)]
  BY DEF TypeOK, Forgotten
<1>2. rows' \subseteq Row
  BY DEF Aborts, Abort, TypeOK
<1>3. rest' \in [Request -> Seq(Z)]
  BY DEF Aborts, Abort, TypeOK
<1>. QED
  BY <1>1, <1>2, <1>3 DEF Aborts, Abort, TypeOK

LEMMA LostTyped == ASSUME TypeOK, Lost \/ UNCHANGED losses PROVE losses' \in 0..MaxLosses
  BY LossAssumption DEF Lost, TypeOK

LEMMA Started == ASSUME NEW r \in Request, Step(r), TypeOK
                 PROVE  Begin(r) \/ pc[r] \notin {"idle", "done"} \/ DeadlockVictim(r)
  BY DEF Step, CheckProject, StartDelete, DeleteRow, NothingDeleted, Insert, Deleted, ReadBack,
         Commit, Lose, Open

(* A request that waits for anything, or is waited for, is under way.      *)
LEMMA CycleOpen ==
    ASSUME NEW r \in Request, DeadlockVictim(r)
    PROVE  Open(r)
<1>1. PICK S \in SUBSET Request : r \in S /\ UNION {WaitsFor(s) : s \in S} = S
  BY DEF DeadlockVictim, InCycle
<1>2. PICK s \in S : r \in WaitsFor(s)
  BY <1>1
<1>3. \A row : \A t \in Undecided(s, row) : Open(t)
  BY DEF Undecided
<1>. QED
  BY <1>2, <1>3 DEF WaitsFor

LEMMA TypeStep ==
    ASSUME TypeOK, NEW r \in Request, Step(r),
           pc[r] # "idle" => op[r] # NoOp
    PROVE  TypeOK'
<1>1. CASE Begin(r)
  <2>1. PICK o \in Operation :
            /\ op' = [op EXCEPT ![r] = o]
            /\ rest' = [rest EXCEPT ![r] = IF o.kind = "delete" THEN <<>> ELSE o.list]
    BY <1>1 DEF Begin
  <2>2. op' \in [Request -> Operation \cup {NoOp}] /\ o # NoOp
    BY <2>1 DEF TypeOK, Operation, NoOp
  <2>3. o.list \in Seq(Z)
    <3>1. CASE o \in [kind : {"set"}, project : Project, list : List]
      BY <3>1, ZAssumption
    <3>2. CASE o \in [kind : {"add", "delete"}, project : Project, list : {<<z>> : z \in Z}]
      <4>1. PICK z \in Z : o.list = <<z>>
        BY <3>2
      <4>. QED
        BY <4>1
    <3>. QED
      BY <3>1, <3>2 DEF Operation
  <2>4. rest' \in [Request -> Seq(Z)]
    BY <2>1, <2>3 DEF TypeOK
  <2>5. gone' \in [Request -> SUBSET (Project \X Z)]
    BY <1>1 DEF Begin, TypeOK
  <2>. QED
    BY <1>1, <2>2, <2>4, <2>5 DEF Begin, Goto, table, TypeOK
<1>2. CASE CheckProject(r)
  <2>1. CASE Abort(r, "notfound")
    BY <1>2, <2>1, AbortTyped DEF CheckProject, Aborts, TypeOK
  <2>2. CASE ~Abort(r, "notfound")
    BY <1>2, <2>2 DEF CheckProject, Goto, table, history, TypeOK
  <2>. QED
    BY <2>1, <2>2
<1>3. CASE StartDelete(r)
  <2>1. targets' \in [Request -> SUBSET Row]
    BY <1>3 DEF StartDelete, Visible, TypeOK
  <2>. QED
    BY <1>3, <2>1 DEF StartDelete, Goto, table, history, TypeOK
<1>4. CASE DeleteRow(r)
  <2>1. targets' \in [Request -> SUBSET Row] /\ doomed' \in [Request -> SUBSET Row]
    BY <1>4 DEF DeleteRow, TypeOK
  <2>. QED
    BY <1>4, <2>1 DEF DeleteRow, history, TypeOK
<1>5. CASE NothingDeleted(r)
  BY <1>5, AbortTyped DEF NothingDeleted, Aborts, TypeOK
<1>6. CASE Insert(r)
  <2>1. CASE InTheWay(r) = {}
    <3>1. op[r] # NoOp /\ rest[r] # <<>>
      BY <1>6 DEF Insert, Deleted
    <3>2. rows' \subseteq Row
      BY <1>6, <2>1, <3>1, NewRowTyped DEF Insert, TypeOK
    <3>3. rest' \in [Request -> Seq(Z)]
      BY <1>6, <2>1, <3>1, NewRowTyped DEF Insert, TypeOK
    <3>. QED
      BY <1>6, <2>1, <3>2, <3>3 DEF Insert, history, TypeOK
  <2>2. CASE InTheWay(r) # {}
    BY <1>6, <2>2, AbortTyped DEF Insert, Aborts, TypeOK
  <2>. QED
    BY <2>1, <2>2
<1>7. CASE ReadBack(r)
  <2>1. Seen(r) \subseteq Row
    BY DEF Seen, Visible, TypeOK
  <2>2. {row.z : row \in {s \in Seen(r) : s.project = op[r].project}} \subseteq Z
    BY <2>1, RowFields
  <2>3. answer' \in [Request -> SUBSET Z]
    BY <1>7, <2>2 DEF ReadBack, TypeOK
  <2>. QED
    BY <1>7, <2>3 DEF ReadBack, Goto, table, history, TypeOK
<1>8. CASE Commit(r)
  <2>1. doomed' \in [Request -> SUBSET Row] /\ doomed[r] \subseteq Row
    BY <1>8 DEF Commit, Forgotten, TypeOK
  <2>2. {row \in rows : row.by = r} \in SUBSET Row /\ doomed[r] \in SUBSET Row
    BY <2>1 DEF TypeOK
  <2>3. KeysOf({row \in rows : row.by = r}) \subseteq Project \X Z /\ KeysOf(doomed[r]) \subseteq Project \X Z
    BY <2>2, KeysTyped
  <2>4. added' \in [Request -> SUBSET (Project \X Z)] /\ gone' \in [Request -> SUBSET (Project \X Z)]
    BY <1>8, <2>3, ForgottenTyped DEF Commit, TypeOK
  <2>5. losses' \in 0..MaxLosses
    BY <1>8, LostTyped DEF Commit
  <2>. QED
    BY <1>8, <2>1, <2>4, <2>5 DEF Commit, TypeOK
<1>9. CASE Lose(r) \/ DeadlockVictim(r)
  BY <1>9, AbortTyped, LostTyped DEF Lose, DeadlockVictim, Aborts
<1>. QED
  BY <1>1, <1>2, <1>3, <1>4, <1>5, <1>6, <1>7, <1>8, <1>9 DEF Step

-----------------------------------------------------------------------------
(* Where a request is, and what that says of what it holds.                *)
ControlOf(r) ==
    /\ pc[r] = "idle" <=> op[r] = NoOp
    /\ pc[r] = "done" <=> reply[r] # "none"
    /\ pc[r] # "delete" => targets[r] = {}
    /\ pc[r] \notin {"delete", "commit"} => doomed[r] = {}
    /\ pc[r] \in {"snapshot", "delete"} => op[r].kind # "add"
    /\ pc[r] = "insert" => op[r].kind = "add"
    /\ pc[r] \in {"snapshot", "delete", "insert", "commit"} => op[r].project \in projects
    /\ pc[r] = "commit" => rest[r] = <<>> /\ ~Missed(r)
    /\ pc[r] \in {"check", "snapshot", "delete"} => (op[r].kind = "delete" => rest[r] = <<>>)
    /\ op[r].kind = "add" => doomed[r] = {}

Control == \A r \in Request : ControlOf(r)

(* A request that is at none of its steps is left as it is.                *)
Untouched(r, s) ==
    /\ op'[s] = op[s] /\ pc'[s] = pc[s] /\ targets'[s] = targets[s] /\ rest'[s] = rest[s]
    /\ answer'[s] = answer[s] /\ reply'[s] = reply[s] /\ doomed'[s] = doomed[s]

LEMMA OthersUntouched ==
    ASSUME TypeOK, NEW r \in Request, Step(r), NEW s \in Request, s # r
    PROVE  Untouched(r, s) /\ UNCHANGED projects
<1>1. CASE Aborts(r)
  BY <1>1 DEF Aborts, Abort, Forgotten, Untouched, TypeOK
<1>2. CASE Begin(r)
  BY <1>2 DEF Begin, Goto, table, Untouched, TypeOK
<1>3. CASE StartDelete(r) \/ DeleteRow(r)
  BY <1>3 DEF StartDelete, DeleteRow, Goto, table, Untouched, TypeOK
<1>4. CASE ReadBack(r) \/ Commit(r)
  BY <1>4 DEF ReadBack, Commit, Goto, table, Forgotten, Untouched, TypeOK
<1>5. CASE CheckProject(r) /\ ~Aborts(r)
  BY <1>5 DEF CheckProject, Aborts, Goto, table, Untouched, TypeOK
<1>6. CASE Insert(r) /\ ~Aborts(r)
  <2>1. InTheWay(r) = {}
    BY <1>6 DEF Insert, Aborts
  <2>. QED
    BY <1>6, <2>1 DEF Insert, Untouched, TypeOK
<1>. QED
  BY <1>1, <1>2, <1>3, <1>4, <1>5, <1>6 DEF Step, NothingDeleted, Lose, DeadlockVictim, Aborts

LEMMA ControlStep ==
    ASSUME TypeOK, TypeOK', Control, NEW r \in Request, Step(r)
    PROVE  Control'
<1>1. ASSUME NEW s \in Request, s # r PROVE ControlOf(s)'
  <2>1. Untouched(r, s) /\ UNCHANGED projects
    BY <1>1, OthersUntouched
  <2>. QED
    BY <2>1 DEF Control, ControlOf, Untouched, Missed
<1>2. ControlOf(r)
  BY DEF Control
<1>3. CASE Aborts(r) /\ pc[r] # "idle"
  <2>1. /\ pc'[r] = "done" /\ targets'[r] = {} /\ doomed'[r] = {} /\ op' = op
        /\ reply'[r] # "none"
    BY <1>3 DEF Aborts, Abort, Forgotten, TypeOK
  <2>2. ControlOf(r)'
    BY <1>2, <1>3, <2>1 DEF ControlOf
  <2>. QED
    BY <1>1, <2>2 DEF Control
<1>4. CASE Begin(r)
  <2>1. PICK o \in Operation :
            /\ op' = [op EXCEPT ![r] = o]
            /\ rest' = [rest EXCEPT ![r] = IF o.kind = "delete" THEN <<>> ELSE o.list]
    BY <1>4 DEF Begin
  <2>2. o # NoOp /\ op'[r] = o /\ rest'[r] = IF o.kind = "delete" THEN <<>> ELSE o.list
    BY <2>1 DEF TypeOK, Operation, NoOp
  <2>3. pc'[r] = "check" /\ pc[r] = "idle" /\ UNCHANGED <<doomed, targets, reply>>
    BY <1>4 DEF Begin, Goto, table, TypeOK
  <2>4. ControlOf(r)'
    BY <1>2, <2>2, <2>3 DEF ControlOf
  <2>. QED
    BY <1>1, <2>4 DEF Control
<1>5. CASE CheckProject(r) /\ ~Aborts(r)
  <2>1. /\ pc'[r] = IF op[r].kind = "add" THEN "insert" ELSE "snapshot"
        /\ pc[r] = "check" /\ op[r].project \in projects
        /\ UNCHANGED <<projects, doomed, targets, op, rest, reply>>
    BY <1>5 DEF CheckProject, Aborts, Goto, table, TypeOK
  <2>2. ControlOf(r)'
    BY <1>2, <2>1 DEF ControlOf
  <2>. QED
    BY <1>1, <2>2 DEF Control
<1>6. CASE StartDelete(r)
  <2>1. /\ pc'[r] = "delete" /\ pc[r] = "snapshot"
        /\ UNCHANGED <<projects, doomed, op, rest, reply>>
    BY <1>6 DEF StartDelete, Goto, table, TypeOK
  <2>2. ControlOf(r)'
    BY <1>2, <2>1 DEF ControlOf
  <2>. QED
    BY <1>1, <2>2 DEF Control
<1>7. CASE DeleteRow(r)
  <2>1. pc[r] = "delete" /\ UNCHANGED <<pc, projects, op, rest, reply>>
    BY <1>7 DEF DeleteRow
  <2>2. ControlOf(r)'
    BY <1>2, <2>1 DEF ControlOf
  <2>. QED
    BY <1>1, <2>2 DEF Control
<1>8. CASE Insert(r) /\ ~Aborts(r)
  <2>1. pc[r] \in {"delete", "insert"} /\ UNCHANGED <<pc, projects, op, reply, doomed, targets>>
    BY <1>8 DEF Insert, Deleted, Aborts
  <2>2. rest[r] # <<>>
    BY <1>8 DEF Insert
  <2>3. ControlOf(r)'
    BY <1>2, <2>1, <2>2 DEF ControlOf
  <2>. QED
    BY <1>1, <2>3 DEF Control
<1>9. CASE ReadBack(r)
  <2>1. /\ pc'[r] = "commit" /\ pc[r] \in {"delete", "insert"} /\ rest[r] = <<>>
        /\ UNCHANGED <<projects, op, reply, doomed, targets, rest>>
        /\ pc[r] = "delete" => targets[r] = {} /\ ~Missed(r)
    BY <1>9 DEF ReadBack, Deleted, Goto, table, TypeOK
  <2>2. ~Missed(r)
    BY <1>2, <2>1 DEF ControlOf, Missed
  <2>3. ControlOf(r)'
    BY <1>2, <2>1, <2>2 DEF ControlOf, Missed
  <2>. QED
    BY <1>1, <2>3 DEF Control
<1>10. CASE Commit(r)
  <2>1. /\ pc'[r] = "done" /\ pc[r] = "commit" /\ doomed'[r] = {}
        /\ UNCHANGED <<projects, op, targets>> /\ reply'[r] # "none"
    BY <1>10 DEF Commit, Forgotten, TypeOK
  <2>2. ControlOf(r)'
    BY <1>2, <2>1 DEF ControlOf
  <2>. QED
    BY <1>1, <2>2 DEF Control
<1>. QED
  BY <1>3, <1>4, <1>5, <1>6, <1>7, <1>8, <1>9, <1>10, CycleOpen
     DEF Step, CheckProject, NothingDeleted, Insert, Deleted, Lose, DeadlockVictim, Aborts, Open

LEMMA TypedControl == Spec => [](TypeOK /\ Control)
<1>1. Init => TypeOK /\ Control
  <2>. SUFFICES ASSUME Init PROVE TypeOK /\ Control
    OBVIOUS
  <2>1. rows \subseteq Row
    BY ProjectAssumption DEF Init, Row
  <2>2. rest \in [Request -> Seq(Z)]
    BY DEF Init
  <2>. QED
    BY <2>1, <2>2, ProjectAssumption, LossAssumption DEF Init, TypeOK, Control, ControlOf, NoOp
<1>2. TypeOK /\ Control /\ [Next]_vars => TypeOK' /\ Control'
  <2>. SUFFICES ASSUME TypeOK, Control, [Next]_vars PROVE TypeOK' /\ Control'
    OBVIOUS
  <2>1. ASSUME NEW r \in Request, Step(r) PROVE TypeOK' /\ Control'
    <3>1. TypeOK'
      BY <2>1, TypeStep DEF Control, ControlOf
    <3>. QED
      BY <2>1, <3>1, ControlStep
  <2>2. CASE AddProject
    BY <2>2 DEF AddProject, history, TypeOK, Control, ControlOf, Missed
  <2>3. CASE UNCHANGED vars
    BY <2>3 DEF vars, TypeOK, Control, ControlOf, Missed
  <2>. QED
    BY <2>1, <2>2, <2>3 DEF Next, AllDone, Step
<1>. QED
  BY <1>1, <1>2, PTL DEF Spec

(* The rows, the deletions under way and the replies have their types, for *)
(* any number of requests.                                                 *)
THEOREM TypeCorrect == Spec => []TypeOK
  BY TypedControl, PTL

-----------------------------------------------------------------------------
(* Row locks and the primary key.                                          *)

SameKey(x, y) == x.project = y.project /\ x.z = y.z

Settled(row) == row.by \in Request => pc[row.by] = "done"

(* The rows of a request are what it was asked to insert, and are not      *)
(* there before its DELETE is through.                                     *)
Own(r) == \A row \in rows : row.by = r =>
    /\ pc[r] \in {"delete", "insert", "commit", "done"} /\ (pc[r] = "delete" => targets[r] = {})
    /\ row.project = op[r].project /\ row.z \in ToSet(op[r].list) /\ op[r].kind # "delete"

(* It deletes committed rows only, those it was asked to, and they stay.   *)
Held(r) ==
    /\ \A row \in doomed[r] \cup targets[r] :
           /\ Settled(row) /\ row.project = op[r].project
           /\ op[r].kind = "delete" => row.z = Head(op[r].list)
    /\ doomed[r] \subseteq rows

Brought(r) == Open(r) =>
    /\ ToSet(rest[r]) \subseteq ToSet(op[r].list)
    /\ op[r].kind # "delete" => \A z \in ToSet(op[r].list) :
           z \in ToSet(rest[r]) \/ [project |-> op[r].project, z |-> z, by |-> r] \in rows

LockOf(r) == Own(r) /\ Held(r) /\ Brought(r)

(* One transaction at most deletes a row.                                  *)
Exclusive == \A r, s \in Request : r # s => doomed[r] \cap doomed[s] = {}

(* Of two rows with one key, one is deleted by the transaction that        *)
(* inserted the other.                                                     *)
Replaced(x, y) == \E s \in Request : x \in doomed[s] /\ y.by = s

Unique == \A x, y \in rows : x # y /\ SameKey(x, y) => Replaced(x, y) \/ Replaced(y, x)

Locks == (\A r \in Request : LockOf(r)) /\ Exclusive /\ Unique

LEMMA RestSet ==
    ASSUME NEW seq \in Seq(Z), seq # <<>>
    PROVE  ToSet(seq) = {Head(seq)} \cup ToSet(Tail(seq))
<1>1. ASSUME NEW i \in DOMAIN seq PROVE i = 1 \/ (i - 1 \in DOMAIN Tail(seq) /\ seq[i] = Tail(seq)[i - 1])
  OBVIOUS
<1>2. ASSUME NEW i \in DOMAIN Tail(seq) PROVE i + 1 \in DOMAIN seq /\ Tail(seq)[i] = seq[i + 1]
  OBVIOUS
<1>3. 1 \in DOMAIN seq /\ Head(seq) = seq[1]
  OBVIOUS
<1>. QED
  BY <1>1, <1>2, <1>3 DEF ToSet

(* A row with the request as its author is not settled while it runs.      *)
LEMMA HeldAreSettled ==
    ASSUME Control, Locks, NEW r \in Request, NEW s \in Request, Open(r)
    PROVE  \A row \in doomed[s] \cup targets[s] : row.by # r
  BY DEF Locks, LockOf, Held, Settled, Open

LEMMA SettledStays ==
    ASSUME TypeOK, TypeOK', Control, NEW r \in Request, Step(r), NEW row
    PROVE  Settled(row) => Settled(row)'
<1>1. \A s \in Request : s # r => pc'[s] = pc[s]
  BY OthersUntouched DEF Untouched
<1>2. pc[r] # "done"
  BY Started, CycleOpen DEF Begin, Open
<1>. QED
  BY <1>1, <1>2 DEF Settled

(* What a step does to the rows and to the locks.                          *)
LEMMA LockSteps ==
    ASSUME TypeOK, Control, Locks, NEW r \in Request, Step(r)
    PROVE  \/ Aborts(r) /\ Open(r)
           \/ Commit(r)
           \/ /\ Begin(r) \/ (CheckProject(r) /\ ~Aborts(r)) \/ StartDelete(r) \/ ReadBack(r)
              /\ UNCHANGED <<rows, doomed>>
           \/ /\ DeleteRow(r) /\ rows' = rows /\ Victim(r) \in targets[r]
              /\ doomed' = [doomed EXCEPT ![r] = @ \cup ({Victim(r)} \cap rows)]
              /\ Victim(r) \in rows => Undecided(r, Victim(r)) = {}
           \/ /\ Insert(r) /\ ~Aborts(r) /\ rows' = rows \cup {NewRow(r)} /\ InTheWay(r) = {}
              /\ UNCHANGED doomed
<1>1. CASE DeleteRow(r)
  <2>1. ~Deleted(r)
    BY <1>1, Zenon DEF DeleteRow, Deleted
  <2>2. Victim(r) \in rows => Undecided(r, Victim(r)) = {}
    BY <1>1, <2>1 DEF DeleteRow, WaitsFor
  <2>. QED
    BY <1>1, <2>2, VictimThere DEF DeleteRow
<1>2. CASE Aborts(r) /\ ~Begin(r)
  <2>1. Open(r)
    BY <1>2, Started, CycleOpen DEF Open
  <2>. QED
    BY <1>2, <2>1
<1>3. CASE Begin(r) \/ StartDelete(r) \/ ReadBack(r) \/ Commit(r)
  BY <1>3 DEF Begin, StartDelete, ReadBack, table
<1>4. CASE CheckProject(r) /\ ~Aborts(r)
  BY <1>4 DEF CheckProject, Aborts, table
<1>5. CASE Insert(r) /\ ~Aborts(r)
  BY <1>5 DEF Insert, Aborts
<1>. QED
  BY <1>1, <1>2, <1>3, <1>4, <1>5 DEF Step, NothingDeleted, Lose, DeadlockVictim, Aborts

(* Rows come by the request itself; rows of others go only if it deletes   *)
(* them.                                                                   *)
LEMMA RowsMove ==
    ASSUME TypeOK, Control, Locks, NEW r \in Request, Step(r)
    PROVE  /\ \A row \in rows' : row \in rows \/ row.by = r
           /\ \A row \in rows : row \in rows' \/ row.by = r \/ row \in doomed[r]
<1>1. CASE Aborts(r)
  BY <1>1 DEF Aborts, Abort
<1>2. CASE Commit(r)
  BY <1>2 DEF Commit
<1>3. CASE UNCHANGED rows
  BY <1>3
<1>4. CASE rows' = rows \cup {NewRow(r)}
  BY <1>4 DEF NewRow
<1>. QED
  BY <1>1, <1>2, <1>3, <1>4, LockSteps

LEMMA OthersLocks ==
    ASSUME TypeOK, TypeOK', Control, Locks, NEW r \in Request, Step(r),
           NEW s \in Request, s # r
    PROVE  LockOf(s)'
<1>1. /\ op'[s] = op[s] /\ pc'[s] = pc[s] /\ targets'[s] = targets[s] /\ rest'[s] = rest[s]
      /\ doomed'[s] = doomed[s]
  BY OthersUntouched DEF Untouched
<1>2. /\ \A row \in rows' : row \in rows \/ row.by = r
      /\ \A row \in rows : row \in rows' \/ row.by = r \/ row \in doomed[r]
  BY RowsMove
<1>3. LockOf(s)
  BY DEF Locks
<1>4. Own(s)'
  BY <1>1, <1>2, <1>3 DEF LockOf, Own
<1>5. Held(s)'
  <2>1. \A row \in doomed[s] \cup targets[s] : Settled(row)'
    BY <1>3, SettledStays DEF LockOf, Held
  <2>2. doomed[s] \subseteq rows /\ doomed[s] \cap doomed[r] = {}
    BY <1>3 DEF LockOf, Held, Locks, Exclusive
  <2>3. ASSUME NEW row \in doomed[s], row.by = r PROVE row \in rows'
    <3>1. ~Open(r)
      BY <2>3, HeldAreSettled
    <3>2. Begin(r)
      BY <3>1, Started, CycleOpen DEF Open
    <3>. QED
      BY <2>2, <3>2 DEF Begin, table
  <2>4. doomed[s] \subseteq rows'
    BY <1>2, <2>2, <2>3
  <2>. QED
    BY <1>1, <1>3, <2>1, <2>4 DEF LockOf, Held
<1>6. Brought(s)'
  <2>1. ASSUME Open(s), NEW z, [project |-> op[s].project, z |-> z, by |-> s] \in rows
        PROVE  [project |-> op[s].project, z |-> z, by |-> s] \in rows'
    <3>. PICK row \in rows : row = [project |-> op[s].project, z |-> z, by |-> s]
      BY <2>1
    <3>1. row.by = s /\ row \notin doomed[r]
      BY <2>1, HeldAreSettled
    <3>. QED
      BY <1>2, <3>1
  <2>2. Open(s)' <=> Open(s)
    BY <1>1 DEF Open
  <2>. QED
    BY <1>1, <1>3, <2>1, <2>2 DEF LockOf, Brought
<1>. QED
  BY <1>4, <1>5, <1>6 DEF LockOf

LEMMA OwnLocks ==
    ASSUME TypeOK, TypeOK', Control, Control', Locks, NEW r \in Request, Step(r)
    PROVE  LockOf(r)'
<1>0. LockOf(r) /\ ControlOf(r)
  BY DEF Locks, Control
<1>1. \A row \in doomed[r] \cup targets[r] : Settled(row)'
  BY <1>0, SettledStays DEF LockOf, Held
<1>2. CASE Aborts(r) \/ Commit(r)
  <2>1. pc'[r] = "done" /\ op' = op
    BY <1>2 DEF Aborts, Abort, Commit, TypeOK
  <2>2. doomed'[r] = {} /\ targets'[r] = {}
    BY <2>1 DEF Control, ControlOf
  <2>3. \A row \in rows' : row \in rows
    BY <1>2 DEF Aborts, Abort, Commit
  <2>4. Own(r)' /\ Held(r)'
    BY <1>0, <2>1, <2>2, <2>3 DEF LockOf, Own, Held
  <2>5. Brought(r)'
    BY <2>1 DEF Brought, Open
  <2>. QED
    BY <2>4, <2>5 DEF LockOf
<1>3. CASE Begin(r)
  <2>1. PICK o \in Operation :
            /\ op' = [op EXCEPT ![r] = o]
            /\ rest' = [rest EXCEPT ![r] = IF o.kind = "delete" THEN <<>> ELSE o.list]
    BY <1>3 DEF Begin
  <2>2. op'[r] = o /\ rest'[r] = IF o.kind = "delete" THEN <<>> ELSE o.list
    BY <2>1 DEF TypeOK
  <2>3. /\ pc'[r] = "check" /\ pc[r] = "idle" /\ UNCHANGED <<rows, doomed, targets>>
    BY <1>3 DEF Begin, Goto, table, TypeOK
  <2>4. doomed[r] = {} /\ targets[r] = {} /\ \A row \in rows : row.by # r
    BY <1>0, <2>3 DEF LockOf, Own, ControlOf
  <2>5. ToSet(<<>>) = {}
    BY DEF ToSet
  <2>. QED
    BY <2>2, <2>3, <2>4, <2>5 DEF LockOf, Own, Held, Brought
<1>4. CASE CheckProject(r) /\ ~Aborts(r)
  <2>1. /\ pc'[r] \in {"insert", "snapshot"} /\ pc[r] = "check"
        /\ UNCHANGED <<rows, doomed, targets, op, rest>>
    BY <1>4 DEF CheckProject, Aborts, Goto, table, TypeOK
  <2>2. doomed[r] = {} /\ targets[r] = {} /\ \A row \in rows : row.by # r
    BY <1>0, <2>1 DEF LockOf, Own, ControlOf
  <2>. QED
    BY <1>0, <2>1, <2>2 DEF LockOf, Own, Held, Brought, Open
<1>5. CASE StartDelete(r)
  <2>1. /\ pc'[r] = "delete" /\ pc[r] = "snapshot" /\ UNCHANGED <<rows, doomed, op, rest>>
        /\ targets'[r] = {row \in Visible(r) : /\ row.project = op[r].project
                                               /\ op[r].kind = "delete" => row.z = Head(op[r].list)}
    BY <1>5 DEF StartDelete, Goto, table, TypeOK
  <2>2. doomed[r] = {} /\ \A row \in rows : row.by # r
    BY <1>0, <2>1 DEF LockOf, Own, ControlOf
  <2>3. \A row \in Visible(r) : row \in rows /\ Settled(row)
    BY <2>2 DEF Visible, Committed, Open, Settled, Locks, LockOf, Own
  <2>4. \A row \in targets'[r] : Settled(row)'
    BY <2>1, <2>3, SettledStays
  <2>. QED
    BY <1>0, <2>1, <2>2, <2>4 DEF LockOf, Own, Held, Brought, Open
<1>6. CASE DeleteRow(r)
  <2>1. /\ rows' = rows /\ Victim(r) \in targets[r] /\ targets'[r] \subseteq targets[r]
        /\ doomed'[r] = doomed[r] \cup ({Victim(r)} \cap rows)
        /\ UNCHANGED <<pc, op, rest>> /\ pc[r] = "delete" /\ targets[r] # {}
    BY <1>6, VictimThere DEF DeleteRow, TypeOK
  <2>2. \A row \in rows : row.by # r
    BY <1>0, <2>1 DEF LockOf, Own
  <2>3. Own(r)' /\ Brought(r)'
    BY <1>0, <2>1, <2>2 DEF LockOf, Own, Brought, Open
  <2>4. Held(r)'
    BY <1>0, <1>1, <2>1 DEF LockOf, Held
  <2>. QED
    BY <2>3, <2>4 DEF LockOf
<1>7. CASE Insert(r) /\ ~Aborts(r)
  <2>1. /\ rows' = rows \cup {NewRow(r)} /\ rest[r] # <<>> /\ rest'[r] = Tail(rest[r])
        /\ UNCHANGED <<pc, op, doomed, targets>> /\ Deleted(r)
    BY <1>7 DEF Insert, Aborts, TypeOK
  <2>2. /\ pc[r] \in {"insert", "delete"} /\ (pc[r] = "delete" => targets[r] = {})
        /\ op[r].kind # "delete" /\ op[r] # NoOp /\ Open(r)
    BY <1>0, <2>1 DEF Deleted, ControlOf, Open
  <2>3. /\ NewRow(r) = [project |-> op[r].project, z |-> Head(rest[r]), by |-> r]
        /\ NewRow(r).project = op[r].project /\ NewRow(r).z = Head(rest[r])
    BY DEF NewRow
  <2>4. ToSet(rest[r]) = {Head(rest[r])} \cup ToSet(rest'[r])
    BY <2>1, RestSet DEF TypeOK
  <2>5. ToSet(rest[r]) \subseteq ToSet(op[r].list)
    BY <1>0, <2>2 DEF LockOf, Brought
  <2>6. Own(r)'
    BY <1>0, <2>1, <2>2, <2>3, <2>4, <2>5 DEF LockOf, Own
  <2>7. Brought(r)'
    BY <1>0, <2>1, <2>2, <2>3, <2>4, <2>5 DEF LockOf, Brought, Open
  <2>8. Held(r)'
    BY <1>0, <1>1, <2>1 DEF LockOf, Held
  <2>. QED
    BY <2>6, <2>7, <2>8 DEF LockOf
<1>8. CASE ReadBack(r)
  <2>1. /\ pc'[r] = "commit" /\ pc[r] \in {"delete", "insert"} /\ targets' = targets
        /\ UNCHANGED <<rows, doomed, op, rest>>
    BY <1>8 DEF ReadBack, Deleted, Goto, table, TypeOK
  <2>2. Own(r)' /\ Brought(r)'
    BY <1>0, <2>1 DEF LockOf, Own, Brought, Open
  <2>3. Held(r)'
    BY <1>0, <1>1, <2>1 DEF LockOf, Held
  <2>. QED
    BY <2>2, <2>3 DEF LockOf
<1>. QED
  BY <1>2, <1>3, <1>4, <1>5, <1>6, <1>7, <1>8, LockSteps

LEMMA ExclusiveStep ==
    ASSUME TypeOK, Control, Locks, NEW r \in Request, Step(r)
    PROVE  Exclusive'
<1>1. \A s \in Request : s # r => doomed'[s] = doomed[s]
  BY OthersUntouched DEF Untouched
<1>2. CASE doomed'[r] \subseteq doomed[r]
  BY <1>1, <1>2 DEF Locks, Exclusive
<1>3. CASE DeleteRow(r) /\ (Victim(r) \in rows => Undecided(r, Victim(r)) = {})
  <2>1. doomed'[r] = doomed[r] \cup ({Victim(r)} \cap rows)
    BY <1>3 DEF DeleteRow, TypeOK
  <2>2. ASSUME NEW s \in Request, s # r, Victim(r) \in rows PROVE Victim(r) \notin doomed[s]
    <3>1. doomed[s] # {} => Open(s)
      BY DEF Control, ControlOf, Open
    <3>. QED
      BY <1>3, <2>2, <3>1 DEF Undecided
  <2>. QED
    BY <1>1, <2>1, <2>2 DEF Locks, Exclusive
<1>4. Aborts(r) \/ Commit(r) => doomed'[r] = {}
  BY DEF Aborts, Abort, Commit, Forgotten
<1>. QED
  BY <1>2, <1>3, <1>4, LockSteps

LEMMA UniqueStep ==
    ASSUME TypeOK, Control, Locks, NEW r \in Request, Step(r)
    PROVE  Unique'
<1>0. /\ \A row \in rows' : row \in rows \/ row.by = r
      /\ \A s \in Request : s # r => doomed'[s] = doomed[s]
  BY RowsMove, OthersUntouched DEF Untouched
<1>1. CASE Aborts(r) \/ Commit(r)
  <2>1. \A row \in rows' : row \in rows /\ (Aborts(r) => row.by # r) /\ (Commit(r) => row \notin doomed[r])
    BY <1>1 DEF Aborts, Abort, Commit
  <2>2. ASSUME NEW x \in rows', NEW y \in rows', Replaced(x, y) PROVE Replaced(x, y)'
    <3>1. PICK s \in Request : x \in doomed[s] /\ y.by = s
      BY <2>2 DEF Replaced
    <3>2. s # r
      BY <1>1, <2>1, <3>1
    <3>. QED
      BY <1>0, <3>1, <3>2 DEF Replaced
  <2>. QED
    BY <2>1, <2>2 DEF Locks, Unique
<1>2. CASE rows' = rows /\ (\A s \in Request : doomed[s] \subseteq doomed'[s])
  BY <1>2 DEF Locks, Unique, Replaced
<1>3. CASE rows' = rows \cup {NewRow(r)} /\ InTheWay(r) = {} /\ UNCHANGED doomed
  <2>. PICK new : new = NewRow(r)
    OBVIOUS
  <2>1. ASSUME NEW x \in rows, SameKey(x, new) PROVE x \in doomed[r] /\ new.by = r
    <3>1. KeysOf({x}) = KeysOf({new})
      BY <2>1 DEF KeysOf, SameKey
    <3>. QED
      BY <1>3, <3>1 DEF InTheWay, NewRow
  <2>2. \A x, y : SameKey(x, y) => SameKey(y, x)
    BY DEF SameKey
  <2>3. \A x \in rows : SameKey(x, new) => Replaced(x, new)'
    BY <1>3, <2>1 DEF Replaced
  <2>4. \A x, y : Replaced(x, y)' = Replaced(x, y)
    BY <1>3 DEF Replaced
  <2>. QED
    BY <1>3, <2>2, <2>3, <2>4 DEF Locks, Unique
<1>4. DeleteRow(r) => \A s \in Request : doomed[s] \subseteq doomed'[s]
  BY <1>0 DEF DeleteRow, TypeOK
<1>. QED
  BY <1>1, <1>2, <1>3, <1>4, LockSteps

LEMMA LocksHold == Spec => [](TypeOK /\ Control /\ Locks)
<1>1. Init => Locks
  <2>. SUFFICES ASSUME Init PROVE Locks
    OBVIOUS
  <2>1. \A row \in rows : row.by \in Project /\ row.by = row.project
    BY ProjectAssumption DEF Init
  <2>2. \A row \in rows : row.by \notin Request
    BY <2>1, ProjectAssumption
  <2>3. Unique
    <3>1. \A x, y \in rows : SameKey(x, y) => x = y
      BY DEF Init, SameKey
    <3>. QED
      BY <3>1 DEF Unique
  <2>. QED
    BY <2>2, <2>3 DEF Init, Locks, LockOf, Own, Held, Brought, Exclusive, Open
<1>2. TypeOK /\ TypeOK' /\ Control /\ Control' /\ Locks /\ [Next]_vars => Locks'
  <2>. SUFFICES ASSUME TypeOK, TypeOK', Control, Control', Locks, [Next]_vars PROVE Locks'
    OBVIOUS
  <2>1. ASSUME NEW r \in Request, Step(r) PROVE Locks'
    BY <2>1, OthersLocks, OwnLocks, ExclusiveStep, UniqueStep DEF Locks
  <2>2. CASE UNCHANGED <<rows, doomed, op, pc, targets, rest>>
    BY <2>2 DEF Locks, LockOf, Own, Held, Brought, Exclusive, Unique, Replaced, Settled, Open
  <2>. QED
    BY <2>1, <2>2 DEF Next, AddProject, AllDone, Step, vars
<1>. QED
  BY <1>1, <1>2, TypedControl, PTL DEF Spec

-----------------------------------------------------------------------------
(* What the answer shows.                                                  *)
Shown(r) == IF op[r].kind = "delete" THEN ToSet(op[r].list) \cap answer[r] = {}
            ELSE ToSet(op[r].list) \subseteq answer[r]

Answers == \A r \in Request : pc[r] = "commit" \/ reply[r] = "ok" => Shown(r)

(* A row that a request deletes has no other with its key beside it, but   *)
(* for those the request itself inserted.                                  *)
LEMMA OneRow ==
    ASSUME Control, Locks, NEW r \in Request, NEW x \in doomed[r],
           NEW y \in rows, SameKey(x, y), x # y
    PROVE  y.by = r
<1>1. x \in rows /\ Settled(x)
  BY DEF Locks, LockOf, Held
<1>2. CASE Replaced(x, y)
  <2>1. PICK s \in Request : x \in doomed[s] /\ y.by = s
    BY <1>2 DEF Replaced
  <2>. QED
    BY <2>1 DEF Locks, Exclusive
<1>3. CASE Replaced(y, x)
  <2>1. PICK s \in Request : y \in doomed[s] /\ x.by = s
    BY <1>3 DEF Replaced
  <2>2. pc[s] = "done" /\ doomed[s] # {}
    BY <1>1, <2>1 DEF Settled
  <2>. QED
    BY <2>2 DEF Control, ControlOf
<1>. QED
  BY <1>1, <1>2, <1>3 DEF Locks, Unique

LEMMA ReadBackShows ==
    ASSUME TypeOK, Control, Locks, NEW r \in Request, ReadBack(r)
    PROVE  Shown(r)'
<1>1. /\ Deleted(r) /\ rest[r] = <<>> /\ op' = op /\ pc[r] \in {"delete", "insert"} /\ Open(r)
      /\ answer'[r] = {row.z : row \in {s \in Visible(r) : s.project = op[r].project}}
  BY DEF ReadBack, Deleted, Seen, Open, TypeOK
<1>2. op[r] # NoOp /\ ControlOf(r) /\ LockOf(r)
  BY <1>1 DEF Control, ControlOf, Locks
<1>3. CASE op[r].kind = "delete"
  <2>1. PICK z \in Z : op[r].list = <<z>>
    BY <1>2, <1>3, OpFields
  <2>2. ToSet(op[r].list) = {z} /\ Head(op[r].list) = z
    BY <2>1 DEF ToSet
  <2>3. ~Missed(r)
    BY <1>1, <1>2, <1>3 DEF Deleted, ControlOf
  <2>4. PICK x \in doomed[r] : x.project = op[r].project /\ x.z = z
    BY <1>2, <1>3, <2>2, <2>3 DEF Missed, LockOf, Held
  <2>5. ASSUME NEW y \in Visible(r), y.project = op[r].project, y.z = z PROVE FALSE
    <3>1. y \in rows /\ y # x
      BY <2>5 DEF Visible
    <3>2. y.by = r
      BY <2>4, <2>5, <3>1, OneRow DEF SameKey
    <3>. QED
      BY <1>2, <1>3, <3>1, <3>2 DEF LockOf, Own
  <2>. QED
    BY <1>1, <1>3, <2>2, <2>5 DEF Shown
<1>4. CASE op[r].kind # "delete"
  <2>1. ToSet(rest[r]) = {}
    BY <1>1 DEF ToSet
  <2>2. ASSUME NEW z \in ToSet(op[r].list) PROVE z \in answer'[r]
    <3>. DEFINE row == [project |-> op[r].project, z |-> z, by |-> r]
    <3>1. row \in rows
      BY <1>1, <1>2, <1>4, <2>1 DEF LockOf, Brought
    <3>2. row.by = r /\ row.project = op[r].project /\ row.z = z
      OBVIOUS
    <3>. HIDE DEF row
    <3>3. row \notin doomed[r]
      BY <1>1, <3>2, HeldAreSettled
    <3>4. row \in Visible(r)
      BY <3>1, <3>2, <3>3 DEF Visible
    <3>. QED
      BY <1>1, <3>2, <3>4
  <2>. QED
    BY <1>1, <1>4, <2>2 DEF Shown
<1>. QED
  BY <1>3, <1>4

LEMMA AnswersStep ==
    ASSUME TypeOK, Control, Control', Locks, Answers, NEW r \in Request, Step(r)
    PROVE  Answers'
<1>1. ASSUME NEW s \in Request, s # r, pc'[s] = "commit" \/ reply'[s] = "ok" PROVE Shown(s)'
  <2>1. Untouched(r, s)
    BY <1>1, OthersUntouched
  <2>. QED
    BY <1>1, <2>1 DEF Untouched, Answers, Shown
<1>2. CASE ReadBack(r)
  BY <1>1, <1>2, ReadBackShows DEF Answers
<1>3. CASE Commit(r)
  <2>1. op' = op /\ pc[r] = "commit" /\ pc'[r] = "done" /\ (reply'[r] = "ok" => answer'[r] = answer[r])
    BY <1>3 DEF Commit, TypeOK
  <2>. QED
    BY <1>1, <2>1 DEF Answers, Shown
<1>4. CASE pc'[r] # "commit" /\ reply'[r] # "ok"
  BY <1>1, <1>4 DEF Answers
<1>5. Aborts(r) => pc'[r] # "commit" /\ reply'[r] # "ok"
  BY DEF Aborts, Abort, TypeOK
<1>6. ASSUME \/ Begin(r) \/ (CheckProject(r) /\ ~Aborts(r)) \/ StartDelete(r)
             \/ DeleteRow(r) \/ (Insert(r) /\ ~Aborts(r))
      PROVE  pc'[r] # "commit" /\ reply'[r] # "ok"
  <2>1. pc'[r] \notin {"commit", "done"}
    BY <1>6 DEF Begin, CheckProject, StartDelete, DeleteRow, Insert, Deleted, Aborts, Goto, TypeOK
  <2>. QED
    BY <2>1 DEF Control, ControlOf
<1>. QED
  BY <1>2, <1>3, <1>4, <1>5, <1>6, LockSteps

(* Whoever is told of success is shown a project with what was set or      *)
(* added, and without what was deleted, whoever else changed it meanwhile  *)
(* (vsds.go:239-475).                                                      *)
THEOREM AnswersTruthfulHolds == Spec => []AnswersTruthful
<1>1. Init => Answers
  BY DEF Init, Answers
<1>2. TypeOK /\ Control /\ Control' /\ Locks /\ Answers /\ [Next]_vars => Answers'
  <2>. SUFFICES ASSUME TypeOK, Control, Control', Locks, Answers, [Next]_vars PROVE Answers'
    OBVIOUS
  <2>1. ASSUME NEW r \in Request, Step(r) PROVE Answers'
    BY <2>1, AnswersStep
  <2>2. CASE UNCHANGED <<op, pc, answer, reply>>
    BY <2>2 DEF Answers, Shown
  <2>. QED
    BY <2>1, <2>2 DEF Next, AddProject, AllDone, Step, vars
<1>3. Answers => AnswersTruthful
  BY DEF Answers, Shown, AnswersTruthful
<1>. QED
  BY <1>1, <1>2, <1>3, LocksHold, PTL DEF Spec

-----------------------------------------------------------------------------
(* What everyone sees changes at a commit, and only there.                 *)
Mine(r) == {row \in rows : row.by = r}

LEMMA LiveStays ==
    ASSUME TypeOK, Control, Locks, NEW r \in Request, Step(r), ~Commit(r)
    PROVE  Live' = Live
<1>1. \A s \in Request : s # r => pc'[s] = pc[s]
  BY OthersUntouched DEF Untouched
<1>2. CASE Aborts(r) /\ Open(r)
  <2>1. rows' = {row \in rows : row.by # r}
    BY <1>2 DEF Aborts, Abort
  <2>. QED
    BY <1>1, <1>2, <2>1 DEF Live, Committed, Open
<1>3. CASE Begin(r)
  <2>1. rows' = rows /\ \A row \in rows : row.by # r
    BY <1>3 DEF Begin, table, Locks, LockOf, Own
  <2>. QED
    BY <1>1, <2>1 DEF Live, Committed, Open
<1>4. CASE Open(r) /\ Open(r)' /\ (rows' = rows \/ rows' = rows \cup {NewRow(r)})
  BY <1>1, <1>4 DEF Live, Committed, Open, NewRow
<1>5. ASSUME \/ (CheckProject(r) /\ ~Aborts(r)) \/ StartDelete(r) \/ ReadBack(r)
             \/ DeleteRow(r) \/ (Insert(r) /\ ~Aborts(r))
      PROVE  Open(r) /\ Open(r)'
  BY <1>5 DEF CheckProject, StartDelete, DeleteRow, Insert, ReadBack, Deleted, Aborts, Goto,
              Open, TypeOK
<1>6. \/ (Aborts(r) /\ Open(r)) \/ Begin(r)
      \/ /\ \/ (CheckProject(r) /\ ~Aborts(r)) \/ StartDelete(r) \/ ReadBack(r)
            \/ DeleteRow(r) \/ (Insert(r) /\ ~Aborts(r))
         /\ rows' = rows \/ rows' = rows \cup {NewRow(r)}
  BY LockSteps
<1>7. CASE (Aborts(r) /\ Open(r)) \/ Begin(r)
  BY <1>2, <1>3, <1>7
<1>. QED
  BY <1>4, <1>5, <1>6, <1>7

LEMMA LiveCommit ==
    ASSUME TypeOK, Control, Locks, NEW r \in Request, Commit(r)
    PROVE  /\ Live' = (Live \ doomed[r]) \cup Mine(r)
           /\ doomed[r] \subseteq Live /\ Mine(r) \cap doomed[r] = {}
           /\ Mine(r) \cap Live = {}
<1>0. Step(r) /\ Open(r)
  BY DEF Step, Commit, Open
<1>1. \A s \in Request : s # r => pc'[s] = pc[s]
  BY <1>0, OthersUntouched DEF Untouched
<1>2. rows' = rows \ doomed[r] /\ pc'[r] = "done"
  BY DEF Commit, TypeOK
<1>3. doomed[r] \subseteq rows /\ \A row \in doomed[r] : Settled(row) /\ row.by # r
  BY <1>0, HeldAreSettled DEF Locks, LockOf, Held
<1>4. doomed[r] \subseteq Live
  BY <1>3 DEF Live, Committed, Settled, Open
<1>5. Mine(r) \cap doomed[r] = {} /\ Mine(r) \cap Live = {}
  BY <1>0, <1>3 DEF Mine, Live, Committed
<1>6. \A row \in rows' : Committed(row)' <=> Committed(row) \/ row.by = r
  BY <1>0, <1>1, <1>2 DEF Committed, Open
<1>. QED
  BY <1>2, <1>4, <1>5, <1>6 DEF Live, Mine

-----------------------------------------------------------------------------
(* What a request has missed is in its history.                            *)
KeyOf(row) == <<row.project, row.z>>
Target(r) == <<op[r].project, Head(op[r].list)>>

HistoryOf(r) ==
    /\ op[r].kind = "delete" /\ pc[r] \in {"check", "snapshot"} =>
           (\E row \in Live : KeyOf(row) = Target(r)) \/ Target(r) \in gone[r]
    /\ op[r].kind = "delete" /\ pc[r] = "delete" =>
           (\E row \in (targets[r] \cap rows) \cup doomed[r] : KeyOf(row) = Target(r))
               \/ Target(r) \in gone[r]
    /\ op[r].kind = "set" /\ pc[r] \in {"delete", "commit"} =>
           \A row \in Live : row.project = op[r].project =>
               row \in targets[r] \cup doomed[r] \/ KeyOf(row) \in added[r]

History == \A r \in Request : HistoryOf(r)

LEMMA OthersHistory ==
    ASSUME TypeOK, Control, Locks, History, NEW r \in Request, Step(r),
           NEW s \in Request, s # r
    PROVE  HistoryOf(s)'
<1>0. /\ op'[s] = op[s] /\ pc'[s] = pc[s] /\ targets'[s] = targets[s] /\ doomed'[s] = doomed[s]
      /\ Target(s)' = Target(s) /\ HistoryOf(s)
  BY OthersUntouched DEF Untouched, Target, History
<1>1. \A row \in targets[s] \cap rows : row \in rows' \/ row \in doomed[r]
  <2>1. CASE Begin(r)
    BY <2>1 DEF Begin, table
  <2>2. CASE Open(r)
    <3>1. \A row \in targets[s] : row.by # r
      BY <2>2, HeldAreSettled
    <3>. QED
      BY <3>1, RowsMove
  <2>. QED
    BY <2>1, <2>2, Started, CycleOpen DEF Open
<1>2. CASE Commit(r)
  <2>1. Live' = (Live \ doomed[r]) \cup Mine(r)
    BY <1>2, LiveCommit
  <2>2. Open(s) => /\ added'[s] = added[s] \cup KeysOf(Mine(r))
                   /\ gone'[s] = gone[s] \cup KeysOf(doomed[r])
    BY <1>2 DEF Commit, Noted, Mine
  <2>3. /\ \A row \in Mine(r) : KeyOf(row) \in KeysOf(Mine(r))
        /\ \A row \in doomed[r] : KeyOf(row) \in KeysOf(doomed[r])
    BY DEF KeysOf, KeyOf
  <2>4. CASE ~Open(s)
    BY <1>0, <2>4 DEF HistoryOf, Open
  <2>5. CASE Open(s)
    BY <1>0, <1>1, <2>1, <2>2, <2>3, <2>5 DEF HistoryOf
  <2>. QED
    BY <2>4, <2>5
<1>3. CASE ~Commit(r)
  <2>1. Live' = Live
    BY <1>3, LiveStays
  <2>2. \A row \in targets[s] \cap rows : row \in rows'
    <3>1. CASE Aborts(r) /\ Open(r)
      BY <3>1, HeldAreSettled DEF Aborts, Abort
    <3>. QED
      BY <1>3, <3>1, LockSteps
  <2>3. added'[s] = added[s] /\ gone'[s] = gone[s]
    <3>1. CASE Aborts(r)
      BY <3>1 DEF Aborts, Abort, Forgotten
    <3>2. CASE Begin(r)
      BY <3>2 DEF Begin, TypeOK
    <3>3. CASE ~Aborts(r) /\ ~Begin(r)
      BY <1>3, <3>3 DEF Step, CheckProject, StartDelete, DeleteRow, NothingDeleted, Insert, ReadBack,
                        Lose, DeadlockVictim, Aborts, history
    <3>. QED
      BY <3>1, <3>2, <3>3
  <2>. QED
    BY <1>0, <2>1, <2>2, <2>3 DEF HistoryOf
<1>. QED
  BY <1>2, <1>3

LEMMA OwnHistory ==
    ASSUME TypeOK, Control, Locks, History, NEW r \in Request, Step(r)
    PROVE  HistoryOf(r)'
<1>0. HistoryOf(r) /\ ControlOf(r) /\ LockOf(r)
  BY DEF History, Control, Locks
<1>1. CASE Aborts(r) \/ Commit(r)
  <2>1. pc'[r] = "done"
    BY <1>1 DEF Aborts, Abort, Commit, TypeOK
  <2>. QED
    BY <2>1 DEF HistoryOf
<1>2. ~Commit(r) => Live' = Live
  BY LiveStays
<1>3. CASE Begin(r)
  <2>1. PICK o \in Operation : op' = [op EXCEPT ![r] = o]
    BY <1>3 DEF Begin
  <2>2. op'[r] = o /\ pc'[r] = "check" /\ gone'[r] = (Project \X Z) \ KeysOf(Live)
    BY <1>3, <2>1 DEF Begin, Goto, TypeOK
  <2>3. ASSUME o.kind = "delete"
        PROVE  (\E row \in Live : KeyOf(row) = Target(r)') \/ Target(r)' \in gone'[r]
    <3>1. o.project \in Project /\ \E z \in Z : o.list = <<z>>
      BY <2>3 DEF Operation
    <3>2. Target(r)' \in Project \X Z
      BY <2>2, <3>1 DEF Target
    <3>. QED
      BY <2>2, <3>2 DEF KeysOf, KeyOf
  <2>4. Live' = Live
    BY <1>2, <1>3 DEF Begin, Commit
  <2>. QED
    BY <2>2, <2>3, <2>4 DEF HistoryOf
<1>4. CASE CheckProject(r) /\ ~Aborts(r)
  <2>1. /\ pc'[r] \in {"insert", "snapshot"} /\ pc[r] = "check" /\ UNCHANGED <<op, gone>>
        /\ Live' = Live
    BY <1>2, <1>4 DEF CheckProject, Aborts, Goto, Commit, history, TypeOK
  <2>. QED
    BY <1>0, <2>1 DEF HistoryOf, Target
<1>5. CASE StartDelete(r)
  <2>1. /\ pc'[r] = "delete" /\ pc[r] = "snapshot" /\ UNCHANGED <<rows, doomed, op, gone, added>>
        /\ targets'[r] = {row \in Visible(r) : /\ row.project = op[r].project
                                               /\ op[r].kind = "delete" => row.z = Head(op[r].list)}
        /\ Live' = Live
    BY <1>2, <1>5 DEF StartDelete, Goto, Commit, table, history, TypeOK
  <2>2. Live \subseteq Visible(r) /\ Live \subseteq rows
    BY <1>0, <2>1 DEF Live, Visible, ControlOf
  <2>3. \A row \in Live : KeyOf(row) = Target(r) => row \in targets'[r] \cap rows'
    BY <2>1, <2>2 DEF KeyOf, Target
  <2>. QED
    BY <1>0, <2>1, <2>2, <2>3 DEF HistoryOf, Target
<1>6. CASE DeleteRow(r)
  <2>1. /\ targets'[r] = targets[r] \ {Victim(r)} /\ doomed'[r] = doomed[r] \cup ({Victim(r)} \cap rows)
        /\ UNCHANGED <<rows, pc, op, gone, added>> /\ Live' = Live
    BY <1>2, <1>6 DEF DeleteRow, Commit, history, TypeOK
  <2>2. (targets[r] \cap rows) \cup doomed[r] \subseteq (targets'[r] \cap rows) \cup doomed'[r]
    BY <2>1
  <2>3. Live \subseteq rows
    BY DEF Live
  <2>. QED
    BY <1>0, <2>1, <2>2, <2>3 DEF HistoryOf, Target
<1>7. CASE Insert(r) /\ ~Aborts(r)
  <2>1. /\ rows \subseteq rows' /\ UNCHANGED <<pc, op, gone, added, targets, doomed>> /\ Live' = Live
    BY <1>2, <1>7 DEF Insert, Deleted, Aborts, Commit, history
  <2>. QED
    BY <1>0, <2>1 DEF HistoryOf, Target
<1>8. CASE ReadBack(r)
  <2>1. /\ pc'[r] = "commit" /\ UNCHANGED <<rows, doomed, op, gone, added, targets>> /\ Live' = Live
        /\ pc[r] \in {"delete", "insert"}
    BY <1>2, <1>8 DEF ReadBack, Deleted, Goto, Commit, table, history, TypeOK
  <2>. QED
    BY <1>0, <2>1 DEF HistoryOf, Target, ControlOf
<1>. QED
  BY <1>1, <1>3, <1>4, <1>5, <1>6, <1>7, <1>8, LockSteps

LEMMA HistoryHolds == Spec => [](TypeOK /\ Control /\ Locks /\ History)
<1>1. Init => History
  BY DEF Init, History, HistoryOf
<1>2. TypeOK /\ Control /\ Locks /\ History /\ [Next]_vars => History'
  <2>. SUFFICES ASSUME TypeOK, Control, Locks, History, [Next]_vars PROVE History'
    OBVIOUS
  <2>1. ASSUME NEW r \in Request, Step(r) PROVE History'
    BY <2>1, OthersHistory, OwnHistory DEF History
  <2>2. CASE UNCHANGED <<rows, doomed, op, pc, targets, history>>
    BY <2>2 DEF History, HistoryOf, Target, Live, Committed, Open, history
  <2>. QED
    BY <2>1, <2>2 DEF Next, AddProject, AllDone, Step, vars, history
<1>. QED
  BY <1>1, <1>2, LocksHold, PTL DEF Spec

-----------------------------------------------------------------------------
(* An add inserts its one value once.                                      *)
OnceOf(r) == op[r].kind = "add" /\ rest[r] # <<>> =>
    rest[r] = op[r].list /\ \A row \in rows : row.by # r

Once == \A r \in Request : OnceOf(r)

LEMMA OnceStep ==
    ASSUME TypeOK, TypeOK', Control, Locks, Once, NEW r \in Request, Step(r)
    PROVE  Once'
<1>0. LockOf(r) /\ ControlOf(r) /\ OnceOf(r)
  BY DEF Locks, Control, Once
<1>1. \A row \in rows' : row \in rows \/ row.by = r
  BY RowsMove
<1>2. ASSUME NEW s \in Request, s # r PROVE OnceOf(s)'
  <2>1. Untouched(r, s) /\ OnceOf(s)
    BY <1>2, OthersUntouched DEF Once
  <2>. QED
    BY <1>1, <1>2, <2>1 DEF OnceOf, Untouched
<1>3. CASE Begin(r)
  <2>1. PICK o \in Operation :
            /\ op' = [op EXCEPT ![r] = o]
            /\ rest' = [rest EXCEPT ![r] = IF o.kind = "delete" THEN <<>> ELSE o.list]
    BY <1>3 DEF Begin
  <2>2. op'[r] = o /\ rest'[r] = IF o.kind = "delete" THEN <<>> ELSE o.list
    BY <2>1 DEF TypeOK
  <2>3. rows' = rows /\ \A row \in rows : row.by # r
    BY <1>0, <1>3 DEF Begin, table, LockOf, Own
  <2>. QED
    BY <1>2, <2>2, <2>3 DEF Once, OnceOf
<1>4. CASE Aborts(r)
  <2>1. rest'[r] = <<>>
    BY <1>4 DEF Aborts, Abort, TypeOK
  <2>. QED
    BY <1>2, <2>1 DEF Once, OnceOf
<1>5. CASE Commit(r)
  <2>1. UNCHANGED <<op, rest>> /\ rows' \subseteq rows
    BY <1>5 DEF Commit
  <2>. QED
    BY <1>0, <1>2, <2>1 DEF Once, OnceOf
<1>6. CASE (CheckProject(r) /\ ~Aborts(r)) \/ StartDelete(r) \/ ReadBack(r) \/ DeleteRow(r)
  <2>1. UNCHANGED <<rows, op, rest>>
    BY <1>6 DEF CheckProject, StartDelete, ReadBack, DeleteRow, Aborts, table
  <2>. QED
    BY <1>0, <1>2, <2>1 DEF Once, OnceOf
<1>7. CASE Insert(r) /\ ~Aborts(r)
  <2>1. rest[r] # <<>> /\ rest'[r] = Tail(rest[r]) /\ op' = op /\ Deleted(r)
    BY <1>7 DEF Insert, Aborts, TypeOK
  <2>2. ASSUME op[r].kind = "add" PROVE rest'[r] = <<>>
    <3>1. op[r] # NoOp
      BY <1>0, <2>1 DEF Deleted, ControlOf
    <3>2. PICK z \in Z : op[r].list = <<z>>
      BY <2>2, <3>1, OpFields
    <3>3. rest[r] = <<z>>
      BY <1>0, <2>1, <2>2, <3>2 DEF OnceOf
    <3>4. Tail(<<z>>) = <<>>
      OBVIOUS
    <3>. QED
      BY <2>1, <3>3, <3>4
  <2>. QED
    BY <1>2, <2>1, <2>2 DEF Once, OnceOf
<1>. QED
  BY <1>3, <1>4, <1>5, <1>6, <1>7, LockSteps

LEMMA OnceHolds == Spec => []Once
<1>1. Init => Once
  BY DEF Init, Once, OnceOf
<1>2. TypeOK /\ TypeOK' /\ Control /\ Locks /\ Once /\ [Next]_vars => Once'
  <2>. SUFFICES ASSUME TypeOK, TypeOK', Control, Locks, Once, [Next]_vars PROVE Once'
    OBVIOUS
  <2>1. ASSUME NEW r \in Request, Step(r) PROVE Once'
    BY <2>1, OnceStep
  <2>2. CASE UNCHANGED <<rows, op, rest>>
    BY <2>2 DEF Once, OnceOf
  <2>. QED
    BY <2>1, <2>2 DEF Next, AddProject, AllDone, Step, vars
<1>. QED
  BY <1>1, <1>2, LocksHold, PTL DEF Spec

-----------------------------------------------------------------------------
(* The requests implement ZSampleSet.                                      *)

LEMMA RunningIsOpen ==
    ASSUME TypeOK, Control, NEW r \in Request PROVE Endpoint!Running(r) <=> Open(r)
  BY DEF Control, ControlOf, Endpoint!Running, Endpoint!NoOp, NoOp, Open, TypeOK

LEMMA WantedKeys ==
    ASSUME NEW r \in Request
    PROVE  Endpoint!Wanted(op[r]) = {<<op[r].project, z>> : z \in ToSet(op[r].list)}
  BY DEF Endpoint!Wanted, Endpoint!ToSet, ToSet

(* An add or a delete is about one key.                                    *)
LEMMA OneTarget ==
    ASSUME TypeOK, NEW r \in Request, op[r] # NoOp, op[r].kind # "set"
    PROVE  Endpoint!Wanted(op[r]) = {Target(r)}
<1>1. PICK z \in Z : op[r].list = <<z>>
  BY OpFields
<1>2. ToSet(op[r].list) = {z} /\ Head(op[r].list) = z
  BY <1>1 DEF ToSet
<1>. QED
  BY <1>2, WantedKeys DEF Target

(* The keys of a commit: the deleted rows go with their keys, the new ones *)
(* are those asked for.                                                    *)
LEMMA CommitKeys ==
    ASSUME TypeOK, Control, Locks, NEW r \in Request, Commit(r)
    PROVE  /\ KeysOf(Live') = (KeysOf(Live) \ KeysOf(doomed[r])) \cup KeysOf(Mine(r))
           /\ KeysOf(Mine(r)) = IF op[r].kind = "delete" THEN {} ELSE Endpoint!Wanted(op[r])
<1>1. /\ Live' = (Live \ doomed[r]) \cup Mine(r) /\ doomed[r] \subseteq Live
      /\ Mine(r) \cap Live = {}
  BY LiveCommit
<1>2. pc[r] = "commit" /\ Open(r) /\ LockOf(r) /\ ControlOf(r) /\ rest[r] = <<>>
  BY DEF Commit, Open, Locks, Control, ControlOf
<1>3. ASSUME NEW x \in doomed[r], NEW y \in Live \ doomed[r] PROVE KeyOf(x) # KeyOf(y)
  <2>1. y \in rows /\ y.by # r /\ x # y
    BY <1>2, <1>3 DEF Live, Committed
  <2>2. SameKey(x, y) => y.by = r
    BY <2>1, OneRow
  <2>. QED
    BY <2>1, <2>2 DEF SameKey, KeyOf
<1>4. KeysOf(Live \ doomed[r]) = KeysOf(Live) \ KeysOf(doomed[r])
  BY <1>1, <1>3 DEF KeysOf, KeyOf
<1>5. KeysOf((Live \ doomed[r]) \cup Mine(r)) = KeysOf(Live \ doomed[r]) \cup KeysOf(Mine(r))
  BY DEF KeysOf
<1>6. CASE op[r].kind = "delete"
  <2>1. Mine(r) = {}
    BY <1>2, <1>6 DEF LockOf, Own, Mine
  <2>2. KeysOf(Mine(r)) = {}
    BY <2>1 DEF KeysOf
  <2>. QED
    BY <1>1, <1>4, <1>5, <1>6, <2>2
<1>7. CASE op[r].kind # "delete"
  <2>1. \A row \in Mine(r) : row.project = op[r].project /\ row.z \in ToSet(op[r].list)
    BY <1>2 DEF LockOf, Own, Mine
  <2>2. ASSUME NEW z \in ToSet(op[r].list) PROVE <<op[r].project, z>> \in KeysOf(Mine(r))
    <3>. PICK row : row = [project |-> op[r].project, z |-> z, by |-> r]
      OBVIOUS
    <3>1. ToSet(rest[r]) = {}
      BY <1>2 DEF ToSet
    <3>2. row \in rows
      BY <1>2, <1>7, <2>2, <3>1 DEF LockOf, Brought
    <3>3. row \in Mine(r) /\ row.project = op[r].project /\ row.z = z
      BY <3>2 DEF Mine
    <3>. QED
      BY <3>3, KeysOfRow
  <2>3. KeysOf(Mine(r)) \subseteq Endpoint!Wanted(op[r])
    BY <2>1, WantedKeys DEF KeysOf
  <2>4. Endpoint!Wanted(op[r]) \subseteq KeysOf(Mine(r))
    BY <2>2, WantedKeys
  <2>. QED
    BY <1>1, <1>4, <1>5, <1>7, <2>3, <2>4
<1>. QED
  BY <1>6, <1>7

(* A replacement leaves what it has not deleted, and that was added since. *)
LEMMA CommitOfSet ==
    ASSUME TypeOK, Control, Locks, History, NEW r \in Request, Commit(r), op[r].kind = "set"
    PROVE  \E kept \in SUBSET (Endpoint!OfProject(op[r].project) \cap added[r]) :
               KeysOf(doomed[r]) = Endpoint!OfProject(op[r].project) \ kept
<1>. DEFINE p == op[r].project
            Left == {row \in Live \ doomed[r] : row.project = p}
<1>1. doomed[r] \subseteq Live /\ pc[r] = "commit" /\ Open(r) /\ targets[r] = {}
  BY LiveCommit DEF Commit, Open, Control, ControlOf
<1>2. \A row \in doomed[r] : row.project = p
  BY DEF Locks, LockOf, Held
<1>3. Endpoint!OfProject(p) = {<<row.project, row.z>> : row \in {x \in Live : x.project = p}}
  BY DEF Endpoint!OfProject, KeysOf
<1>4. KeysOf(Left) \subseteq Endpoint!OfProject(p)
  BY <1>3 DEF KeysOf
<1>5. KeysOf(Left) \subseteq added[r]
  BY <1>1 DEF History, HistoryOf, KeysOf, KeyOf
<1>6. ASSUME NEW x \in doomed[r], NEW y \in Left PROVE KeyOf(x) # KeyOf(y)
  <2>1. y \in rows /\ y.by # r /\ x # y
    BY <1>1, <1>6 DEF Live, Committed
  <2>2. SameKey(x, y) => y.by = r
    BY <2>1, OneRow
  <2>. QED
    BY <2>1, <2>2 DEF SameKey, KeyOf
<1>7. KeysOf(doomed[r]) = Endpoint!OfProject(p) \ KeysOf(Left)
  <2>1. KeysOf(doomed[r]) \subseteq Endpoint!OfProject(p)
    BY <1>1, <1>2, <1>3 DEF KeysOf
  <2>2. KeysOf(doomed[r]) \cap KeysOf(Left) = {}
    BY <1>6 DEF KeysOf, KeyOf
  <2>3. Endpoint!OfProject(p) \subseteq KeysOf(doomed[r]) \cup KeysOf(Left)
    BY <1>3 DEF KeysOf
  <2>. QED
    BY <2>1, <2>2, <2>3
<1>. HIDE DEF Left
<1>. QED
  BY <1>4, <1>5, <1>7

(* An add finds its value in no row that others see.                       *)
LEMMA CommitOfAdd ==
    ASSUME TypeOK, Control, Locks, NEW r \in Request, Commit(r), op[r].kind = "add"
    PROVE  KeysOf(Mine(r)) \cap KeysOf(Live) = {}
<1>1. Mine(r) \cap Live = {} /\ Open(r) /\ doomed[r] = {}
  BY LiveCommit DEF Commit, Open, Control, ControlOf
<1>2. ASSUME NEW x \in Mine(r), NEW y \in Live, SameKey(x, y) PROVE FALSE
  <2>1. x \in rows /\ y \in rows /\ x # y /\ x.by = r
    BY <1>1, <1>2 DEF Mine, Live
  <2>2. ~Replaced(x, y)
    BY <1>1, <2>1, HeldAreSettled DEF Replaced
  <2>3. ~Replaced(y, x)
    BY <1>1, <2>1 DEF Replaced
  <2>. QED
    BY <1>2, <2>1, <2>2, <2>3 DEF Locks, Unique, SameKey
<1>. QED
  BY <1>2 DEF KeysOf, SameKey

(* A delete takes its one value.                                           *)
LEMMA CommitOfDelete ==
    ASSUME TypeOK, Control, Locks, NEW r \in Request, Commit(r), op[r].kind = "delete"
    PROVE  KeysOf(doomed[r]) = {Target(r)} /\ KeysOf(doomed[r]) \subseteq KeysOf(Live)
<1>1. doomed[r] \subseteq Live /\ doomed[r] # {}
  BY LiveCommit DEF Commit, Control, ControlOf, Missed
<1>2. \A row \in doomed[r] : <<row.project, row.z>> = Target(r)
  BY DEF Locks, LockOf, Held, Target
<1>. QED
  BY <1>1, <1>2 DEF KeysOf

LEMMA CommitApplies ==
    ASSUME TypeOK, Control, Locks, History, NEW r \in Request, Commit(r)
    PROVE  Endpoint!Apply(r)
<1>. DEFINE o == op[r]
<1>1. /\ pc[r] = "commit" /\ Open(r) /\ o # NoOp /\ o.project \in projects
      /\ UNCHANGED <<projects, op>>
  BY DEF Commit, Open, Control, ControlOf
<1>2. Endpoint!Running(r)
  BY <1>1, RunningIsOpen
<1>3. Endpoint!Answer(r, "ok") \/ Endpoint!Answer(r, "error")
  BY DEF Commit, Endpoint!Answer
<1>4. ASSUME NEW removed, NEW inserted,
             KeysOf(doomed[r]) = removed, KeysOf(Mine(r)) = inserted
      PROVE  Endpoint!Change(r, removed, inserted)
  <2>1. KeysOf(Live') = (KeysOf(Live) \ removed) \cup inserted
    BY <1>4, CommitKeys
  <2>2. \A s \in Request : Endpoint!Running(s) <=> Open(s)
    BY RunningIsOpen
  <2>3. /\ added' = [s \in Request |-> IF Open(s) /\ s # r THEN added[s] \cup inserted ELSE {}]
        /\ gone' = [s \in Request |-> IF Open(s) /\ s # r THEN gone[s] \cup removed ELSE {}]
    BY <1>4 DEF Commit, Noted, Mine
  <2>4. /\ added' = [s \in Request |-> IF Endpoint!Running(s) /\ s # r THEN added[s] \cup inserted ELSE {}]
        /\ gone' = [s \in Request |-> IF Endpoint!Running(s) /\ s # r THEN gone[s] \cup removed ELSE {}]
    BY <2>2, <2>3
  <2>. QED
    BY <2>1, <2>4 DEF Endpoint!Change
<1>5. CASE o.kind = "add"
  <2>1. KeysOf(doomed[r]) = {}
    BY <1>5 DEF Control, ControlOf, KeysOf
  <2>2. KeysOf(Mine(r)) = Endpoint!Wanted(o) /\ Endpoint!Wanted(o) \cap KeysOf(Live) = {}
    BY <1>5, CommitKeys, CommitOfAdd
  <2>. QED
    BY <1>1, <1>2, <1>3, <1>4, <1>5, <2>1, <2>2 DEF Endpoint!Apply
<1>6. CASE o.kind = "delete"
  <2>1. KeysOf(doomed[r]) = Endpoint!Wanted(o) /\ Endpoint!Wanted(o) \subseteq KeysOf(Live)
    BY <1>1, <1>6, CommitOfDelete, OneTarget
  <2>2. KeysOf(Mine(r)) = {}
    BY <1>6, CommitKeys
  <2>. QED
    BY <1>1, <1>2, <1>3, <1>4, <1>6, <2>1, <2>2 DEF Endpoint!Apply
<1>7. CASE o.kind = "set"
  <2>1. PICK kept \in SUBSET (Endpoint!OfProject(o.project) \cap added[r]) :
            KeysOf(doomed[r]) = Endpoint!OfProject(o.project) \ kept
    BY <1>7, CommitOfSet
  <2>2. KeysOf(Mine(r)) = Endpoint!Wanted(o)
    BY <1>7, CommitKeys
  <2>. QED
    BY <1>1, <1>2, <1>3, <1>4, <1>7, <2>1, <2>2 DEF Endpoint!Apply
<1>. QED
  BY <1>1, <1>5, <1>6, <1>7, OpFields

(* A request that is turned down is told the truth about its value.        *)
LEMMA MissedIsGone ==
    ASSUME TypeOK, Control, History, NEW r \in Request, NothingDeleted(r)
    PROVE  op[r].kind = "delete" /\ Endpoint!Wanted(op[r]) \subseteq gone[r]
<1>1. op[r].kind = "delete" /\ pc[r] = "delete" /\ targets[r] = {} /\ doomed[r] = {} /\ op[r] # NoOp
  BY DEF NothingDeleted, Missed, Control, ControlOf
<1>2. Target(r) \in gone[r]
  BY <1>1 DEF History, HistoryOf
<1>. QED
  BY <1>1, <1>2, OneTarget

LEMMA DuplicateIsThere ==
    ASSUME TypeOK, Control, Locks, Once, NEW r \in Request, Insert(r),
           InTheWay(r) # {}, op[r].kind = "add"
    PROVE  Endpoint!Wanted(op[r]) \subseteq KeysOf(Live)
<1>1. Deleted(r) /\ rest[r] # <<>> /\ WaitsFor(r) = {}
  BY DEF Insert
<1>2. PICK row \in InTheWay(r) : TRUE
  OBVIOUS
<1>3. Undecided(r, row) = {}
  BY <1>1, <1>2 DEF WaitsFor
<1>4. op[r] # NoOp /\ rest[r] = op[r].list /\ row.by # r /\ row \in rows
  BY <1>1, <1>2 DEF Deleted, Control, ControlOf, Once, OnceOf, InTheWay
<1>5. row \in Live
  BY <1>3, <1>4 DEF Undecided, Live, Committed
<1>6. <<row.project, row.z>> = Target(r)
  <2>1. KeysOf({row}) = KeysOf({NewRow(r)})
    BY <1>2 DEF InTheWay
  <2>2. <<row.project, row.z>> \in KeysOf({NewRow(r)})
    BY <2>1 DEF KeysOf
  <2>. QED
    BY <1>4, <2>2 DEF KeysOf, NewRow, Target
<1>. QED
  BY <1>4, <1>5, <1>6, KeysOfRow, OneTarget

(* Which steps tell a client that a value was not there, or was.           *)
LEMMA AbortSteps ==
    ASSUME TypeOK, Control, NEW r \in Request, Step(r), Open(r)
    PROVE  /\ reply'[r] = "notfound" =>
                  \/ CheckProject(r) /\ op[r].project \notin projects
                  \/ NothingDeleted(r)
           /\ reply'[r] = "duplicate" =>
                  Insert(r) /\ InTheWay(r) # {} /\ op[r].kind = "add"
<1>1. reply[r] = "none"
  BY DEF Control, ControlOf, Open
<1>2. Lose(r) \/ DeadlockVictim(r) \/ Commit(r) => reply'[r] \in {"ok", "error"}
  BY DEF Lose, DeadlockVictim, Commit, Abort, TypeOK
<1>3. Begin(r) \/ StartDelete(r) \/ DeleteRow(r) \/ ReadBack(r) => reply'[r] = "none"
  BY <1>1 DEF Begin, StartDelete, DeleteRow, ReadBack
<1>4. CheckProject(r) => reply'[r] = "none" \/ (reply'[r] = "notfound" /\ op[r].project \notin projects)
  BY <1>1 DEF CheckProject, Abort, TypeOK
<1>5. NothingDeleted(r) => reply'[r] = "notfound"
  BY DEF NothingDeleted, Abort, TypeOK
<1>6. Insert(r) => \/ reply'[r] \in {"none", "error"}
                   \/ reply'[r] = "duplicate" /\ InTheWay(r) # {} /\ op[r].kind = "add"
  BY <1>1 DEF Insert, Abort, TypeOK
<1>. QED
  BY <1>2, <1>3, <1>4, <1>5, <1>6 DEF Step

LEMMA AbortDeclines ==
    ASSUME TypeOK, Control, Locks, History, Once, NEW r \in Request, Step(r), ~Commit(r), Aborts(r),
           Open(r)
    PROVE  Endpoint!Decline(r)
<1>1. PICK what \in {"notfound", "duplicate", "error"} : Abort(r, what)
  BY DEF Aborts
<1>2. KeysOf(Live') = KeysOf(Live) /\ Endpoint!Running(r)
  BY LiveStays, RunningIsOpen
<1>3. /\ reply' = [reply EXCEPT ![r] = what] /\ UNCHANGED <<projects, op>>
      /\ added' = [added EXCEPT ![r] = {}] /\ gone' = [gone EXCEPT ![r] = {}]
  BY <1>1 DEF Abort, Forgotten, TypeOK
<1>4. CASE what = "error"
  BY <1>2, <1>3, <1>4 DEF Endpoint!Decline, Endpoint!Answer
<1>5. CASE what = "notfound"
  <2>1. reply'[r] = "notfound"
    BY <1>3, <1>5 DEF TypeOK
  <2>2. \/ CheckProject(r) /\ op[r].project \notin projects
        \/ NothingDeleted(r)
    BY <1>1, <1>5, <2>1, AbortSteps
  <2>. QED
    BY <1>2, <1>3, <1>5, <2>2, MissedIsGone DEF Endpoint!Decline, Endpoint!Answer
<1>6. CASE what = "duplicate"
  <2>1. reply'[r] = "duplicate"
    BY <1>3, <1>6 DEF TypeOK
  <2>2. Insert(r) /\ InTheWay(r) # {} /\ op[r].kind = "add"
    BY <1>1, <1>6, <2>1, AbortSteps
  <2>3. Endpoint!Wanted(op[r]) \subseteq KeysOf(Live)
    BY <2>2, DuplicateIsThere
  <2>. QED
    BY <1>2, <1>3, <1>6, <2>2, <2>3 DEF Endpoint!Decline, Endpoint!Answer
<1>. QED
  BY <1>4, <1>5, <1>6

LEMMA BeginCalls ==
    ASSUME TypeOK, Control, Locks, NEW r \in Request, Begin(r)
    PROVE  Endpoint!Call(r)
<1>1. Step(r) /\ ~Commit(r) /\ op[r] = NoOp
  BY DEF Step, Begin, Commit, Control, ControlOf
<1>2. Live' = Live
  BY <1>1, LiveStays
<1>3. \E o \in Endpoint!Operation : op' = [op EXCEPT ![r] = o]
  BY DEF Begin, Operation, Endpoint!Operation
<1>. QED
  BY <1>1, <1>2, <1>3 DEF Begin, table, Endpoint!Call, Endpoint!Key, Endpoint!NoOp, NoOp

LEMMA RequestStep ==
    ASSUME TypeOK, Control, Locks, History, Once, NEW r \in Request, Step(r)
    PROVE  [Endpoint!Next]_(Endpoint!vars)
<1>1. CASE Commit(r)
  BY <1>1, CommitApplies DEF Endpoint!Next
<1>2. CASE Begin(r)
  BY <1>2, BeginCalls DEF Endpoint!Next
<1>3. CASE Aborts(r) /\ Open(r) /\ ~Commit(r)
  BY <1>3, AbortDeclines DEF Endpoint!Next
<1>4. CASE \/ CheckProject(r) /\ ~Aborts(r)
           \/ StartDelete(r) \/ DeleteRow(r) \/ ReadBack(r)
           \/ Insert(r) /\ ~Aborts(r)
  <2>1. ~Commit(r) /\ UNCHANGED <<projects, op, reply, added, gone>>
    BY <1>4 DEF CheckProject, StartDelete, DeleteRow, ReadBack, Insert, Deleted, Aborts, Commit,
                table, history
  <2>2. Live' = Live
    BY <2>1, LiveStays
  <2>. QED
    BY <2>1, <2>2 DEF Endpoint!vars
<1>. QED
  BY <1>1, <1>2, <1>3, <1>4, LockSteps

(* Each request takes effect at its commit, at once, and only then, as     *)
(* ZSampleSet allows: a 409 is true, a 404 was true since the call, and a  *)
(* replacement leaves beside its own list at most what others inserted     *)
(* while it ran (vsds.go:239-475, db.go:101-115).                          *)
THEOREM RequestsAtomicHolds == Spec => RequestsAtomic
<1>1. Init => Endpoint!Init
  <2>. SUFFICES ASSUME Init PROVE Endpoint!Init
    OBVIOUS
  <2>1. PICK keys \in SUBSET (Seeded \X Z) :
            rows = {[project |-> k[1], z |-> k[2], by |-> k[1]] : k \in keys}
    BY DEF Init
  <2>2. KeysOf(Live) \subseteq Seeded \X Z
    BY <2>1 DEF KeysOf, Live
  <2>3. Seeded \subseteq Project
    BY ProjectAssumption
  <2>. QED
    BY <2>2, <2>3 DEF Init, Endpoint!Init, Endpoint!NoOp, NoOp
<1>2. TypeOK /\ Control /\ Locks /\ History /\ Once /\ [Next]_vars => [Endpoint!Next]_(Endpoint!vars)
  <2>. SUFFICES ASSUME TypeOK, Control, Locks, History, Once, [Next]_vars
                PROVE  [Endpoint!Next]_(Endpoint!vars)
    OBVIOUS
  <2>1. ASSUME NEW r \in Request, Step(r) PROVE [Endpoint!Next]_(Endpoint!vars)
    BY <2>1, RequestStep
  <2>2. CASE AddProject
    <3>1. Live' = Live
      BY <2>2 DEF AddProject, Live, Committed, Open
    <3>. QED
      BY <2>2, <3>1 DEF AddProject, history, Endpoint!Next, Endpoint!AddProject
  <2>3. CASE UNCHANGED vars
    BY <2>3 DEF vars, history, Endpoint!vars, Live, Committed, Open
  <2>. QED
    BY <2>1, <2>2, <2>3 DEF Next, AllDone, Step
<1>. QED
  BY <1>1, <1>2, HistoryHolds, OnceHolds, PTL DEF Spec, RequestsAtomic, Endpoint!SetSpec

-----------------------------------------------------------------------------
(* Who waits for whom.                                                     *)

(* The transaction that replaces a row another INSERT runs into is the     *)
(* only one that is undecided on the old row and on the new one.           *)
LEMMA OneReplaces ==
    ASSUME TypeOK, Control, Locks, NEW r \in Request,
           NEW x \in InTheWay(r), NEW y \in InTheWay(r), Replaced(x, y),
           NEW s \in Undecided(r, x), NEW t \in Undecided(r, y)
    PROVE  s = t
<1>1. PICK u \in Request : x \in doomed[u] /\ y.by = u
  BY DEF Replaced
<1>2. Open(u)
  BY <1>1 DEF Control, ControlOf, Open
<1>3. s \in Request /\ t \in Request /\ Open(s) /\ Open(t)
  BY DEF Undecided
<1>4. x.by # s
  BY <1>1, <1>3, HeldAreSettled
<1>5. s = u
  BY <1>1, <1>3, <1>4 DEF Undecided, Locks, Exclusive
<1>6. y \notin doomed[t]
  BY <1>1, <1>2, <1>3, HeldAreSettled
<1>. QED
  BY <1>1, <1>5, <1>6 DEF Undecided

LEMMA OneOnRow ==
    ASSUME TypeOK, Control, Locks, NEW r \in Request, NEW x,
           NEW s \in Undecided(r, x), NEW t \in Undecided(r, x)
    PROVE  s = t
<1>1. s \in Request /\ t \in Request /\ Open(s) /\ Open(t)
  BY DEF Undecided
<1>2. CASE x \in doomed[s] \/ x \in doomed[t]
  <2>1. x.by # s /\ x.by # t
    BY <1>1, <1>2, HeldAreSettled
  <2>2. x \in doomed[s] /\ x \in doomed[t]
    BY <2>1 DEF Undecided
  <2>. QED
    BY <1>1, <2>2 DEF Locks, Exclusive
<1>3. CASE x \notin doomed[s] /\ x \notin doomed[t]
  BY <1>3 DEF Undecided
<1>. QED
  BY <1>2, <1>3

LEMMA OneInTheWay ==
    ASSUME TypeOK, Control, Locks, NEW r \in Request,
           NEW x \in InTheWay(r), NEW y \in InTheWay(r),
           NEW s \in Undecided(r, x), NEW t \in Undecided(r, y)
    PROVE  s = t
<1>1. CASE x = y
  BY <1>1, OneOnRow
<1>2. CASE x # y
  <2>1. x \in rows /\ y \in rows /\ KeysOf({x}) = KeysOf({y})
    BY DEF InTheWay
  <2>2. SameKey(x, y)
    <3>1. <<x.project, x.z>> \in KeysOf({y})
      BY <2>1, KeysOfRow
    <3>2. <<x.project, x.z>> = <<y.project, y.z>>
      BY <3>1 DEF KeysOf
    <3>. QED
      BY <3>2 DEF SameKey
  <2>3. Replaced(x, y) \/ Replaced(y, x)
    BY <1>2, <2>1, <2>2 DEF Locks, Unique
  <2>. QED
    BY <2>3, OneReplaces
<1>. QED
  BY <1>1, <1>2

(* A request waits for at most one other.                                  *)
OneAwaited == \A r \in Request : \A s, t \in WaitsFor(r) : s = t

LEMMA WaitsForOne == TypeOK /\ Control /\ Locks => OneAwaited
<1>. SUFFICES ASSUME TypeOK, Control, Locks, NEW r \in Request,
                     NEW s \in WaitsFor(r), NEW t \in WaitsFor(r)
              PROVE  s = t
  BY DEF OneAwaited
<1>1. CASE Deleted(r) /\ rest[r] # <<>>
  <2>1. PICK x \in InTheWay(r), y \in InTheWay(r) : s \in Undecided(r, x) /\ t \in Undecided(r, y)
    BY <1>1 DEF WaitsFor
  <2>. QED
    BY <2>1, OneInTheWay
<1>2. CASE ~(Deleted(r) /\ rest[r] # <<>>)
  <2>1. s \in Undecided(r, Victim(r)) /\ t \in Undecided(r, Victim(r))
    BY <1>2 DEF WaitsFor
  <2>. QED
    BY <2>1, OneOnRow
<1>. QED
  BY <1>1, <1>2

(* Whatever the lists, a request never waits for two others at once: for   *)
(* a row deleted and inserted anew by a replacement that is under way,     *)
(* both rows are in the way of an insert and both are the replacement's    *)
(* (vsds.go:239-475).                                                      *)
THEOREM OneAwaitedHolds == Spec => []OneAwaited
  BY LocksHold, WaitsForOne, PTL

-----------------------------------------------------------------------------
(* Requests that wait in a circle, and requests that go on.                *)
Running == {r \in Request : Open(r)}

(* One of the statements of a request is possible, or PostgreSQL ends it.  *)
CanGoOn(r) ==
    \/ pc[r] \in {"check", "snapshot", "commit"}
    \/ pc[r] = "delete" /\ targets[r] # {} /\ WaitsFor(r) = {}
    \/ pc[r] = "delete" /\ targets[r] = {} /\ Missed(r)
    \/ Deleted(r) /\ (rest[r] = <<>> \/ WaitsFor(r) = {})
    \/ InCycle(r)

(* Of any requests under way, one can go on, unless it waits for a request *)
(* that is not among them.                                                 *)
NoGridlock == \A group \in (SUBSET Running) \ {{}} : \E r \in group :
    CanGoOn(r) \/ WaitsFor(r) \ group # {}

(* Only requests that wait are cancelled by PostgreSQL.                    *)
VictimsWait == \A r \in Request : InCycle(r) => WaitsFor(r) # {}

LEMMA AwaitedRuns ==
    ASSUME NEW r, NEW s \in WaitsFor(r)
    PROVE  s \in Running /\ s # r
<1>1. \A row : \A t \in Undecided(r, row) : t \in Running /\ t # r
  BY DEF Undecided, Running
<1>. QED
  BY <1>1 DEF WaitsFor

(* A step begins one request at most.                                      *)
LEMMA FewRunning == Spec => []IsFiniteSet(Running)
<1>. DEFINE Few == IsFiniteSet(Running)
<1>1. Init => Few
  <2>1. Init => Running = {}
    BY DEF Init, Running, Open
  <2>. QED
    BY <2>1, FS_EmptySet
<1>2. TypeOK /\ Few /\ [Next]_vars => Few'
  <2>. SUFFICES ASSUME TypeOK, IsFiniteSet(Running), [Next]_vars PROVE IsFiniteSet(Running')
    OBVIOUS
  <2>1. ASSUME NEW r \in Request, Step(r) PROVE IsFiniteSet(Running')
    <3>1. \A s \in Request : s # r => pc'[s] = pc[s]
      BY <2>1, OthersUntouched DEF Untouched
    <3>2. Running' \subseteq Running \cup {r}
      BY <3>1 DEF Running, Open
    <3>. QED
      BY <3>2, FS_AddElement, FS_Subset
  <2>2. CASE AddProject \/ UNCHANGED vars
    <3>1. Running' = Running
      BY <2>2 DEF AddProject, vars, Running, Open
    <3>. QED
      BY <3>1
  <2>. QED
    BY <2>1, <2>2 DEF Next, AllDone, Step
<1>. HIDE DEF Few
<1>3. Spec => []Few
  BY <1>1, <1>2, TypeCorrect, PTL DEF Spec
<1>. QED
  BY <1>3 DEF Few

(* Of requests that all wait for one another, a smallest group that waits  *)
(* for nobody else is a circle.                                            *)
LEMMA StuckRequestsCircle ==
    ASSUME NEW group \in (SUBSET Request) \ {{}}, IsFiniteSet(group),
           \A r \in group : WaitsFor(r) # {} /\ WaitsFor(r) \subseteq group
    PROVE  \E r \in group : InCycle(r)
<1>. DEFINE Confined(c) == \A r \in c : WaitsFor(r) \subseteq c
            groups == {c \in SUBSET group : c # {} /\ Confined(c)}
<1>1. group \in groups
  OBVIOUS
<1>2. IsWellFoundedOn(StrictSubsetOrdering(group), SUBSET group)
  BY FS_StrictSubsetOrderingWellFounded, FS_FiniteSubsetsOfFinite
<1>3. PICK c \in groups : \A d \in groups : <<d, c>> \notin StrictSubsetOrdering(group)
  <2>1. groups \subseteq SUBSET group /\ groups # {}
    BY <1>1
  <2>. HIDE DEF groups
  <2>. QED
    BY <1>2, <2>1, WFMin
<1>. DEFINE d == UNION {WaitsFor(r) : r \in c}
<1>4. c \subseteq group /\ c # {} /\ Confined(c)
  OBVIOUS
<1>5. d \in groups
  <2>1. d \subseteq c
    BY <1>4
  <2>2. d # {}
    BY <1>4
  <2>3. Confined(d)
    BY <2>1
  <2>. QED
    BY <1>4, <2>1, <2>2, <2>3
<1>6. d = c
  <2>1. d \subseteq c
    BY <1>4
  <2>. QED
    BY <1>3, <1>4, <1>5, <2>1 DEF StrictSubsetOrdering
<1>7. PICK r \in c : TRUE
  BY <1>4
<1>. QED
  BY <1>4, <1>6, <1>7 DEF InCycle

LEMMA Gridlock == TypeOK /\ IsFiniteSet(Running) => NoGridlock
<1>. SUFFICES ASSUME TypeOK, IsFiniteSet(Running), NEW group \in (SUBSET Running) \ {{}},
                     \A r \in group : ~CanGoOn(r) /\ WaitsFor(r) \subseteq group
              PROVE  FALSE
  BY DEF NoGridlock
<1>1. group \in (SUBSET Request) \ {{}} /\ IsFiniteSet(group)
  BY FS_Subset DEF Running
<1>2. ASSUME NEW r \in group PROVE WaitsFor(r) # {}
  <2>1. pc[r] \in {"delete", "insert"}
    BY DEF CanGoOn, Running, Open, TypeOK
  <2>2. CASE pc[r] = "delete" /\ targets[r] # {}
    BY <2>2 DEF CanGoOn
  <2>3. CASE pc[r] = "insert" \/ targets[r] = {}
    <3>1. Deleted(r)
      BY <2>1, <2>3 DEF CanGoOn, Deleted
    <3>. QED
      BY <3>1 DEF CanGoOn
  <2>. QED
    BY <2>1, <2>2, <2>3
<1>3. \E r \in group : InCycle(r)
  BY <1>1, <1>2, StuckRequestsCircle
<1>. QED
  BY <1>3 DEF CanGoOn

(* However many replacements delete and insert the same rows in whatever   *)
(* order, requests never wait for one another for ever: in every group of  *)
(* them one can go on or is cancelled, or waits for somebody else          *)
(* (vsds.go:239-475).                                                      *)
THEOREM NoGridlockHolds == Spec => []NoGridlock
  BY TypeCorrect, FewRunning, Gridlock, PTL

(* In a set that is what its members wait for, each waits: there are as    *)
(* many awaited as there are members, and each waits for at most one.      *)
LEMMA CircleWaits == OneAwaited /\ IsFiniteSet(Running) => VictimsWait
<1>. SUFFICES ASSUME OneAwaited, IsFiniteSet(Running), NEW r \in Request, InCycle(r)
              PROVE  WaitsFor(r) # {}
  BY DEF VictimsWait
<1>1. PICK S \in SUBSET Request : r \in S /\ UNION {WaitsFor(s) : s \in S} = S
  BY DEF InCycle
<1>. DEFINE W == {s \in S : WaitsFor(s) # {}}
            Awaited == [s \in W |-> CHOOSE t : t \in WaitsFor(s)]
<1>2. IsFiniteSet(S) /\ IsFiniteSet(W)
  <2>1. S \subseteq Running
    BY <1>1, AwaitedRuns
  <2>. QED
    BY <2>1, FS_Subset
<1>3. \A s \in W : Awaited[s] \in WaitsFor(s) /\ Awaited[s] \in S
  BY <1>1
<1>4. \A t \in S : \E s \in W : Awaited[s] = t
  <2>. SUFFICES ASSUME NEW t \in S PROVE \E s \in W : Awaited[s] = t
    OBVIOUS
  <2>1. PICK s \in S : t \in WaitsFor(s)
    BY <1>1
  <2>2. s \in W
    BY <2>1
  <2>. QED
    BY <1>3, <2>1, <2>2 DEF OneAwaited
<1>5. Awaited \in Surjection(W, S)
  <2>1. Awaited \in [W -> S]
    BY <1>3
  <2>. HIDE DEF Awaited, W
  <2>. QED
    BY <1>4, <2>1, Fun_IsSurj
<1>6. Cardinality(S) <= Cardinality(W)
  <2>. HIDE DEF Awaited, W
  <2>. QED
    BY <1>2, <1>5, FS_Surjection
<1>7. Cardinality(W) \in Nat /\ Cardinality(S) \in Nat
  BY <1>2, FS_CardinalityType
<1>8. W = S
  <2>1. W \subseteq S
    OBVIOUS
  <2>2. Cardinality(W) <= Cardinality(S) /\ (Cardinality(W) = Cardinality(S) => W = S)
    BY <1>2, <2>1, FS_Subset
  <2>. QED
    BY <1>6, <1>7, <2>2
<1>. QED
  BY <1>1, <1>8

(* PostgreSQL's detection of deadlocks, as it is modelled, never cancels a *)
(* request that could go on: who is in a circle waits for somebody.        *)
THEOREM VictimsWaitHolds == Spec => []VictimsWait
  BY OneAwaitedHolds, FewRunning, CircleWaits, PTL

-----------------------------------------------------------------------------
(* A request comes to an end.                                              *)
Stage(where) ==
    CASE where = "idle" -> 6 [] where = "check" -> 5 [] where = "snapshot" -> 4
      [] where = "delete" -> 3 [] where = "insert" -> 2 [] where = "commit" -> 1
      [] where = "done" -> 0

(* A later statement, or the same with fewer rows to delete or fewer       *)
(* values to insert.                                                       *)
Nearer(r) ==
    \/ Stage(pc'[r]) < Stage(pc[r])
    \/ /\ pc'[r] = pc[r]
       /\ \/ targets'[r] \in SUBSET targets[r] /\ targets'[r] # targets[r] /\ rest'[r] = rest[r]
          \/ targets'[r] = targets[r] /\ Len(rest'[r]) < Len(rest[r])

Stays(r) == pc'[r] = pc[r] /\ targets'[r] = targets[r] /\ rest'[r] = rest[r]

(* Every step of a request brings it nearer to its end, and no step of     *)
(* another takes it back.                                                  *)
RequestsShrink ==
    [][\A r \in Request : (Step(r) => Nearer(r)) /\ (Nearer(r) \/ Stays(r))]_vars

LEMMA StageFalls ==
    ASSUME NEW r \in Request, TypeOK, NEW where,
           pc' = [pc EXCEPT ![r] = where], Stage(where) < Stage(pc[r])
    PROVE  Nearer(r)
  BY DEF Nearer, TypeOK

LEMMA StepNearer ==
    ASSUME TypeOK, Control, NEW r \in Request, Step(r)
    PROVE  Nearer(r)
<1>1. CASE Aborts(r) /\ ~Begin(r)
  <2>1. pc[r] \in {"check", "snapshot", "delete", "insert", "commit"}
    BY <1>1, Started, CycleOpen DEF Open, TypeOK
  <2>2. pc' = [pc EXCEPT ![r] = "done"]
    BY <1>1 DEF Aborts, Abort
  <2>3. Stage("done") < Stage(pc[r])
    BY <2>1 DEF Stage
  <2>. QED
    BY <2>2, <2>3, StageFalls
<1>2. CASE Begin(r)
  <2>1. pc[r] = "idle" /\ pc' = [pc EXCEPT ![r] = "check"]
    BY <1>2 DEF Begin, Goto
  <2>2. Stage("check") < Stage(pc[r])
    BY <2>1 DEF Stage
  <2>. QED
    BY <2>1, <2>2, StageFalls
<1>3. CASE CheckProject(r) /\ ~Aborts(r)
  <2>1. /\ pc[r] = "check"
        /\ \E where \in {"insert", "snapshot"} : pc' = [pc EXCEPT ![r] = where]
    BY <1>3 DEF CheckProject, Aborts, Goto
  <2>2. \A where \in {"insert", "snapshot"} : Stage(where) < Stage(pc[r])
    BY <2>1 DEF Stage
  <2>. QED
    BY <2>1, <2>2, StageFalls
<1>4. CASE StartDelete(r)
  <2>1. pc[r] = "snapshot" /\ pc' = [pc EXCEPT ![r] = "delete"]
    BY <1>4 DEF StartDelete, Goto
  <2>2. Stage("delete") < Stage(pc[r])
    BY <2>1 DEF Stage
  <2>. QED
    BY <2>1, <2>2, StageFalls
<1>5. CASE DeleteRow(r)
  <2>1. targets[r] # {} /\ Victim(r) \in targets[r]
    BY <1>5, VictimThere DEF DeleteRow
  <2>2. targets'[r] = targets[r] \ {Victim(r)} /\ UNCHANGED <<pc, rest>>
    BY <1>5 DEF DeleteRow, TypeOK
  <2>3. targets'[r] \in SUBSET targets[r] /\ targets'[r] # targets[r]
    BY <2>1, <2>2
  <2>. QED
    BY <2>2, <2>3 DEF Nearer
<1>6. CASE Insert(r) /\ ~Aborts(r)
  <2>1. rest[r] # <<>> /\ rest[r] \in Seq(Z)
    BY <1>6 DEF Insert, TypeOK
  <2>2. rest'[r] = Tail(rest[r]) /\ UNCHANGED <<pc, targets>>
    BY <1>6 DEF Insert, Aborts, TypeOK
  <2>3. Len(Tail(rest[r])) < Len(rest[r])
    BY <2>1
  <2>. QED
    BY <2>2, <2>3 DEF Nearer
<1>7. CASE ReadBack(r)
  <2>1. pc[r] \in {"delete", "insert"} /\ pc' = [pc EXCEPT ![r] = "commit"]
    BY <1>7 DEF ReadBack, Deleted, Goto
  <2>2. Stage("commit") < Stage(pc[r])
    BY <2>1 DEF Stage
  <2>. QED
    BY <2>1, <2>2, StageFalls
<1>8. CASE Commit(r)
  <2>1. pc[r] = "commit" /\ pc' = [pc EXCEPT ![r] = "done"]
    BY <1>8 DEF Commit
  <2>2. Stage("done") < Stage(pc[r])
    BY <2>1 DEF Stage
  <2>. QED
    BY <2>1, <2>2, StageFalls
<1>. QED
  BY <1>1, <1>2, <1>3, <1>4, <1>5, <1>6, <1>7, <1>8
     DEF Step, NothingDeleted, Lose, DeadlockVictim, Aborts

(* With NoGridlock, the reason why every request is answered: whatever     *)
(* waits, deadlocks and lost connections there are, a request takes as     *)
(* many steps as it has statements, rows to delete and values to insert,   *)
(* and none is undone by a step of another (vsds.go:239-475).              *)
THEOREM RequestsShrinkHolds == Spec => RequestsShrink
<1>1. TypeOK /\ Control /\ [Next]_vars =>
          [\A r \in Request : (Step(r) => Nearer(r)) /\ (Nearer(r) \/ Stays(r))]_vars
  <2>. SUFFICES ASSUME TypeOK, Control, Next, NEW r \in Request
                PROVE  (Step(r) => Nearer(r)) /\ (Nearer(r) \/ Stays(r))
    OBVIOUS
  <2>1. Step(r) => Nearer(r)
    BY StepNearer
  <2>2. ASSUME NEW s \in Request, Step(s), s # r PROVE Stays(r)
    BY <2>2, OthersUntouched DEF Untouched, Stays
  <2>3. CASE AddProject \/ AllDone
    <3>1. UNCHANGED <<pc, targets, rest>>
      BY <2>3 DEF AddProject, AllDone, vars
    <3>2. Stays(r)
      BY <3>1 DEF Stays
    <3>3. ~Step(r) \/ Nearer(r)
      BY StepNearer
    <3>. QED
      BY <3>2, <3>3
  <2>. QED
    BY <2>1, <2>2, <2>3 DEF Next, Step
<1>. QED
  BY <1>1, TypedControl, PTL DEF Spec, RequestsShrink
=============================================================================
