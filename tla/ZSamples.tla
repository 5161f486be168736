------------------------------- MODULE ZSamples -------------------------------
(***************************************************************************)
(* Projects and their zsamples (pkg/db/vsds.go, SetZSamples, AddZSample,   *)
(* DeleteZSample, AddProject): each request is a READ COMMITTED            *)
(* transaction, modelled statement by statement and, where a statement can *)
(* wait for a row of another transaction, row by row.                      *)
(*                                                                         *)
(* A row is told from a later one with the same key by the request that    *)
(* inserted it, a member of Project standing for the rows there at first.  *)
(***************************************************************************)
EXTENDS Integers, Sequences, SequencesExt

CONSTANTS
    Project,     \* project ids a request may name
    Seeded,      \* the projects that exist at first
    Z,           \* zsample values
    List,        \* lists a replacement may bring
    Request,     \* requests, each used once
    MaxLosses    \* bound: connections lost, or servers stopped

ASSUME ProjectAssumption == Seeded \subseteq Project /\ Project \cap Request = {}
(* zsample is an int column: any of its values have a least one.           *)
ASSUME ZAssumption ==
    /\ Z \subseteq Int /\ List \subseteq Seq(Z)
    /\ \A S \in SUBSET Z : S # {} => \E least \in S : \A z \in S : least <= z
ASSUME LossAssumption == MaxLosses \in Nat

VARIABLES
    projects,    \* vsds.projects
    rows,        \* vsds.project_zsamples, uncommitted rows included
    doomed,      \* [Request -> rows it has deleted and not committed]
    op,          \* [Request -> what was asked for]
    pc,          \* [Request -> the statement it is at]
    targets,     \* [Request -> rows its DELETE has still to visit]
    rest,        \* [Request -> values it has still to insert]
    answer,      \* [Request -> the zsamples of the project it returns]
    reply,       \* [Request -> what the client was told]
    losses,      \* connections lost
    added, gone  \* history, see ZSampleSet

table == <<projects, rows, doomed>>
history == <<added, gone>>
vars == <<projects, rows, doomed, op, pc, targets, rest, answer, reply, losses, added, gone>>

-----------------------------------------------------------------------------
Operation ==
    [kind : {"set"}, project : Project, list : List] \cup
    [kind : {"add", "delete"}, project : Project, list : {<<z>> : z \in Z}]
NoOp == [kind |-> "none"]
Row == [project : Project, z : Z, by : Project \cup Request]

TypeOK ==
    /\ projects \subseteq Project
    /\ rows \subseteq Row
    /\ doomed \in [Request -> SUBSET Row]
    /\ op \in [Request -> Operation \cup {NoOp}]
    /\ pc \in [Request -> {"idle", "check", "snapshot", "delete", "insert",
                           "commit", "done"}]
    /\ targets \in [Request -> SUBSET Row]
    /\ rest \in [Request -> Seq(Z)]
    /\ answer \in [Request -> SUBSET Z]
    /\ reply \in [Request -> {"none", "ok", "notfound", "duplicate", "error"}]
    /\ losses \in 0..MaxLosses
    /\ added \in [Request -> SUBSET (Project \X Z)]
    /\ gone \in [Request -> SUBSET (Project \X Z)]

Init ==
    /\ projects = Seeded
    /\ \E keys \in SUBSET (Seeded \X Z) :
           rows = {[project |-> k[1], z |-> k[2], by |-> k[1]] : k \in keys}
    /\ doomed = [r \in Request |-> {}] /\ targets = [r \in Request |-> {}]
    /\ op = [r \in Request |-> NoOp] /\ pc = [r \in Request |-> "idle"]
    /\ rest = [r \in Request |-> <<>>] /\ answer = [r \in Request |-> {}]
    /\ reply = [r \in Request |-> "none"] /\ losses = 0
    /\ added = [r \in Request |-> {}] /\ gone = [r \in Request |-> {}]

-----------------------------------------------------------------------------
(* What PostgreSQL lets a transaction see and do.                          *)

Open(r) == pc[r] \notin {"idle", "done"}
Committed(row) == row.by \notin Request \/ ~Open(row.by)
Visible(r) == {row \in rows : (Committed(row) \/ row.by = r) /\ row \notin doomed[r]}
KeysOf(set) == {<<row.project, row.z>> : row \in set}
Live == {row \in rows : Committed(row)}

(* Transactions other than r that have yet to decide on a row.             *)
Undecided(r, row) == {s \in Request \ {r} : Open(s) /\ (row.by = s \/ row \in doomed[s])}

(* The row a DELETE is at: it follows the primary key.                     *)
Victim(r) == CHOOSE row \in targets[r] : \A other \in targets[r] : row.z <= other.z

NewRow_Swapped(r) ==     \* mutant: the arguments of the INSERT are swapped
    [project |-> Head(rest[r]), z |-> op[r].project, by |-> r]

NewRow(r) == [project |-> op[r].project, z |-> Head(rest[r]), by |-> r]

(* Rows in the way of an INSERT: same key, not deleted by r itself.        *)
InTheWay(r) == {row \in rows \ doomed[r] : KeysOf({row}) = KeysOf({NewRow(r)})}

Missed_Unchecked(r) == FALSE    \* mutant: RowsAffected is not looked at

Missed(r) == op[r].kind = "delete" /\ doomed[r] = {}

(* The DELETE, if there was one, is through.                               *)
Deleted(r) == pc[r] = "insert" \/ (pc[r] = "delete" /\ targets[r] = {} /\ ~Missed(r))

WaitsFor(r) ==
    IF Deleted(r) /\ rest[r] # <<>>
    THEN UNION {Undecided(r, row) : row \in InTheWay(r)}
    ELSE IF pc[r] = "delete" /\ targets[r] # {} /\ Victim(r) \in rows
    THEN Undecided(r, Victim(r))
    ELSE {}

(* Each waits for at most one other, so such a set is a cycle.             *)
InCycle(r) == \E S \in SUBSET Request : r \in S /\ UNION {WaitsFor(s) : s \in S} = S

-----------------------------------------------------------------------------
(* The end of a request.                                                   *)

Forgotten(f, r) == [s \in Request |-> IF s = r THEN {} ELSE f[s]]
Noted(f, r, keys) == [s \in Request |-> IF Open(s) /\ s # r THEN f[s] \cup keys ELSE {}]

(* tx.Rollback, then the reply.                                            *)
Abort(r, what) ==
    /\ rows' = {row \in rows : row.by # r}
    /\ doomed' = Forgotten(doomed, r) /\ targets' = Forgotten(targets, r)
    /\ pc' = [pc EXCEPT ![r] = "done"]
    /\ rest' = [rest EXCEPT ![r] = <<>>]
    /\ answer' = [answer EXCEPT ![r] = {}]
    /\ reply' = [reply EXCEPT ![r] = what]
    /\ added' = Forgotten(added, r) /\ gone' = Forgotten(gone, r)
    /\ UNCHANGED <<projects, op>>

Lost == losses < MaxLosses /\ losses' = losses + 1

(* tx.Commit; its confirmation may be lost, and the client is told of an   *)
(* error.                                                                  *)
Commit(r) ==
    /\ pc[r] = "commit"
    /\ rows' = rows \ doomed[r]
    /\ doomed' = Forgotten(doomed, r)
    /\ pc' = [pc EXCEPT ![r] = "done"]
    /\ \/ reply' = [reply EXCEPT ![r] = "ok"] /\ UNCHANGED <<answer, losses>>
       \/ /\ Lost /\ reply' = [reply EXCEPT ![r] = "error"]
          /\ answer' = [answer EXCEPT ![r] = {}]
    /\ added' = Noted(added, r, KeysOf({row \in rows : row.by = r}))
    /\ gone' = Noted(gone, r, KeysOf(doomed[r]))
    /\ UNCHANGED <<projects, op, targets, rest>>

(* The connection is lost or the server stopped before the commit.         *)
Lose(r) == Open(r) /\ Lost /\ Abort(r, "error")

(* PostgreSQL cancels one of the transactions that wait in a circle.       *)
DeadlockVictim(r) == InCycle(r) /\ Abort(r, "error") /\ UNCHANGED losses
-----------------------------------------------------------------------------
(* The statements of a request.                                            *)

Goto(r, where) == pc' = [pc EXCEPT ![r] = where]

(* conn.Begin: READ COMMITTED, so no snapshot is taken yet.                *)
Begin(r) ==
    /\ pc[r] = "idle"
    /\ \E o \in Operation :
           /\ op' = [op EXCEPT ![r] = o]
           /\ rest' = [rest EXCEPT ![r] = IF o.kind = "delete" THEN <<>> ELSE o.list]
    /\ Goto(r, "check")
    /\ gone' = [gone EXCEPT ![r] = (Project \X Z) \ KeysOf(Live)]
    /\ UNCHANGED <<table, targets, answer, reply, losses, added>>

(* getproject, for the sake of the 404.                                    *)
CheckProject(r) ==
    /\ pc[r] = "check"
    /\ \/ /\ op[r].project \in projects
          /\ Goto(r, IF op[r].kind = "add" THEN "insert" ELSE "snapshot")
          /\ UNCHANGED <<table, op, targets, rest, answer, reply, history>>
       \/ op[r].project \notin projects /\ Abort(r, "notfound")
    /\ UNCHANGED losses

(* deleteprojectzsamples or deleteprojectzsample takes its snapshot.       *)
StartDelete(r) ==
    /\ pc[r] = "snapshot"
    /\ targets' = [targets EXCEPT ![r] = {row \in Visible(r) :
           /\ row.project = op[r].project
           /\ op[r].kind = "delete" => row.z = Head(op[r].list)}]
    /\ Goto(r, "delete")
    /\ UNCHANGED <<table, op, rest, answer, reply, losses, history>>

(* One row of it: a row that another transaction has deleted meanwhile is  *)
(* skipped, one that another is deleting is waited for.                    *)
DeleteRow(r) ==
    /\ pc[r] = "delete" /\ targets[r] # {} /\ WaitsFor(r) = {}
    /\ targets' = [targets EXCEPT ![r] = @ \ {Victim(r)}]
    /\ doomed' = [doomed EXCEPT ![r] = @ \cup ({Victim(r)} \cap rows)]
    /\ UNCHANGED <<projects, rows, op, pc, rest, answer, reply, losses, history>>

(* RowsAffected is 0, for the sake of the 404.                             *)
NothingDeleted(r) ==
    /\ pc[r] = "delete" /\ targets[r] = {} /\ Missed(r)
    /\ Abort(r, "notfound")
    /\ UNCHANGED losses

(* insertprojectzsample; a value that is there already ends the request,   *)
(* for an add with a message of its own.                                   *)
Insert(r) ==
    /\ Deleted(r) /\ rest[r] # <<>> /\ WaitsFor(r) = {}
    /\ \/ /\ InTheWay(r) = {}
          /\ rows' = rows \cup {NewRow(r)}
          /\ rest' = [rest EXCEPT ![r] = Tail(@)]
          /\ UNCHANGED <<projects, doomed, op, pc, targets, answer, reply, history>>
       \/ /\ InTheWay(r) # {}
          /\ Abort(r, IF op[r].kind = "add" THEN "duplicate" ELSE "error")
    /\ UNCHANGED losses

Seen_Outside(r) == Live         \* mutant: read on another connection

Seen(r) == Visible(r)

(* getproject again, for the answer.                                       *)
ReadBack(r) ==
    /\ Deleted(r) /\ rest[r] = <<>>
    /\ answer' = [answer EXCEPT ![r] = {row.z : row \in {s \in Seen(r) : s.project = op[r].project}}]
    /\ Goto(r, "commit")
    /\ UNCHANGED <<table, op, targets, rest, reply, losses, history>>

AddProject ==
    /\ \E p \in Project \ projects : projects' = projects \cup {p}
    /\ UNCHANGED <<rows, doomed, op, pc, targets, rest, answer, reply, losses, history>>

(* Every request is answered; the model ends here.                         *)
AllDone == (\A r \in Request : pc[r] = "done") /\ UNCHANGED vars

Next ==
    \/ AddProject \/ AllDone
    \/ \E r \in Request :
           \/ Begin(r) \/ CheckProject(r) \/ StartDelete(r) \/ DeleteRow(r) \/ NothingDeleted(r)
           \/ Insert(r) \/ ReadBack(r) \/ Commit(r) \/ Lose(r) \/ DeadlockVictim(r)

Spec == Init /\ [][Next]_vars
-----------------------------------------------------------------------------
(* Properties.                                                             *)

(* The project a client gets back shows the effect of its own request: all *)
(* it added or set is there, what it deleted is not.                       *)
AnswersTruthful == \A r \in Request : reply[r] = "ok" =>
    IF op[r].kind = "delete" THEN ToSet(op[r].list) \cap answer[r] = {}
    ELSE ToSet(op[r].list) \subseteq answer[r]

Endpoint == INSTANCE ZSampleSet WITH content <- KeysOf(Live)

(* The transactions implement ZSampleSet: each request takes effect at its *)
(* commit and only then, whatever it waited for, and takes away nothing    *)
(* that is not its own to take; a 409 is given only for a value that is    *)
(* there, a 404 only for one that was missing since the call.  A           *)
(* replacement is exact only while no other request inserts (ZSampleSet).  *)
RequestsAtomic == Endpoint!SetSpec
=============================================================================
