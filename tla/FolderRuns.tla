----------------------------- MODULE FolderRuns -----------------------------
(***************************************************************************)
(* The job queue together with the long transactions of the runs it hands  *)
(* out, and the deletes of the folders they work on: JobQueue's actions,   *)
(* with process() opened up to the transaction it wipes and refills a      *)
(* folder's spreadsheets in (pkg/vsds/processor.go), and DeleteFolder      *)
(* opened up to the row locks it waits for.  What a run does within a file *)
(* is SheetPipeline's subject; here a file is one row of spreadsheets.     *)
(*                                                                         *)
(* PostgreSQL's part: a run reads the snapshot of its first query; rows it *)
(* has deleted or inserted are locked until it ends; an insert's foreign   *)
(* key check locks the folder row FOR KEY SHARE; of the statements that    *)
(* wait for one another in a circle one is cancelled.                      *)
(***************************************************************************)
EXTENDS JobQueue

CONSTANTS
    File,          \* Drive files of a folder, by their creation times
    MaxAttempts    \* bound: runs ever started

ASSUME FileAssumption == File \subseteq Nat
ASSUME AttemptAssumption == MaxAttempts \in Nat

VARIABLES
    rows,       \* committed rows of vsds.spreadsheets, with the run that wrote them
    run,        \* [Instance -> the run in process() and its transaction]
    deleting,   \* folders a DELETE statement has locked
    attempts,   \* runs started so far
    overlaps    \* history: pairs of runs of one folder in process() at once

runVars == <<rows, run, deleting, attempts, overlaps>>
allVars == <<vars, runVars>>

-----------------------------------------------------------------------------
Row == [folder : Folder, file : File, attempt : 1..MaxAttempts]

(* "begin": no snapshot yet.  "files": between two files.  "insert": an    *)
(* INSERT of the file in want is under way.  "closed": Close has returned. *)
(* snap, gone, new: the folder's rows in the snapshot, those of them it    *)
(* deleted, and those it inserted.                                         *)
Run == [pc : {"begin", "wipe", "files", "insert", "closed"},
        folder : Folder, attempt : 1..MaxAttempts, left : SUBSET File, want : SUBSET File,
        snap : SUBSET Row, gone : SUBSET Row, new : SUBSET Row]
NoRun == [pc |-> "none"]

Runs == {i \in Instance : run[i].pc # "none"}
RowsOf(f) == {r \in rows : r.folder = f}

(* The transaction ends, by its commit or by a rollback.                   *)
TxnEnds(i) == run' = [run EXCEPT ![i].pc = "closed", ![i].gone = {}, ![i].new = {}]

FolderInit ==
    /\ Init
    /\ rows = {} /\ deleting = {} /\ attempts = 0 /\ overlaps = {}
    /\ run = [i \in Instance |-> NoRun]

-----------------------------------------------------------------------------
(* Locks.                                                                  *)

(* The folder row is locked FOR KEY SHARE by an uncommitted insert.        *)
Pinned_Never(f) == FALSE       \* mutant: spreadsheets has no foreign key
Pinned(f) == \E i \in Runs : run[i].folder = f /\ run[i].new # {}

(* The unique index on (folderid, gcpid) makes an insert wait for whoever  *)
(* inserted or deleted the same key and has not ended.                     *)
KeyHolders(i) == {k \in Runs \ {i} : \E r \in run[k].new \cup run[k].gone :
                     r.folder = run[i].folder /\ r.file \in run[i].want}
FolderLocked(i) == run[i].folder \in deleting

(* The delete of a folder waits for the rows a run has deleted in it.      *)
Wipers(f) == {i \in Runs : \E r \in run[i].gone : r.folder = f}

(* Runs whose statements wait for each other, or for a delete that waits   *)
(* for one of them.                                                        *)
BlockedBy(i, k) ==
    /\ run[i].pc = "insert"
    /\ k \in KeyHolders(i) \/ (FolderLocked(i) /\ k \in Wipers(run[i].folder))
Deadlocked(i) ==
    \E circle \in SUBSET Runs :
        i \in circle /\ \A k \in circle : \E l \in circle : BlockedBy(k, l)

-----------------------------------------------------------------------------
(* The run of instance i.                                                  *)

StartRun(i) ==
    /\ StartJob(i)
    /\ attempts < MaxAttempts
    /\ attempts' = attempts + 1
    /\ \E j \in jobs :
           /\ j.id = srv[i].job
           /\ run' = [run EXCEPT ![i] =
                 [pc |-> "begin", folder |-> j.folder, attempt |-> attempts + 1, left |-> File,
                  want |-> {}, snap |-> {}, gone |-> {}, new |-> {}]]
           /\ overlaps' = overlaps \cup
                 {{run[k].attempt, attempts + 1} : k \in {l \in Runs : run[l].folder = j.folder}}
    /\ UNCHANGED <<rows, deleting>>

(* StartLongTxn and the first query, which takes the snapshot; or an early *)
(* return, with nothing done.                                              *)
Begin(i) ==
    /\ run[i].pc = "begin"
    /\ \/ run' = [run EXCEPT ![i].pc = "wipe", ![i].snap = RowsOf(run[i].folder)]
       \/ TxnEnds(i)
    /\ UNCHANGED <<vars, rows, deleting, attempts, overlaps>>

WipedRows_None(i) == {}        \* mutant: the earlier run's rows are kept
WipedRows(i) == run[i].snap

(* DeleteFolderSpreadsheets.  A row another run deletes is waited for; one *)
(* gone since the snapshot is a serialization failure, an early return.    *)
Wipe(i) ==
    /\ run[i].pc = "wipe"
    /\ \A k \in Runs \ {i} : run[k].gone \cap WipedRows(i) = {}
    /\ \/ /\ WipedRows(i) \subseteq rows
          /\ run' = [run EXCEPT ![i].pc = "files", ![i].gone = WipedRows(i)]
       \/ TxnEnds(i)
    /\ UNCHANGED <<vars, rows, deleting, attempts, overlaps>>

(* The next file, newest first: it opens, or is passed over.               *)
Open(i) ==
    /\ run[i].pc = "files"
    /\ \E x \in run[i].left :
         /\ \A y \in run[i].left : y <= x
         /\ \/ run' = [run EXCEPT ![i].pc = "insert", ![i].left = @ \ {x}, ![i].want = {x}]
            \/ run' = [run EXCEPT ![i].left = @ \ {x}]
    /\ UNCHANGED <<vars, rows, deleting, attempts, overlaps>>

(* Mutant: a file whose insert failed is tried again.                      *)
LeftAfterFailure_Retry(i) == run[i].left \cup run[i].want
LeftAfterFailure(i) == run[i].left

InsertFails(i) ==
    run' = [run EXCEPT ![i].pc = "files", ![i].left = LeftAfterFailure(i), ![i].want = {}]

Inserted(i) == {[folder |-> run[i].folder, file |-> x, attempt |-> run[i].attempt] : x \in run[i].want}
KeyTaken(i) == \E r \in rows \ run[i].gone : r.folder = run[i].folder /\ r.file \in run[i].want

(* AddSpreadsheet: refused if the folder or the key is not free, and for   *)
(* reasons of its own; the checkpoint keeps the files before it.           *)
AddSpreadsheet(i) ==
    /\ run[i].pc = "insert"
    /\ KeyHolders(i) = {} /\ ~FolderLocked(i)
    /\ \/ /\ run[i].folder \in folders /\ ~KeyTaken(i)
          /\ run' = [run EXCEPT ![i].pc = "files", ![i].want = {}, ![i].new = @ \cup Inserted(i)]
       \/ InsertFails(i)
    /\ UNCHANGED <<vars, rows, deleting, attempts, overlaps>>

(* The deadlock detector cancels the insert.                               *)
InsertCancelled(i) ==
    /\ run[i].pc = "insert" /\ Deadlocked(i)
    /\ InsertFails(i)
    /\ UNCHANGED <<vars, rows, deleting, attempts, overlaps>>

(* The deferred Close: the wipe and the new rows appear at once.           *)
CloseTxn(i) ==
    /\ run[i].pc = "files" /\ run[i].left = {}
    /\ rows' = (rows \ run[i].gone) \cup run[i].new
    /\ TxnEnds(i)
    /\ UNCHANGED <<vars, deleting, attempts, overlaps>>

(* The connection of the transaction is lost; every statement after fails. *)
LoseTxn(i) ==
    /\ run[i].pc \in {"wipe", "files", "insert"}
    /\ TxnEnds(i)
    /\ UNCHANGED <<vars, rows, deleting, attempts, overlaps>>

Leave(i) == run' = [run EXCEPT ![i] = NoRun]

(* Mutant: the job is finished before the deferred Close.                  *)
FinishRun_BeforeClose(i) ==
    \/ /\ run[i].pc = "files" /\ run[i].left = {} /\ srv[i].job \notin RowLocked
       /\ finished' = finished \cup ({srv[i].job} \cap JobIds)
       /\ UNCHANGED <<folders, usedIds, clock, jobs, started, req, srv, stopping, runVars>>
    \/ /\ run[i].pc = "closed" /\ FinishError(i) /\ Leave(i)
       /\ UNCHANGED <<rows, deleting, attempts, overlaps>>

FinishRun(i) ==
    /\ run[i].pc = "closed"
    /\ Finish(i) \/ FinishError(i)
    /\ Leave(i)
    /\ UNCHANGED <<rows, deleting, attempts, overlaps>>

(* Mutant: the server keeps the transaction of a process that was killed.  *)
KillRun_KeepsTxn(i) == Crash(i) /\ UNCHANGED runVars

KillRun(i) == Crash(i) /\ Leave(i) /\ UNCHANGED <<rows, deleting, attempts, overlaps>>

-----------------------------------------------------------------------------
(* DeleteFolder, from the lock of the folder row to the cascade.           *)

DeleteBegin(f) ==
    /\ f \in folders \ deleting
    /\ ~Pinned(f)
    /\ \A c \in Client : ~(req[c].pc = "inserted" /\ req[c].folder = f)
    /\ deleting' = deleting \cup {f}
    /\ UNCHANGED <<vars, rows, run, attempts, overlaps>>

DeleteEnd(f) ==
    /\ f \in deleting
    /\ Wipers(f) = {}
    /\ DeleteFolder(f)
    /\ rows' = rows \ RowsOf(f)
    /\ deleting' = deleting \ {f}
    /\ UNCHANGED <<run, attempts, overlaps>>

(* Cancelled by the deadlock detector, or its connection is lost.          *)
DeleteFails(f) ==
    /\ f \in deleting
    /\ deleting' = deleting \ {f}
    /\ UNCHANGED <<vars, rows, run, attempts, overlaps>>

(* A queue request's insert needs the folder row FOR KEY SHARE too.        *)
RequestStep(c) ==
    /\ \/ \E f \in Folder : QueueBegin(c, f)
       \/ QueueCheck(c) \/ QueueCommit(c) \/ QueueAbort(c)
       \/ req[c].pc = "checked" /\ req[c].folder \notin deleting /\ QueueInsert(c)
    /\ UNCHANGED runVars

PollStep(i) ==
    /\ Loop(i) \/ Fetch(i) \/ FetchError(i) \/ Wait(i) \/ Exit(i) \/ Signal(i) \/ Boot(i)
    /\ UNCHANGED runVars

RunStep(i) ==
    \/ Begin(i) \/ Wipe(i) \/ Open(i) \/ AddSpreadsheet(i) \/ InsertCancelled(i)
    \/ CloseTxn(i) \/ FinishRun(i)

FolderNext ==
    \/ \E f \in Folder : (AddFolder(f) /\ UNCHANGED runVars)
                         \/ DeleteBegin(f) \/ DeleteEnd(f) \/ DeleteFails(f)
    \/ \E c \in Client : RequestStep(c)
    \/ \E i \in Instance : PollStep(i) \/ StartRun(i) \/ RunStep(i) \/ LoseTxn(i) \/ KillRun(i)

FolderSpec == FolderInit /\ [][FolderNext]_allVars

(* A fetch transaction ends, by its commit or by an error.                 *)
ClaimStep(i) == StartRun(i) \/ (FetchError(i) /\ UNCHANGED runVars)

(* A run and a fetch are scheduled and their statements return; PostgreSQL *)
(* hands a lock to the statement that waits for it.                        *)
FolderFairSpec ==
    /\ FolderSpec
    /\ \A i \in Instance : SF_allVars(RunStep(i)) /\ WF_allVars(ClaimStep(i))
    /\ \A f \in Folder : SF_allVars(DeleteEnd(f))

-----------------------------------------------------------------------------
(* Types, and one transaction per instance in process().                   *)
RunTypeOK ==
    /\ TypeOK
    /\ rows \subseteq Row
    /\ run \in [Instance -> Run \cup {NoRun}]
    /\ deleting \subseteq folders
    /\ attempts \in 0..MaxAttempts
    /\ overlaps \subseteq SUBSET (1..MaxAttempts)
    /\ \A i \in Instance : run[i].pc # "none" <=> srv[i].pc = "process"

(* No spreadsheet outlives its folder, although the run that inserts it    *)
(* and the request that deletes the folder are different transactions and  *)
(* the run cannot see the delete in its snapshot.                          *)
RowsHaveFolder == \A r \in rows : r.folder \in folders

(* Why: a run that has inserted holds the folder row FOR KEY SHARE, so no  *)
(* delete has locked it and the folder is there when the run commits.      *)
InsertsPinFolder == \A i \in Runs : run[i].new # {} =>
    /\ run[i].folder \in folders \ deleting
    /\ \A r \in run[i].new : r.folder = run[i].folder

(* process: "wipe previous data for this folder so re-runs start from a    *)
(* clean slate".  What is committed for a folder comes from one run,       *)
(* whatever runs were killed or lost their connection before, unless two   *)
(* instances were running jobs of the folder at the same time.             *)
OneRunPerFolder == \A r, s \in rows :
    r.folder = s.folder /\ r.attempt # s.attempt => {r.attempt, s.attempt} \in overlaps

(* A job that is shown as finished has no transaction still open: its rows *)
(* are there to be seen (the order of process()'s deferred calls), unless  *)
(* the job was handed out twice.                                           *)
FinishedIsPublished == \A i \in Runs :
    run[i].pc # "closed" /\ srv[i].job \in finished => \E o \in overlaps : run[i].attempt \in o

(* A run ends, whatever it waits for on the way.                           *)
RunEnds == \A i \in Instance : run[i].pc # "none" ~> run[i].pc = "none"

(* A delete that has locked its folder is answered: done, or cancelled.    *)
DeleteAnswered == \A f \in Folder : f \in deleting ~> f \notin deleting
=============================================================================
