-------------------------- MODULE FolderRunsProofs --------------------------
(***************************************************************************)
(* FolderRuns implements JobQueue, so that the theorems about the queue    *)
(* hold of it, and no spreadsheet row outlives its folder.                 *)
(***************************************************************************)
EXTENDS FolderRuns, JobQueueProofs

(* Every step of the composed system is a step of the queue or leaves it   *)
(* alone.                                                                  *)
LEMMA StepRefines == [FolderNext]_allVars => [Next]_vars
<1>. SUFFICES ASSUME [FolderNext]_allVars PROVE [Next]_vars
  OBVIOUS
<1>1. CASE UNCHANGED allVars
  BY <1>1 DEF allVars
<1>2. ASSUME NEW f \in Folder, AddFolder(f) PROVE Next
  BY <1>2 DEF Next
<1>3. ASSUME NEW f \in Folder, DeleteBegin(f) PROVE UNCHANGED vars
  BY <1>3 DEF DeleteBegin
<1>4. ASSUME NEW f \in Folder, DeleteEnd(f) PROVE Next
  BY <1>4 DEF DeleteEnd, Next
<1>5. ASSUME NEW f \in Folder, DeleteFails(f) PROVE UNCHANGED vars
  BY <1>5 DEF DeleteFails
<1>6. ASSUME NEW c \in Client, RequestStep(c) PROVE Next
  BY <1>6 DEF RequestStep, Next, Queue
<1>7. ASSUME NEW i \in Instance, PollStep(i) PROVE Next
  BY <1>7 DEF PollStep, Next, Serve, Operate
<1>8. ASSUME NEW i \in Instance, StartRun(i) PROVE Next
  BY <1>8 DEF StartRun, Next, Serve
<1>9. ASSUME NEW i \in Instance, RunStep(i) PROVE Next \/ UNCHANGED vars
  BY <1>9 DEF RunStep, Begin, Wipe, Open, AddSpreadsheet, InsertCancelled, CloseTxn,
              FinishRun, Next, Serve
<1>10. ASSUME NEW i \in Instance, LoseTxn(i) PROVE UNCHANGED vars
  BY <1>10 DEF LoseTxn
<1>11. ASSUME NEW i \in Instance, KillRun(i) PROVE Next
  BY <1>11 DEF KillRun, Next, Operate
<1>. QED
  BY <1>1, <1>2, <1>3, <1>4, <1>5, <1>6, <1>7, <1>8, <1>9, <1>10, <1>11 DEF FolderNext

(* The queue's behaviour is that of JobQueue: splitting process() and      *)
(* DeleteFolder into the steps of their transactions adds nothing to it.   *)
THEOREM QueueKept == FolderSpec => Spec
<1>1. FolderInit => Init
  BY DEF FolderInit
<1>. QED
  BY <1>1, StepRefines, PTL DEF FolderSpec, Spec

(* Foreign key of the job rows, carried over from JobQueue: no job row     *)
(* outlives its folder although deletes now take several steps.            *)
THEOREM JobsKeepFolder == FolderSpec => []JobsHaveFolder
  BY QueueKept, JobsHaveFolderHolds, PTL

-----------------------------------------------------------------------------
(* The types of the initial state.                                         *)
LEMMA RunTypeInit == FolderInit => RunTypeOK
<1>. SUFFICES ASSUME FolderInit PROVE RunTypeOK
  OBVIOUS
<1>1. TypeOK
  BY TypeInit DEF FolderInit
<1>2. \A i \in Instance : run[i].pc # "none" <=> srv[i].pc = "process"
  BY DEF FolderInit, Init, NoRun
<1>. QED
  BY <1>1, <1>2, AttemptAssumption DEF FolderInit, Init, RunTypeOK, NoRun

(* What the actions keep of the types of the run records.                  *)
RunRecords == run \in [Instance -> Run \cup {NoRun}]

LEMMA RunRecordsStep == RunTypeOK /\ [FolderNext]_allVars => RunRecords'
<1>. SUFFICES ASSUME RunTypeOK, [FolderNext]_allVars PROVE RunRecords'
  OBVIOUS
<1>. USE DEF RunTypeOK, RunRecords
<1>1. ASSUME NEW i \in Instance, StartRun(i) PROVE RunRecords'
  <2>1. attempts + 1 \in 1..MaxAttempts
    BY <1>1, AttemptAssumption DEF StartRun
  <2>2. PICK j \in jobs : run' = [run EXCEPT ![i] =
                 [pc |-> "begin", folder |-> j.folder, attempt |-> attempts + 1, left |-> File,
                  want |-> {}, snap |-> {}, gone |-> {}, new |-> {}]]
    BY <1>1 DEF StartRun
  <2>3. j.folder \in Folder
    BY DEF TypeOK, Job
  <2>. QED
    BY <2>1, <2>2, <2>3 DEF Run
<1>2. ASSUME NEW i \in Instance, RunStep(i) PROVE RunRecords'
  <2>1. run[i].pc # "none" => run[i] \in Run
    BY DEF NoRun
  <2>2. CASE Begin(i)
    <3>1. RowsOf(run[i].folder) \subseteq Row
      BY DEF RowsOf
    <3>. QED
      BY <2>1, <2>2, <3>1 DEF Begin, TxnEnds, Run
  <2>3. CASE Wipe(i)
    BY <2>1, <2>3 DEF Wipe, WipedRows, TxnEnds, Run
  <2>4. CASE Open(i)
    BY <2>1, <2>4 DEF Open, Run
  <2>5. CASE AddSpreadsheet(i)
    <3>1. run[i] \in Run
      BY <2>1, <2>5 DEF AddSpreadsheet
    <3>2. Inserted(i) \subseteq Row
      BY <3>1 DEF Inserted, Run, Row
    <3>. QED
      BY <3>1, <3>2, <2>5 DEF AddSpreadsheet, InsertFails, LeftAfterFailure, Run
  <2>6. CASE InsertCancelled(i)
    BY <2>1, <2>6 DEF InsertCancelled, InsertFails, LeftAfterFailure, Run
  <2>7. CASE CloseTxn(i)
    BY <2>1, <2>7 DEF CloseTxn, TxnEnds, Run
  <2>8. CASE FinishRun(i)
    BY <2>8 DEF FinishRun, Leave
  <2>. QED
    BY <1>2, <2>2, <2>3, <2>4, <2>5, <2>6, <2>7, <2>8 DEF RunStep
<1>3. ASSUME NEW i \in Instance, LoseTxn(i) PROVE RunRecords'
  <2>1. run[i] \in Run
    BY <1>3 DEF LoseTxn, NoRun
  <2>. QED
    BY <1>3, <2>1 DEF LoseTxn, TxnEnds, Run
<1>4. ASSUME NEW i \in Instance, KillRun(i) PROVE RunRecords'
  BY <1>4 DEF KillRun, Leave
<1>5. ASSUME NEW f \in Folder, DeleteBegin(f) \/ DeleteEnd(f) \/ DeleteFails(f) PROVE RunRecords'
  BY <1>5 DEF DeleteBegin, DeleteEnd, DeleteFails
<1>6. CASE UNCHANGED run
  BY <1>6
<1>7. ASSUME NEW c \in Client, RequestStep(c) PROVE UNCHANGED run
  BY <1>7 DEF RequestStep, runVars
<1>8. ASSUME NEW i \in Instance, PollStep(i) PROVE UNCHANGED run
  BY <1>8 DEF PollStep, runVars
<1>. QED
  BY <1>1, <1>2, <1>3, <1>4, <1>5, <1>6, <1>7, <1>8 DEF FolderNext, allVars, runVars

(* A step keeps the types: the queue's part is JobQueue's own lemma.       *)
LEMMA RunTypeStep == RunTypeOK /\ [FolderNext]_allVars => RunTypeOK'
<1>. SUFFICES ASSUME RunTypeOK, [FolderNext]_allVars PROVE RunTypeOK'
  OBVIOUS
<1>1. TypeOK'
  BY StepRefines, TypeStep DEF RunTypeOK
<1>2. (run \in [Instance -> Run \cup {NoRun}])'
  BY RunRecordsStep, SMTT(30) DEF RunRecords
<1>3. (rows \subseteq Row)'
  <2>1. ASSUME NEW i \in Instance, CloseTxn(i) PROVE rows' \subseteq Row
    <3>1. run[i].new \subseteq Row
      BY <2>1 DEF CloseTxn, RunTypeOK, NoRun, Run
    <3>. QED
      BY <2>1, <3>1 DEF CloseTxn, RunTypeOK
  <2>2. ASSUME NEW f \in Folder, DeleteEnd(f) PROVE rows' \subseteq Row
    BY <2>2 DEF DeleteEnd, RunTypeOK
  <2>. QED
    BY <2>1, <2>2 DEF RunTypeOK, FolderNext, allVars, runVars, DeleteBegin, DeleteFails,
       RequestStep, PollStep, StartRun, RunStep, LoseTxn, KillRun, Begin, Wipe, Open,
       AddSpreadsheet, InsertCancelled, FinishRun
<1>4. (deleting \subseteq folders)'
  <2>1. ASSUME NEW f \in Folder, AddFolder(f), UNCHANGED runVars PROVE deleting' \subseteq folders'
    BY <2>1 DEF AddFolder, RunTypeOK, runVars
  <2>2. ASSUME NEW f \in Folder, DeleteBegin(f) \/ DeleteFails(f) PROVE deleting' \subseteq folders'
    BY <2>2 DEF DeleteBegin, DeleteFails, RunTypeOK, vars
  <2>3. ASSUME NEW f \in Folder, DeleteEnd(f) PROVE deleting' \subseteq folders'
    BY <2>3 DEF DeleteEnd, DeleteFolder, RunTypeOK
  <2>4. ASSUME NEW c \in Client, RequestStep(c) PROVE UNCHANGED <<folders, deleting>>
    BY <2>4 DEF RequestStep, runVars, QueueBegin, QueueCheck, QueueCommit, QueueAbort,
                QueueInsert, tableVars
  <2>5. ASSUME NEW i \in Instance, PollStep(i) \/ StartRun(i) \/ KillRun(i)
        PROVE UNCHANGED <<folders, deleting>>
    BY <2>5 DEF PollStep, StartRun, KillRun, runVars, Loop, Fetch, FetchError, Wait, Exit,
                Signal, Boot, StartJob, Crash, tableVars
  <2>6. ASSUME NEW i \in Instance, RunStep(i) \/ LoseTxn(i) PROVE UNCHANGED <<folders, deleting>>
    BY <2>6, ZenonT(40) DEF RunStep, LoseTxn, Begin, Wipe, Open, AddSpreadsheet, InsertCancelled, CloseTxn,
                FinishRun, Finish, FinishError, vars, tableVars
  <2>. QED
    BY <2>1, <2>2, <2>3, <2>4, <2>5, <2>6 DEF RunTypeOK, FolderNext, allVars, runVars, vars
<1>5. (attempts \in 0..MaxAttempts)' /\ (overlaps \subseteq SUBSET (1..MaxAttempts))'
  <2>1. ASSUME NEW i \in Instance, StartRun(i)
        PROVE attempts' \in 0..MaxAttempts /\ overlaps' \subseteq SUBSET (1..MaxAttempts)
    <3>1. attempts + 1 \in 1..MaxAttempts
      BY <2>1, AttemptAssumption DEF StartRun, RunTypeOK
    <3>2. \A k \in Runs : run[k].attempt \in 1..MaxAttempts
      BY DEF Runs, RunTypeOK, NoRun, Run
    <3>3. PICK f : overlaps' = overlaps \cup
                 {{run[k].attempt, attempts + 1} : k \in {l \in Runs : run[l].folder = f}}
      BY <2>1 DEF StartRun
    <3>4. \A k \in Runs : {run[k].attempt, attempts + 1} \subseteq 1..MaxAttempts
      BY <3>1, <3>2
    <3>5. {{run[k].attempt, attempts + 1} : k \in {l \in Runs : run[l].folder = f}}
             \subseteq SUBSET (1..MaxAttempts)
      BY <3>4
    <3>6. overlaps \subseteq SUBSET (1..MaxAttempts) /\ attempts \in 0..MaxAttempts
      BY DEF RunTypeOK
    <3>7. overlaps' \subseteq SUBSET (1..MaxAttempts)
      BY <3>3, <3>5, <3>6
    <3>8. attempts' = attempts + 1
      BY <2>1 DEF StartRun
    <3>. QED
      BY <3>1, <3>6, <3>7, <3>8, AttemptAssumption
  <2>. QED
    BY <2>1 DEF RunTypeOK, FolderNext, allVars, runVars, DeleteBegin, DeleteEnd, DeleteFails,
       RequestStep, PollStep, RunStep, LoseTxn, KillRun, Begin, Wipe, Open,
       AddSpreadsheet, InsertCancelled, CloseTxn, FinishRun
<1>6. (\A i \in Instance : run[i].pc # "none" <=> srv[i].pc = "process")'
  <2>. DEFINE Matched == \A i \in Instance : run[i].pc # "none" <=> srv[i].pc = "process"
  <2>0. Matched /\ run \in [Instance -> Run \cup {NoRun}] /\ srv \in [Instance -> Holding \cup Unladen]
    BY DEF RunTypeOK, TypeOK
  <2>1. ASSUME NEW i \in Instance, StartRun(i) PROVE Matched'
    BY <2>0, <2>1 DEF StartRun, StartJob
  <2>2. ASSUME NEW i \in Instance, PollStep(i) PROVE Matched'
    BY <2>0, <2>2 DEF PollStep, Loop, Fetch, FetchError, Wait, Exit, Signal, Boot, Goto, runVars
  <2>3. ASSUME NEW i \in Instance, KillRun(i) \/ FinishRun(i) PROVE Matched'
    BY <2>0, <2>3 DEF KillRun, FinishRun, Crash, Finish, FinishError, Goto, Leave, NoRun
  <2>4. ASSUME NEW i \in Instance, Begin(i) \/ Wipe(i) \/ Open(i) PROVE Matched'
    <3>1. run[i].pc # "none" /\ srv' = srv
      BY <2>4 DEF Begin, Wipe, Open, vars
    <3>2. run[i] \in Run
      BY <2>0, <3>1 DEF NoRun
    <3>3. CASE Begin(i)
      BY <2>0, <3>1, <3>2, <3>3 DEF Begin, TxnEnds, Run
    <3>4. CASE Wipe(i)
      BY <2>0, <3>1, <3>2, <3>4 DEF Wipe, TxnEnds, Run
    <3>5. CASE Open(i)
      BY <2>0, <3>1, <3>2, <3>5 DEF Open, Run
    <3>. QED
      BY <2>4, <3>3, <3>4, <3>5
  <2>5. ASSUME NEW i \in Instance, AddSpreadsheet(i) \/ InsertCancelled(i) PROVE Matched'
    BY <2>0, <2>5 DEF AddSpreadsheet, InsertCancelled, InsertFails, vars, NoRun, Run
  <2>6. ASSUME NEW i \in Instance, CloseTxn(i) \/ LoseTxn(i) PROVE Matched'
    <3>1. run[i].pc # "none" /\ srv' = srv
      BY <2>6 DEF CloseTxn, LoseTxn, vars
    <3>2. run'[i].pc = "closed" /\ \A k \in Instance \ {i} : run'[k] = run[k]
      BY <2>0, <2>6, <3>1 DEF CloseTxn, LoseTxn, TxnEnds, NoRun, Run
    <3>. QED
      BY <2>0, <3>1, <3>2
  <2>7. ASSUME NEW f \in Folder, (AddFolder(f) /\ UNCHANGED runVars) \/ DeleteBegin(f)
                                 \/ DeleteEnd(f) \/ DeleteFails(f)
        PROVE UNCHANGED <<run, srv>>
    BY <2>7 DEF AddFolder, DeleteBegin, DeleteEnd, DeleteFails, DeleteFolder, vars, runVars
  <2>8. ASSUME NEW c \in Client, RequestStep(c) PROVE UNCHANGED <<run, srv>>
    BY <2>8 DEF RequestStep, runVars, QueueBegin, QueueCheck, QueueCommit, QueueAbort, QueueInsert
  <2>. QED
    BY <2>0, <2>1, <2>2, <2>3, <2>4, <2>5, <2>6, <2>7, <2>8
       DEF FolderNext, RunStep, allVars, runVars, vars
<1>. QED
  BY <1>1, <1>2, <1>3, <1>4, <1>5, <1>6 DEF RunTypeOK

(* Types, and one transaction per instance that is in process().           *)
THEOREM RunTypeCorrect == FolderSpec => []RunTypeOK
  BY RunTypeInit, RunTypeStep, PTL DEF FolderSpec
-----------------------------------------------------------------------------
(* A step of a run, whatever it does to the run's record, leaves the       *)
(* folders and their locks alone, and the other runs.                      *)
LEMMA OwnRunOnly ==
  ASSUME RunTypeOK, NEW i \in Instance,
         StartRun(i) \/ RunStep(i) \/ LoseTxn(i) \/ KillRun(i)
  PROVE  /\ UNCHANGED <<folders, deleting>>
         /\ \A k \in Instance \ {i} : run'[k] = run[k]
<1>. USE DEF RunTypeOK
<1>1. CASE StartRun(i)
  BY <1>1, SMTT(30) DEF StartRun, StartJob
<1>2. CASE RunStep(i)
  BY <1>2 DEF RunStep, Begin, Wipe, Open, AddSpreadsheet, InsertCancelled, CloseTxn, FinishRun,
              Finish, FinishError, TxnEnds, InsertFails, Leave, vars, tableVars
<1>3. CASE LoseTxn(i)
  BY <1>3 DEF LoseTxn, TxnEnds, vars
<1>4. CASE KillRun(i)
  BY <1>4 DEF KillRun, Crash, Leave, tableVars
<1>. QED
  BY <1>1, <1>2, <1>3, <1>4

(* What a step of a run may do to the rows it has inserted: add one while  *)
(* the folder is there and unlocked, or drop them all.                     *)
LEMMA NewRows ==
  ASSUME RunTypeOK, NEW i \in Instance,
         StartRun(i) \/ RunStep(i) \/ LoseTxn(i) \/ KillRun(i), run'[i].pc # "none"
  PROVE  \/ run'[i].new = {}
         \/ /\ run[i].pc # "none" /\ run'[i].folder = run[i].folder
            /\ \/ run'[i].new = run[i].new
               \/ /\ run'[i].new = run[i].new \cup Inserted(i)
                  /\ run[i].folder \in folders \ deleting
<1>. USE DEF RunTypeOK
<1>1. CASE StartRun(i)
  BY <1>1 DEF StartRun
<1>2. CASE LoseTxn(i)
  <2>1. run[i] \in Run
    BY <1>2 DEF LoseTxn, NoRun
  <2>. QED
    BY <1>2, <2>1 DEF LoseTxn, TxnEnds, Run
<1>3. CASE KillRun(i)
  BY <1>3 DEF KillRun, Leave, NoRun
<1>4. CASE RunStep(i)
  <2>1. CASE FinishRun(i)
    BY <2>1 DEF FinishRun, Leave, NoRun
  <2>2. ASSUME run[i].pc # "none" PROVE run[i] \in Run
    BY <2>2 DEF NoRun
  <2>3. CASE Begin(i) \/ CloseTxn(i)
    BY <2>3, <2>2 DEF Begin, CloseTxn, TxnEnds, Run
  <2>4. CASE Wipe(i)
    BY <2>4, <2>2 DEF Wipe, TxnEnds, Run
  <2>5. CASE Open(i)
    BY <2>5, <2>2 DEF Open, Run
  <2>6. CASE AddSpreadsheet(i)
    BY <2>6, <2>2 DEF AddSpreadsheet, InsertFails, FolderLocked, Run
  <2>7. CASE InsertCancelled(i)
    BY <2>7, <2>2 DEF InsertCancelled, InsertFails, Run
  <2>. QED
    BY <1>4, <2>1, <2>3, <2>4, <2>5, <2>6, <2>7 DEF RunStep
<1>. QED
  BY <1>1, <1>2, <1>3, <1>4

(* A run that has inserted rows pins its folder from one step to the next. *)
LEMMA PinStep == RunTypeOK /\ InsertsPinFolder /\ [FolderNext]_allVars => InsertsPinFolder'
<1>. SUFFICES ASSUME RunTypeOK, InsertsPinFolder, [FolderNext]_allVars PROVE InsertsPinFolder'
  OBVIOUS
<1>1. ASSUME NEW i \in Instance, StartRun(i) \/ RunStep(i) \/ LoseTxn(i) \/ KillRun(i)
      PROVE InsertsPinFolder'
  <2>1. SUFFICES ASSUME NEW k \in Instance, run'[k].pc # "none", run'[k].new # {}
                 PROVE  /\ run'[k].folder \in folders \ deleting
                        /\ \A r \in run'[k].new : r.folder = run'[k].folder
    BY <1>1, OwnRunOnly DEF InsertsPinFolder, Runs
  <2>2. CASE k # i
    BY <1>1, <2>1, <2>2, OwnRunOnly DEF InsertsPinFolder, Runs
  <2>3. CASE k = i
    <3>1. \A r \in Inserted(i) : r.folder = run[i].folder
      BY DEF Inserted
    <3>. QED
      BY <1>1, <2>1, <2>3, <3>1, NewRows DEF InsertsPinFolder, Runs
  <2>. QED
    BY <2>2, <2>3
<1>2. ASSUME NEW f \in Folder, DeleteBegin(f) PROVE InsertsPinFolder'
  BY <1>2 DEF DeleteBegin, InsertsPinFolder, Pinned, Runs, vars
<1>3. ASSUME NEW f \in Folder, DeleteEnd(f) PROVE InsertsPinFolder'
  BY <1>3 DEF DeleteEnd, DeleteFolder, InsertsPinFolder, Runs
<1>4. ASSUME NEW f \in Folder, DeleteFails(f) PROVE InsertsPinFolder'
  BY <1>4 DEF DeleteFails, InsertsPinFolder, Runs, vars
<1>5. ASSUME NEW f \in Folder, AddFolder(f), UNCHANGED runVars PROVE InsertsPinFolder'
  BY <1>5 DEF AddFolder, InsertsPinFolder, Runs, runVars
<1>6. ASSUME UNCHANGED <<folders, run, deleting>> PROVE InsertsPinFolder'
  BY <1>6 DEF InsertsPinFolder, Runs
<1>7. CASE UNCHANGED allVars
  BY <1>6, <1>7 DEF allVars, runVars, vars
<1>8. ASSUME NEW c \in Client, RequestStep(c) PROVE UNCHANGED <<folders, run, deleting>>
  BY <1>8 DEF RequestStep, QueueBegin, QueueCheck, QueueCommit, QueueAbort, QueueInsert,
              runVars, tableVars
<1>9. ASSUME NEW i \in Instance, PollStep(i) PROVE UNCHANGED <<folders, run, deleting>>
  BY <1>9 DEF PollStep, Loop, Fetch, FetchError, Wait, Exit, Signal, Boot, runVars, tableVars
<1>. QED
  BY <1>1, <1>2, <1>3, <1>4, <1>5, <1>6, <1>7, <1>8, <1>9 DEF FolderNext

(* What a commit publishes belongs to a folder that is pinned, and the end *)
(* of a delete takes the folder's rows with it.                            *)
LEMMA RowsStep ==
  RunTypeOK /\ InsertsPinFolder /\ RowsHaveFolder /\ [FolderNext]_allVars => RowsHaveFolder'
<1>. SUFFICES ASSUME RunTypeOK, InsertsPinFolder, RowsHaveFolder, [FolderNext]_allVars
              PROVE RowsHaveFolder'
  OBVIOUS
<1>1. ASSUME NEW i \in Instance, CloseTxn(i) PROVE RowsHaveFolder'
  <2>1. \A r \in run[i].new : r.folder \in folders
    BY <1>1 DEF CloseTxn, InsertsPinFolder, Runs
  <2>. QED
    BY <1>1, <2>1 DEF CloseTxn, RowsHaveFolder, vars
<1>2. ASSUME NEW f \in Folder, DeleteEnd(f) PROVE RowsHaveFolder'
  BY <1>2 DEF DeleteEnd, DeleteFolder, RowsOf, RowsHaveFolder
<1>3. ASSUME rows' = rows, folders \subseteq folders' PROVE RowsHaveFolder'
  BY <1>3, SMTT(30) DEF RowsHaveFolder
<1>4. ASSUME NEW i \in Instance, StartRun(i) \/ RunStep(i) \/ LoseTxn(i) \/ KillRun(i), ~CloseTxn(i)
      PROVE rows' = rows /\ folders \subseteq folders'
  BY <1>4, OwnRunOnly DEF StartRun, RunStep, LoseTxn, KillRun, Begin, Wipe, Open, AddSpreadsheet,
     InsertCancelled, FinishRun
<1>5. ASSUME NEW f \in Folder,
             (AddFolder(f) /\ UNCHANGED runVars) \/ DeleteBegin(f) \/ DeleteFails(f)
      PROVE rows' = rows /\ folders \subseteq folders'
  BY <1>5 DEF AddFolder, DeleteBegin, DeleteFails, vars, runVars
<1>6. ASSUME NEW c \in Client, RequestStep(c) PROVE UNCHANGED <<folders, rows>>
  BY <1>6 DEF RequestStep, QueueBegin, QueueCheck, QueueCommit, QueueAbort, QueueInsert,
              runVars, tableVars
<1>7. ASSUME NEW i \in Instance, PollStep(i) PROVE UNCHANGED <<folders, rows>>
  BY <1>7 DEF PollStep, Loop, Fetch, FetchError, Wait, Exit, Signal, Boot, runVars, tableVars
<1>8. CASE UNCHANGED allVars
  BY <1>3, <1>8 DEF allVars, runVars, vars
<1>. QED
  BY <1>1, <1>2, <1>3, <1>4, <1>5, <1>6, <1>7, <1>8 DEF FolderNext

(* Whatever runs insert and deletes remove meanwhile, every spreadsheet    *)
(* row belongs to a folder that exists, and the reason why.                *)
THEOREM RowsHaveFolderHolds == FolderSpec => [](RowsHaveFolder /\ InsertsPinFolder)
<1>1. FolderInit => RowsHaveFolder /\ InsertsPinFolder
  BY DEF FolderInit, RowsHaveFolder, InsertsPinFolder, Runs, NoRun
<1>2. RunTypeOK /\ InsertsPinFolder /\ RowsHaveFolder /\ [FolderNext]_allVars
         => (RowsHaveFolder /\ InsertsPinFolder)'
  BY PinStep, RowsStep
<1>. QED
  BY <1>1, <1>2, RunTypeCorrect, PTL DEF FolderSpec
-----------------------------------------------------------------------------
(* Runs of one folder at the same time.                                    *)
OfRun(i) == StartRun(i) \/ RunStep(i) \/ LoseTxn(i) \/ KillRun(i)

(* While a run is in process() nobody but the run changes its record, and  *)
(* its folder, its number and its job stay what they were; a transaction   *)
(* that has ended stays so.                                                *)
LEMMA RunKept ==
  ASSUME RunTypeOK, [FolderNext]_allVars, NEW i \in Instance, run'[i].pc # "none"
  PROVE  \/ StartRun(i)
         \/ /\ run[i].pc # "none" /\ run'[i].folder = run[i].folder
            /\ run'[i].attempt = run[i].attempt /\ srv'[i] = srv[i]
            /\ run[i].pc = "closed" => run'[i].pc = "closed"
<1>. USE DEF RunTypeOK
<1>1. run[i].pc # "none" => run[i] \in Run /\ srv[i].pc = "process"
  BY DEF NoRun
<1>2. CASE LoseTxn(i)
  BY <1>1, <1>2 DEF LoseTxn, TxnEnds, Run, vars
<1>3. CASE KillRun(i)
  BY <1>3 DEF KillRun, Leave, NoRun
<1>4. CASE RunStep(i)
  <2>1. CASE FinishRun(i)
    BY <2>1 DEF FinishRun, Leave, NoRun
  <2>2. CASE Begin(i) \/ CloseTxn(i)
    BY <1>1, <2>2 DEF Begin, CloseTxn, TxnEnds, Run, vars
  <2>3. CASE Wipe(i)
    BY <1>1, <2>3 DEF Wipe, TxnEnds, Run, vars
  <2>4. CASE Open(i)
    BY <1>1, <2>4 DEF Open, Run, vars
  <2>5. CASE AddSpreadsheet(i) \/ InsertCancelled(i)
    BY <1>1, <2>5 DEF AddSpreadsheet, InsertCancelled, InsertFails, Run, vars
  <2>. QED
    BY <1>4, <2>1, <2>2, <2>3, <2>4, <2>5 DEF RunStep
<1>5. ASSUME NEW k \in Instance \ {i}, OfRun(k) PROVE run'[i] = run[i] /\ srv'[i] = srv[i]
  <2>1. run'[i] = run[i]
    BY <1>5, OwnRunOnly DEF OfRun
  <2>2. srv' = srv \/ \E x : srv' = [srv EXCEPT ![k] = x]
    BY <1>5 DEF OfRun, StartRun, StartJob, RunStep, LoseTxn, KillRun, Crash, Begin, Wipe, Open,
                AddSpreadsheet, InsertCancelled, CloseTxn, FinishRun, Finish, FinishError, Goto, vars
  <2>. QED
    BY <2>1, <2>2 DEF TypeOK
<1>6. ASSUME NEW k \in Instance, PollStep(k) PROVE run' = run /\ (run[i].pc # "none" => srv'[i] = srv[i])
  <2>1. run' = run
    BY <1>6 DEF PollStep, runVars
  <2>2. srv' = srv \/ (srv[k].pc # "process" /\ \E x : srv' = [srv EXCEPT ![k] = x])
    BY <1>6 DEF PollStep, Loop, Fetch, FetchError, Wait, Exit, Signal, Boot, Goto
  <2>. QED
    BY <1>1, <2>1, <2>2 DEF TypeOK
<1>7. ASSUME NEW c \in Client, RequestStep(c) PROVE UNCHANGED <<run, srv>>
  BY <1>7 DEF RequestStep, QueueBegin, QueueCheck, QueueCommit, QueueAbort, QueueInsert, runVars
<1>8. ASSUME NEW f \in Folder,
             (AddFolder(f) /\ UNCHANGED runVars) \/ DeleteBegin(f) \/ DeleteEnd(f) \/ DeleteFails(f)
      PROVE UNCHANGED <<run, srv>>
  BY <1>8 DEF AddFolder, DeleteBegin, DeleteEnd, DeleteFails, DeleteFolder, vars, runVars
<1>9. UNCHANGED allVars => UNCHANGED <<run, srv>>
  BY DEF allVars, runVars, vars
<1>10. FolderNext =>
         \/ \E k \in Instance : OfRun(k) \/ PollStep(k)
         \/ UNCHANGED <<run, srv>>
  BY <1>7, <1>8 DEF FolderNext, OfRun
<1>. QED
  BY <1>2, <1>3, <1>4, <1>5, <1>6, <1>9, <1>10 DEF OfRun

(* A run's record is its own: no other step changes it.                    *)
LEMMA OwnRecord ==
  ASSUME RunTypeOK, [FolderNext]_allVars, NEW i \in Instance
  PROVE  OfRun(i) \/ run'[i] = run[i]
<1>1. ASSUME NEW k \in Instance \ {i}, OfRun(k) PROVE run'[i] = run[i]
  BY <1>1, OwnRunOnly DEF OfRun
<1>2. ASSUME NEW k \in Instance, PollStep(k) PROVE run' = run
  BY <1>2 DEF PollStep, runVars
<1>3. ASSUME NEW c \in Client, RequestStep(c) PROVE run' = run
  BY <1>3 DEF RequestStep, runVars
<1>4. ASSUME NEW f \in Folder,
             (AddFolder(f) /\ UNCHANGED runVars) \/ DeleteBegin(f) \/ DeleteEnd(f) \/ DeleteFails(f)
      PROVE run' = run
  BY <1>4 DEF DeleteBegin, DeleteEnd, DeleteFails, runVars
<1>5. UNCHANGED allVars => run' = run
  BY DEF allVars, runVars
<1>. QED
  BY <1>1, <1>2, <1>3, <1>4, <1>5 DEF FolderNext, OfRun

(* Of two runs of a folder, the later one has noted the other.             *)
Noted == \A i, k \in Runs :
    i # k /\ run[i].folder = run[k].folder => {run[i].attempt, run[k].attempt} \in overlaps

(* A run works on the folder of its job, also when the job is gone.        *)
JobOfRun == \A i \in Runs :
    /\ \A j \in jobs : j.id = srv[i].job => j.folder = run[i].folder
    /\ \A k \in Runs : srv[k].job = srv[i].job => run[k].folder = run[i].folder

LEMMA StartNotes ==
  ASSUME RunTypeOK, NEW i \in Instance, StartRun(i)
  PROVE  \E j \in jobs :
           /\ j.id = srv[i].job /\ run'[i].folder = j.folder
           /\ run[i].pc = "none" /\ srv'[i].job = srv[i].job /\ jobs' = jobs
           /\ \A k \in Runs : run[k].folder = j.folder =>
                  {run[k].attempt, run'[i].attempt} \in overlaps'
<1>. USE DEF RunTypeOK
<1>1. srv[i].pc = "claimed" /\ srv' = [srv EXCEPT ![i].pc = "process"] /\ jobs' = jobs
  BY DEF StartRun, StartJob
<1>2. PICK j \in jobs :
           /\ j.id = srv[i].job
           /\ run' = [run EXCEPT ![i] =
                 [pc |-> "begin", folder |-> j.folder, attempt |-> attempts + 1, left |-> File,
                  want |-> {}, snap |-> {}, gone |-> {}, new |-> {}]]
           /\ overlaps' = overlaps \cup
                 {{run[k].attempt, attempts + 1} : k \in {l \in Runs : run[l].folder = j.folder}}
  BY DEF StartRun
<1>3. run[i].pc = "none" /\ srv[i] \in Holding
  BY <1>1 DEF TypeOK, Unladen
<1>4. srv'[i].job = srv[i].job
  BY <1>1, <1>3 DEF TypeOK, Holding
<1>5. run'[i].folder = j.folder /\ run'[i].attempt = attempts + 1
  BY <1>2
<1>. QED
  BY <1>1, <1>2, <1>3, <1>4, <1>5

LEMMA OverlapsGrow == RunTypeOK /\ [FolderNext]_allVars => overlaps \subseteq overlaps'
<1>. SUFFICES ASSUME RunTypeOK, [FolderNext]_allVars PROVE overlaps \subseteq overlaps'
  OBVIOUS
<1>1. ASSUME NEW i \in Instance, StartRun(i) PROVE overlaps \subseteq overlaps'
  BY <1>1 DEF StartRun
<1>. QED
  BY <1>1 DEF FolderNext, allVars, runVars, DeleteBegin, DeleteEnd, DeleteFails,
     RequestStep, PollStep, RunStep, LoseTxn, KillRun, Begin, Wipe, Open,
     AddSpreadsheet, InsertCancelled, CloseTxn, FinishRun

LEMMA OneStarts ==
  ASSUME RunTypeOK, NEW i \in Instance, NEW k \in Instance, i # k, StartRun(i)
  PROVE  ~StartRun(k)
<1>1. srv'[i].pc = "process" /\ srv[i].pc = "claimed"
  BY DEF StartRun, StartJob, RunTypeOK, TypeOK
<1>2. StartRun(k) => srv'[i] = srv[i]
  BY DEF StartRun, StartJob, RunTypeOK, TypeOK
<1>. QED
  BY <1>1, <1>2

LEMMA NotedStep == RunTypeOK /\ Noted /\ [FolderNext]_allVars => Noted'
<1>. SUFFICES ASSUME RunTypeOK, Noted, [FolderNext]_allVars,
                     NEW i \in Instance, NEW k \in Instance, i # k,
                     run'[i].pc # "none", run'[k].pc # "none", run'[i].folder = run'[k].folder
              PROVE  {run'[i].attempt, run'[k].attempt} \in overlaps'
  BY DEF Noted, Runs
<1>1. CASE StartRun(i)
  <2>1. ~StartRun(k)
    BY <1>1, OneStarts
  <2>2. {run'[i].attempt, run'[k].attempt} = {run'[k].attempt, run'[i].attempt}
    OBVIOUS
  <2>. QED
    BY <1>1, <2>1, <2>2, StartNotes, RunKept DEF Runs
<1>2. CASE StartRun(k)
  <2>1. ~StartRun(i)
    BY <1>2, OneStarts
  <2>. QED
    BY <1>2, <2>1, StartNotes, RunKept DEF Runs
<1>3. CASE ~StartRun(i) /\ ~StartRun(k)
  BY <1>3, RunKept, OverlapsGrow DEF Noted, Runs
<1>. QED
  BY <1>1, <1>2, <1>3

(* A new row of the queue has the ticket of no run.                        *)
LEMMA JobsGrow ==
  ASSUME RunTypeOK, IndInv, [FolderNext]_allVars, NEW j \in jobs', j \notin jobs
  PROVE  \A i \in Instance : run[i].pc # "none" => srv[i].job # j.id
<1>1. ASSUME NEW c \in Client, QueueCommit(c), NEW i \in Instance, run[i].pc # "none"
      PROVE  srv[i].job # j.id
  <2>1. j.id = req[c].ticket /\ req[c].pc # "idle"
    BY <1>1 DEF QueueCommit
  <2>2. srv[i].job \in HeldBy(i)
    BY <1>1 DEF RunTypeOK, HeldBy, RunBy
  <2>. QED
    BY <2>1, <2>2 DEF IndInv, TicketsDistinct
<1>2. ASSUME NEW c \in Client, RequestStep(c) PROVE QueueCommit(c)
  BY <1>2 DEF RequestStep, QueueBegin, QueueCheck, QueueAbort, QueueInsert, tableVars
<1>3. ASSUME NEW f \in Folder,
             (AddFolder(f) /\ UNCHANGED runVars) \/ DeleteBegin(f) \/ DeleteEnd(f) \/ DeleteFails(f)
      PROVE FALSE
  BY <1>3 DEF AddFolder, DeleteBegin, DeleteEnd, DeleteFails, DeleteFolder, vars
<1>4. ASSUME NEW i \in Instance, PollStep(i) \/ StartRun(i) \/ LoseTxn(i) \/ KillRun(i) PROVE FALSE
  BY <1>4 DEF PollStep, Loop, Fetch, FetchError, Wait, Exit, Signal, Boot, StartRun, StartJob,
              LoseTxn, KillRun, Crash, vars, tableVars
<1>5. ASSUME NEW i \in Instance, RunStep(i) PROVE FALSE
  BY <1>5 DEF RunStep, Begin, Wipe, Open, AddSpreadsheet, InsertCancelled, CloseTxn,
              FinishRun, Finish, FinishError, vars, tableVars
<1>6. ~UNCHANGED allVars
  BY DEF allVars, vars
<1>. QED
  BY <1>1, <1>2, <1>3, <1>4, <1>5, <1>6 DEF FolderNext

LEMMA JobOfRunStep ==
  RunTypeOK /\ IndInv /\ JobOfRun /\ [FolderNext]_allVars => JobOfRun'
<1>. SUFFICES ASSUME RunTypeOK, IndInv, JobOfRun, [FolderNext]_allVars,
                     NEW i \in Instance, run'[i].pc # "none"
              PROVE  /\ \A j \in jobs' : j.id = srv'[i].job => j.folder = run'[i].folder
                     /\ \A k \in Instance : run'[k].pc # "none" /\ srv'[k].job = srv'[i].job
                                                => run'[k].folder = run'[i].folder
  BY DEF JobOfRun, Runs
<1>1. \A x, y \in jobs : x.id = y.id => x = y
  BY DEF IndInv, TicketsDistinct
<1>2. ASSUME NEW k \in Instance, run'[k].pc # "none", ~StartRun(k)
      PROVE  /\ k \in Runs /\ srv'[k].job = srv[k].job /\ run'[k].folder = run[k].folder
             /\ \A j \in jobs' : j.id = srv[k].job => j \in jobs
  <2>1. k \in Runs /\ srv'[k].job = srv[k].job /\ run'[k].folder = run[k].folder
    BY <1>2, RunKept DEF Runs
  <2>. QED
    BY <2>1, JobsGrow DEF Runs
<1>3. ASSUME NEW k \in Instance, StartRun(k)
      PROVE  \E j \in jobs : /\ j.id = srv'[k].job /\ run'[k].folder = j.folder /\ jobs' = jobs
  BY <1>3, StartNotes
<1>4. \A j \in jobs' : j.id = srv'[i].job => j.folder = run'[i].folder
  <2>1. CASE StartRun(i)
    BY <1>1, <1>3, <2>1
  <2>2. CASE ~StartRun(i)
    BY <1>2, <2>2 DEF JobOfRun
  <2>. QED
    BY <2>1, <2>2
<1>5. ASSUME NEW k \in Instance, run'[k].pc # "none", srv'[k].job = srv'[i].job
      PROVE  run'[k].folder = run'[i].folder
  <2>1. CASE ~StartRun(i) /\ ~StartRun(k)
    BY <1>2, <1>5, <2>1 DEF JobOfRun
  <2>2. CASE StartRun(i) /\ k # i
    <3>1. ~StartRun(k)
      BY <2>2, OneStarts
    <3>. QED
      BY <1>2, <1>3, <1>5, <2>2, <3>1 DEF JobOfRun
  <2>3. CASE StartRun(k) /\ k # i
    <3>1. ~StartRun(i)
      BY <2>3, OneStarts
    <3>. QED
      BY <1>2, <1>3, <1>5, <2>3, <3>1 DEF JobOfRun
  <2>. QED
    BY <2>1, <2>2, <2>3
<1>. QED
  BY <1>4, <1>5

LEMMA NotedHolds == FolderSpec => [](RunTypeOK /\ IndInv /\ Noted /\ JobOfRun)
<1>1. FolderInit => Noted /\ JobOfRun
  BY DEF FolderInit, Noted, JobOfRun, Runs, NoRun
<1>2. FolderSpec => []IndInv
  BY QueueKept, IndInvHolds, PTL
<1>. QED
  BY <1>1, <1>2, NotedStep, JobOfRunStep, RunTypeCorrect, PTL DEF FolderSpec

-----------------------------------------------------------------------------
(* Who writes finishedat.                                                  *)
LEMMA Finishes ==
  ASSUME RunTypeOK, [FolderNext]_allVars, NEW t \in finished', t \notin finished
  PROVE  \E k \in Runs : srv[k].job = t /\ FinishRun(k)
<1>1. ASSUME NEW k \in Instance, RunStep(k) PROVE k \in Runs /\ srv[k].job = t /\ FinishRun(k)
  <2>1. FinishRun(k)
    BY <1>1 DEF RunStep, Begin, Wipe, Open, AddSpreadsheet, InsertCancelled, CloseTxn, vars
  <2>. QED
    BY <2>1 DEF FinishRun, Finish, FinishError, tableVars, Runs
<1>2. ASSUME NEW c \in Client, RequestStep(c) PROVE FALSE
  BY <1>2 DEF RequestStep, QueueBegin, QueueCheck, QueueCommit, QueueAbort, QueueInsert, tableVars
<1>3. ASSUME NEW f \in Folder,
             (AddFolder(f) /\ UNCHANGED runVars) \/ DeleteBegin(f) \/ DeleteEnd(f) \/ DeleteFails(f)
      PROVE FALSE
  BY <1>3 DEF AddFolder, DeleteBegin, DeleteEnd, DeleteFails, DeleteFolder, vars
<1>4. ASSUME NEW i \in Instance, PollStep(i) \/ StartRun(i) \/ LoseTxn(i) \/ KillRun(i) PROVE FALSE
  BY <1>4 DEF PollStep, Loop, Fetch, FetchError, Wait, Exit, Signal, Boot, StartRun, StartJob,
              LoseTxn, KillRun, Crash, vars, tableVars
<1>5. ~UNCHANGED allVars
  BY DEF allVars, vars
<1>. QED
  BY <1>1, <1>2, <1>3, <1>4, <1>5 DEF FolderNext

LEMMA PublishedStep ==
  RunTypeOK /\ IndInv /\ Noted /\ JobOfRun /\ FinishedIsPublished /\ [FolderNext]_allVars
      => FinishedIsPublished'
<1>. SUFFICES ASSUME RunTypeOK, IndInv, Noted, JobOfRun, FinishedIsPublished, [FolderNext]_allVars,
                     NEW i \in Instance, run'[i].pc \notin {"none", "closed"},
                     srv'[i].job \in finished'
              PROVE  \E o \in overlaps' : run'[i].attempt \in o
  BY DEF FinishedIsPublished, Runs
<1>1. CASE StartRun(i)
  <2>1. srv'[i].job = srv[i].job /\ finished' = finished /\ srv[i].pc = "claimed"
    BY <1>1, StartNotes DEF StartRun, StartJob
  <2>. QED
    BY <2>1 DEF IndInv, ClaimIsLive
<1>2. CASE ~StartRun(i)
  <2>1. /\ i \in Runs /\ run[i].pc # "closed" /\ run'[i].attempt = run[i].attempt
        /\ srv'[i].job = srv[i].job
    BY <1>2, RunKept DEF Runs
  <2>2. CASE srv[i].job \in finished
    BY <2>1, <2>2, OverlapsGrow DEF FinishedIsPublished
  <2>3. CASE srv[i].job \notin finished
    <3>1. PICK k \in Runs : srv[k].job = srv[i].job /\ FinishRun(k)
      BY <2>1, <2>3, Finishes
    <3>2. run'[k].pc = "none"
      BY <3>1 DEF FinishRun, Leave, RunTypeOK, Runs, NoRun
    <3>3. k # i /\ run[k].folder = run[i].folder
      BY <2>1, <3>1, <3>2 DEF JobOfRun
    <3>4. {run[i].attempt, run[k].attempt} \in overlaps'
      BY <2>1, <3>3, OverlapsGrow DEF Noted
    <3>. QED
      BY <2>1, <3>4
  <2>. QED
    BY <2>2, <2>3
<1>. QED
  BY <1>1, <1>2

(* finishedat is written after the transaction has ended, so a finished    *)
(* job has its rows in the tables, unless it was handed out twice          *)
(* (the order of the deferred calls, processor.go:106 and 140).            *)
THEOREM FinishedIsPublishedHolds == FolderSpec => []FinishedIsPublished
<1>1. FolderInit => FinishedIsPublished
  BY DEF FolderInit, FinishedIsPublished, Runs, NoRun
<1>. QED
  BY <1>1, PublishedStep, NotedHolds, PTL DEF FolderSpec

-----------------------------------------------------------------------------
(* What a run finds, wipes and writes.                                     *)

(* A row of the folder that is not in the snapshot of a run was committed  *)
(* by a run of the folder that was in process() at the same time.          *)
SnapshotOf(i) == run[i].pc \in {"wipe", "files", "insert"} =>
    \A r \in rows : r.folder = run[i].folder =>
        r \in run[i].snap \/ {r.attempt, run[i].attempt} \in overlaps

WipeOf(i) ==
    /\ run[i].pc \in {"files", "insert"} => run[i].gone = run[i].snap
    /\ \A r \in run[i].new : r.attempt = run[i].attempt

Writes == \A i \in Runs : SnapshotOf(i) /\ WipeOf(i)

LEMMA WipeOfStep ==
  ASSUME RunTypeOK, Writes, NEW i \in Instance, OfRun(i), run'[i].pc # "none"
  PROVE  /\ WipeOf(i)'
         /\ run'[i].pc \in {"wipe", "files", "insert"} =>
               \/ rows' = rows /\ run'[i].snap = {r \in rows : r.folder = run'[i].folder}
               \/ /\ run'[i].snap = run[i].snap /\ run[i].pc \in {"wipe", "files", "insert"}
                  /\ run'[i].folder = run[i].folder /\ run'[i].attempt = run[i].attempt
<1>. USE DEF RunTypeOK
<1>1. run[i].pc # "none" => run[i] \in Run /\ WipeOf(i)
  BY DEF NoRun, Writes, Runs
<1>2. CASE LoseTxn(i)
  BY <1>1, <1>2 DEF LoseTxn, TxnEnds, Run, WipeOf
<1>3. CASE KillRun(i)
  BY <1>3 DEF KillRun, Leave, NoRun
<1>4. CASE StartRun(i)
  <2>1. run'[i].pc = "begin" /\ run'[i].new = {}
    BY <1>4 DEF StartRun
  <2>. QED
    BY <2>1 DEF WipeOf
<1>5. CASE RunStep(i)
  <2>1. CASE FinishRun(i)
    BY <2>1 DEF FinishRun, Leave, NoRun
  <2>2. CASE Begin(i)
    BY <1>1, <2>2 DEF Begin, TxnEnds, RowsOf, Run, WipeOf
  <2>3. CASE Wipe(i)
    BY <1>1, <2>3 DEF Wipe, WipedRows, TxnEnds, Run, WipeOf
  <2>4. CASE Open(i)
    BY <1>1, <2>4 DEF Open, Run, WipeOf
  <2>5. CASE AddSpreadsheet(i)
    <3>1. \A r \in Inserted(i) : r.attempt = run[i].attempt
      BY DEF Inserted
    <3>. QED
      BY <1>1, <2>5, <3>1 DEF AddSpreadsheet, InsertFails, Run, WipeOf
  <2>6. CASE InsertCancelled(i)
    BY <1>1, <2>6 DEF InsertCancelled, InsertFails, Run, WipeOf
  <2>7. CASE CloseTxn(i)
    BY <1>1, <2>7 DEF CloseTxn, TxnEnds, Run, WipeOf
  <2>. QED
    BY <1>5, <2>1, <2>2, <2>3, <2>4, <2>5, <2>6, <2>7 DEF RunStep
<1>. QED
  BY <1>2, <1>3, <1>4, <1>5 DEF OfRun

(* Rows come by the commit of a run.                                       *)
LEMMA RowsCome ==
  ASSUME RunTypeOK, [FolderNext]_allVars, NEW r \in rows', r \notin rows
  PROVE  \E k \in Runs : CloseTxn(k) /\ r \in run[k].new
<1>1. ASSUME NEW k \in Instance, CloseTxn(k) PROVE k \in Runs /\ r \in run[k].new
  BY <1>1 DEF CloseTxn, Runs
<1>2. ASSUME NEW f \in Folder, DeleteEnd(f) PROVE FALSE
  BY <1>2 DEF DeleteEnd
<1>. QED
  BY <1>1, <1>2 DEF FolderNext, allVars, runVars, DeleteBegin, DeleteFails,
     RequestStep, PollStep, StartRun, RunStep, LoseTxn, KillRun, Begin, Wipe, Open,
     AddSpreadsheet, InsertCancelled, FinishRun

LEMMA CloseCloses ==
  ASSUME RunTypeOK, NEW i \in Instance, CloseTxn(i)
  PROVE  run'[i].pc = "closed"
<1>1. run[i] \in Run
  BY DEF CloseTxn, RunTypeOK, NoRun
<1>. QED
  BY <1>1 DEF CloseTxn, TxnEnds, RunTypeOK, Run

LEMMA WhoseStep ==
  ASSUME RunTypeOK, [FolderNext]_allVars, NEW i \in Instance
  PROVE  OfRun(i) \/ run'[i] = run[i]
<1>1. ASSUME NEW k \in Instance \ {i}, OfRun(k) PROVE run'[i] = run[i]
  BY <1>1, OwnRunOnly DEF OfRun
<1>2. FolderNext => \/ \E k \in Instance : OfRun(k)
                    \/ UNCHANGED run
  BY DEF FolderNext, OfRun, RequestStep, PollStep, DeleteBegin, DeleteEnd, DeleteFails, runVars
<1>. QED
  BY <1>1, <1>2 DEF allVars, runVars

LEMMA WritesStep ==
  RunTypeOK /\ InsertsPinFolder /\ Noted /\ Writes /\ [FolderNext]_allVars => Writes'
<1>. SUFFICES ASSUME RunTypeOK, InsertsPinFolder, Noted, Writes, [FolderNext]_allVars,
                     NEW i \in Instance, run'[i].pc # "none"
              PROVE  SnapshotOf(i)' /\ WipeOf(i)'
  BY DEF Writes, Runs
<1>1. WipeOf(i)'
  <2>1. CASE OfRun(i)
    BY <2>1, WipeOfStep
  <2>2. CASE run'[i] = run[i]
    BY <2>2 DEF Writes, Runs, WipeOf
  <2>. QED
    BY <2>1, <2>2, WhoseStep
<1>2. ASSUME run'[i].pc \in {"wipe", "files", "insert"}, NEW r \in rows', r.folder = run'[i].folder
      PROVE  r \in run'[i].snap \/ {r.attempt, run'[i].attempt} \in overlaps'
  <2>1. CASE rows' = rows /\ run'[i].snap = {x \in rows : x.folder = run'[i].folder}
    BY <1>2, <2>1
  <2>2. CASE /\ run'[i].snap = run[i].snap /\ run[i].pc \in {"wipe", "files", "insert"}
             /\ run'[i].folder = run[i].folder /\ run'[i].attempt = run[i].attempt
    <3>1. i \in Runs /\ SnapshotOf(i)
      BY <2>2 DEF Writes, Runs
    <3>2. CASE r \in rows
      BY <1>2, <2>2, <3>1, <3>2, OverlapsGrow DEF SnapshotOf
    <3>3. CASE r \notin rows
      <4>1. PICK k \in Runs : CloseTxn(k) /\ r \in run[k].new
        BY <3>3, RowsCome
      <4>2. run'[k].pc = "closed"
        BY <4>1, CloseCloses DEF Runs
      <4>3. k # i /\ r.folder = run[k].folder /\ r.attempt = run[k].attempt
        BY <1>2, <4>1, <4>2 DEF InsertsPinFolder, Writes, WipeOf
      <4>. QED
        BY <1>2, <2>2, <3>1, <4>3, OverlapsGrow DEF Noted
    <3>. QED
      BY <3>2, <3>3
  <2>. QED
    BY <1>2, <2>1, <2>2, WhoseStep, WipeOfStep
<1>. QED
  BY <1>1, <1>2 DEF SnapshotOf

LEMMA OneRunStep ==
  /\ RunTypeOK /\ InsertsPinFolder /\ Writes /\ OneRunPerFolder /\ [FolderNext]_allVars
  => OneRunPerFolder'
<1>. SUFFICES ASSUME RunTypeOK, InsertsPinFolder, Writes, OneRunPerFolder, [FolderNext]_allVars,
                     NEW r \in rows', NEW s \in rows', r.folder = s.folder, r.attempt # s.attempt
              PROVE  {r.attempt, s.attempt} \in overlaps'
  BY DEF OneRunPerFolder
<1>1. CASE r \in rows /\ s \in rows
  BY <1>1, OverlapsGrow DEF OneRunPerFolder
<1>2. ASSUME NEW x \in rows', NEW y \in rows', x.folder = y.folder, x.attempt # y.attempt, x \notin rows
      PROVE  {y.attempt, x.attempt} \in overlaps'
  <2>1. PICK k \in Runs : CloseTxn(k) /\ x \in run[k].new
    BY <1>2, RowsCome
  <2>2. run[k].pc = "files" /\ rows' = (rows \ run[k].gone) \cup run[k].new
    BY <2>1 DEF CloseTxn
  <2>3. /\ \A z \in run[k].new : z.attempt = run[k].attempt /\ z.folder = run[k].folder
        /\ run[k].gone = run[k].snap /\ SnapshotOf(k)
    BY <2>1, <2>2 DEF Writes, WipeOf, InsertsPinFolder
  <2>4. y \in rows /\ y \notin run[k].snap
    BY <1>2, <2>1, <2>2, <2>3
  <2>. QED
    BY <1>2, <2>1, <2>2, <2>3, <2>4, OverlapsGrow DEF SnapshotOf
<1>3. {r.attempt, s.attempt} = {s.attempt, r.attempt}
  OBVIOUS
<1>4. CASE r \notin rows
  BY <1>2, <1>3, <1>4
<1>5. CASE s \notin rows
  BY <1>2, <1>5
<1>. QED
  BY <1>1, <1>4, <1>5

(* What is committed for a folder comes from one run, however many runs    *)
(* were killed or lost their connection before, unless two of them were in *)
(* process() at once (processor.go:164-172, a wipe in the snapshot that    *)
(* the run then commits against).                                          *)
THEOREM OneRunPerFolderHolds == FolderSpec => []OneRunPerFolder
<1>1. FolderInit => Writes /\ OneRunPerFolder
  BY DEF FolderInit, Writes, OneRunPerFolder, Runs, NoRun
<1>2. FolderSpec => []Writes
  BY <1>1, WritesStep, RowsHaveFolderHolds, NotedHolds, PTL DEF FolderSpec
<1>. QED
  BY <1>1, <1>2, OneRunStep, RowsHaveFolderHolds, NotedHolds, PTL DEF FolderSpec

-----------------------------------------------------------------------------
(* Runs and deletes that wait for one another.  CanStep is the guard of    *)
(* RunStep: what is left out is a run between two files, which opens the   *)
(* next one or closes, and a run that has closed.                          *)
CanStep(i) ==
    \/ run[i].pc \in {"begin", "files", "closed"}
    \/ run[i].pc = "wipe" /\ \A k \in Runs \ {i} : run[k].gone \cap WipedRows(i) = {}
    \/ run[i].pc = "insert" /\ KeyHolders(i) = {} /\ ~FolderLocked(i)
    \/ run[i].pc = "insert" /\ Deadlocked(i)

WaitsFor(i, k) ==
    \/ run[i].pc = "wipe" /\ k # i /\ run[k].gone \cap WipedRows(i) # {}
    \/ BlockedBy(i, k)

(* The guard of DeleteEnd(f), but for rows a fetch has locked.             *)
ClaimsIn(f) == {k \in Instance : srv[k].pc = "claimed" /\ \E r \in jobs : r.folder = f /\ r.id = srv[k].job}
CanEnd(f) ==
    /\ f \in folders \cap deleting
    /\ Wipers(f) = {}
    /\ \A c \in Client : ~(req[c].pc = "inserted" /\ req[c].folder = f)
    /\ \A r \in jobs : r.folder = f => r.id \notin RowLocked

(* Runs never wait for one another for ever.  In any group of runs there   *)
(* is one that can take its next step, or waits for a run outside of the   *)
(* group, or for the delete of its folder, and then the delete can end, or *)
(* a fetch has a job of the folder locked, which it keeps for one          *)
(* statement.                                                              *)
NoGridlock ==
    \A group \in (SUBSET Runs) \ {{}} :
        \E i \in group :
            \/ CanStep(i)
            \/ \E k \in Runs \ group : WaitsFor(i, k)
            \/ FolderLocked(i) /\ (CanEnd(run[i].folder) \/ ClaimsIn(run[i].folder) # {})

(* What a run has locked, by where it is, and which requests a delete that *)
(* has begun need not wait for.                                            *)
LocksByPlace ==
    /\ \A i \in Runs : run[i].gone \cup run[i].new # {} => run[i].pc \in {"files", "insert"}
    /\ \A c \in Client : req[c].pc = "inserted" => req[c].folder \notin deleting

LEMMA LocksStep == RunTypeOK /\ LocksByPlace /\ [FolderNext]_allVars => LocksByPlace'
<1>. SUFFICES ASSUME RunTypeOK, LocksByPlace, [FolderNext]_allVars PROVE LocksByPlace'
  OBVIOUS
<1>. USE DEF RunTypeOK
<1>1. ASSUME NEW i \in Instance, run'[i].pc # "none", run'[i].gone \cup run'[i].new # {}
      PROVE  run'[i].pc \in {"files", "insert"}
  <2>1. run[i].pc # "none" =>
          /\ run[i] \in Run
          /\ run[i].gone \cup run[i].new # {} => run[i].pc \in {"files", "insert"}
    BY DEF NoRun, LocksByPlace, Runs
  <2>2. CASE OfRun(i)
    <3>1. CASE StartRun(i)
      BY <1>1, <3>1 DEF StartRun
    <3>2. CASE LoseTxn(i)
      BY <1>1, <2>1, <3>2 DEF LoseTxn, TxnEnds, Run
    <3>3. CASE KillRun(i)
      BY <1>1, <3>3 DEF KillRun, Leave, NoRun
    <3>4. CASE RunStep(i)
      <4>1. CASE FinishRun(i)
        BY <1>1, <4>1 DEF FinishRun, Leave, NoRun
      <4>2. CASE Begin(i) \/ CloseTxn(i)
        BY <1>1, <2>1, <4>2 DEF Begin, CloseTxn, TxnEnds, Run
      <4>3. CASE Wipe(i)
        BY <1>1, <2>1, <4>3 DEF Wipe, TxnEnds, Run
      <4>4. CASE Open(i)
        BY <1>1, <2>1, <4>4 DEF Open, Run
      <4>5. CASE AddSpreadsheet(i) \/ InsertCancelled(i)
        BY <1>1, <2>1, <4>5 DEF AddSpreadsheet, InsertCancelled, InsertFails, Run
      <4>. QED
        BY <3>4, <4>1, <4>2, <4>3, <4>4, <4>5 DEF RunStep
    <3>. QED
      BY <2>2, <3>1, <3>2, <3>3, <3>4 DEF OfRun
  <2>3. CASE run'[i] = run[i]
    BY <1>1, <2>1, <2>3
  <2>4. OfRun(i) \/ run'[i] = run[i]
    BY OwnRecord
  <2>. QED
    BY <2>2, <2>3, <2>4
<1>2. ASSUME NEW c \in Client, req'[c].pc = "inserted", req'[c].folder \in deleting' PROVE FALSE
  <2>1. ASSUME req'[c] = req[c], deleting' \subseteq deleting PROVE FALSE
    BY <1>2, <2>1 DEF LocksByPlace
  <2>2. ASSUME NEW f \in Folder, DeleteBegin(f) PROVE FALSE
    <3>1. req' = req
      BY <2>2 DEF DeleteBegin, vars
    <3>. QED
      BY <1>2, <2>2, <3>1 DEF DeleteBegin, LocksByPlace
  <2>3. ASSUME NEW f \in Folder,
               (AddFolder(f) /\ UNCHANGED runVars) \/ DeleteEnd(f) \/ DeleteFails(f)
        PROVE  req' = req /\ deleting' \subseteq deleting
    BY <2>3 DEF AddFolder, DeleteEnd, DeleteFolder, DeleteFails, vars, runVars
  <2>4. ASSUME NEW d \in Client, RequestStep(d) PROVE FALSE
    <3>1. deleting' = deleting
      BY <2>4 DEF RequestStep, runVars
    <3>2. CASE d # c
      <4>1. req'[c] = req[c]
        BY <2>4, <3>2 DEF RequestStep, QueueBegin, QueueCheck, QueueInsert, QueueCommit,
                          QueueAbort, TypeOK
      <4>. QED
        BY <2>1, <3>1, <4>1
    <3>3. CASE d = c
      <4>1. req[c].folder \notin deleting /\ QueueInsert(c)
        BY <1>2, <2>4, <3>3 DEF RequestStep, QueueBegin, QueueCheck, QueueCommit, QueueAbort,
                                NoRequest, TypeOK, Request
      <4>2. req'[c].folder = req[c].folder
        BY <1>2, <4>1 DEF QueueInsert, NoRequest, TypeOK, Request
      <4>. QED
        BY <1>2, <3>1, <4>1, <4>2
    <3>. QED
      BY <3>2, <3>3
  <2>5. ASSUME NEW k \in Instance,
               PollStep(k) \/ StartRun(k) \/ RunStep(k) \/ LoseTxn(k) \/ KillRun(k)
        PROVE  req' = req /\ deleting' = deleting
    BY <2>5 DEF PollStep, Loop, Fetch, FetchError, Wait, Exit, Signal, Boot, StartRun, StartJob,
                RunStep, Begin, Wipe, Open, AddSpreadsheet, InsertCancelled, CloseTxn, FinishRun,
                Finish, FinishError, LoseTxn, KillRun, Crash, vars, runVars
  <2>6. UNCHANGED allVars => req' = req /\ deleting' = deleting
    BY DEF allVars, vars, runVars
  <2>. QED
    BY <2>1, <2>2, <2>3, <2>4, <2>5, <2>6 DEF FolderNext
<1>. QED
  BY <1>1, <1>2 DEF LocksByPlace, Runs

LEMMA LocksHold == FolderSpec => [](RunTypeOK /\ LocksByPlace)
<1>1. FolderInit => LocksByPlace
  BY DEF FolderInit, Init, LocksByPlace, Runs, NoRun, NoRequest
<1>. QED
  BY <1>1, LocksStep, RunTypeCorrect, PTL DEF FolderSpec

(* Who holds a lock and cannot step is in the middle of an insert.         *)
LEMMA StuckHolder ==
  ASSUME LocksByPlace, NEW k \in Runs, ~CanStep(k), run[k].gone \cup run[k].new # {}
  PROVE  run[k].pc = "insert"
BY DEF LocksByPlace, CanStep

(* A delete that waits for no run waits for nothing but a fetch.           *)
LEMMA DeleteWaits ==
  ASSUME RunTypeOK, LocksByPlace, NEW f \in deleting, Wipers(f) = {}
  PROVE  CanEnd(f) \/ ClaimsIn(f) # {}
<1>1. f \in folders \cap deleting
  BY DEF RunTypeOK
<1>2. \A c \in Client : ~(req[c].pc = "inserted" /\ req[c].folder = f)
  BY DEF LocksByPlace
<1>3. ASSUME NEW r \in jobs, r.folder = f, r.id \in RowLocked PROVE ClaimsIn(f) # {}
  <2>1. PICK k \in Instance : r.id \in ClaimedBy(k)
    BY <1>3 DEF RowLocked
  <2>2. k \in ClaimsIn(f)
    BY <1>3, <2>1 DEF ClaimsIn, ClaimedBy
  <2>. QED
    BY <2>2
<1>. QED
  BY <1>1, <1>2, <1>3 DEF CanEnd

(* The argument: a run that wipes holds nothing, so whoever it waits for   *)
(* has wiped and is inserting; and the runs of a group that are inserting  *)
(* and wait for one another are the circle the deadlock detector breaks.   *)
LEMMA Gridlock == RunTypeOK /\ LocksByPlace => NoGridlock
<1>. SUFFICES ASSUME RunTypeOK, LocksByPlace, NEW group \in (SUBSET Runs) \ {{}},
                     ~ \E i \in group :
                         \/ CanStep(i)
                         \/ \E k \in Runs \ group : WaitsFor(i, k)
                         \/ FolderLocked(i) /\ (CanEnd(run[i].folder) \/ ClaimsIn(run[i].folder) # {})
              PROVE  FALSE
  BY Zenon DEF NoGridlock
<1>. DEFINE circle == {i \in group : run[i].pc = "insert"}
<1>1. ASSUME NEW i \in circle PROVE \E k \in circle : BlockedBy(i, k)
  <2>1. ASSUME NEW k \in Runs, BlockedBy(i, k), run[k].gone \cup run[k].new # {}
        PROVE  k \in circle
    <3>1. k \in group
      BY <2>1 DEF WaitsFor
    <3>. QED
      BY <3>1, <2>1, StuckHolder
  <2>2. CASE KeyHolders(i) # {}
    <3>1. PICK k \in KeyHolders(i) : TRUE
      BY <2>2
    <3>2. k \in Runs /\ run[k].gone \cup run[k].new # {}
      BY <3>1 DEF KeyHolders
    <3>3. BlockedBy(i, k)
      BY <3>1 DEF BlockedBy
    <3>. QED
      BY <2>1, <3>2, <3>3
  <2>3. CASE FolderLocked(i)
    <3>1. Wipers(run[i].folder) # {}
      BY <2>3, DeleteWaits DEF FolderLocked
    <3>2. PICK k \in Wipers(run[i].folder) : TRUE
      BY <3>1
    <3>3. k \in Runs /\ run[k].gone \cup run[k].new # {}
      BY <3>2 DEF Wipers
    <3>4. BlockedBy(i, k)
      BY <2>3, <3>2 DEF BlockedBy
    <3>. QED
      BY <2>1, <3>3, <3>4
  <2>. QED
    BY <2>2, <2>3 DEF CanStep
<1>2. circle \in SUBSET Runs
  OBVIOUS
<1>3. \A i \in circle : Deadlocked(i)
  BY <1>1, <1>2 DEF Deadlocked
<1>4. circle = {}
  BY <1>3 DEF CanStep
<1>5. PICK i \in group : TRUE
  <2>1. group # {}
    OBVIOUS
  <2>. QED
    BY <2>1
<1>6. run[i].pc = "wipe"
  <2>1. run[i] \in Run
    BY DEF RunTypeOK, Runs, NoRun
  <2>. QED
    BY <1>4, <2>1 DEF CanStep, Run
<1>7. PICK k \in Runs \ {i} : run[k].gone \cap WipedRows(i) # {}
  BY <1>6 DEF CanStep
<1>8. k \in group
  BY <1>6, <1>7 DEF WaitsFor
<1>9. run[k].pc = "insert"
  BY <1>7, <1>8, StuckHolder
<1>. QED
  BY <1>4, <1>8, <1>9

(* No group of runs and deletes waits only for itself, for any folders,    *)
(* files, instances and numbers of runs.                                   *)
THEOREM NoGridlockHolds == FolderSpec => []NoGridlock
  BY LocksHold, Gridlock, PTL

-----------------------------------------------------------------------------
(* What is left of a run: two steps for each file it has not opened, and   *)
(* its begin, its wipe, its close and its end.                             *)
Remaining(r) ==
    CASE r.pc = "begin"  -> 2 * Cardinality(File) + 4
      [] r.pc = "wipe"   -> 2 * Cardinality(File) + 3
      [] r.pc = "insert" -> 2 * Cardinality(r.left) + 3
      [] r.pc = "files"  -> 2 * Cardinality(r.left) + 2
      [] r.pc = "closed" -> 1
      [] r.pc = "none"   -> 0

(* A run is over after at most 2 * Cardinality(File) + 4 steps of its own: *)
(* each one leaves less of it, a file whose insert fails or is cancelled   *)
(* included, and no step of anyone else, or loss of its connection, gives  *)
(* it more to do.                                                          *)
RunAdvances ==
    \A i \in Runs :
        /\ Remaining(run'[i]) <= Remaining(run[i])
        /\ RunStep(i) => Remaining(run'[i]) < Remaining(run[i])

LEMMA RemainingType ==
  ASSUME IsFiniteSet(File), NEW r \in Run \cup {NoRun}
  PROVE  /\ Cardinality(File) \in Nat
         /\ r \in Run => /\ IsFiniteSet(r.left) /\ Cardinality(r.left) \in Nat
                        /\ Cardinality(r.left) <= Cardinality(File)
         /\ Remaining(r) \in 0..(2 * Cardinality(File) + 4)
<1>1. Cardinality(File) \in Nat
  BY FS_CardinalityType
<1>2. ASSUME r \in Run
      PROVE  /\ IsFiniteSet(r.left) /\ Cardinality(r.left) \in Nat
             /\ Cardinality(r.left) <= Cardinality(File)
  <2>1. r.left \subseteq File
    BY <1>2 DEF Run
  <2>. QED
    BY <2>1, FS_Subset, FS_CardinalityType
<1>3. CASE r \in Run
  <2>1. r.pc \in {"begin", "wipe", "files", "insert", "closed"}
    BY <1>3 DEF Run
  <2>. QED
    BY <1>1, <1>2, <1>3, <2>1 DEF Remaining
<1>4. CASE r = NoRun
  BY <1>1, <1>2, <1>4 DEF Remaining, NoRun
<1>. QED
  BY <1>3, <1>4

LEMMA LessLeft ==
  ASSUME IsFiniteSet(File), RunTypeOK, NEW i \in Runs, RunStep(i) \/ LoseTxn(i) \/ KillRun(i)
  PROVE  Remaining(run'[i]) < Remaining(run[i])
<1>1. i \in Instance /\ run[i] \in Run /\ run \in [Instance -> Run \cup {NoRun}]
  BY DEF Runs, RunTypeOK, NoRun
<1>2. /\ Cardinality(File) \in Nat
      /\ IsFiniteSet(run[i].left) /\ Cardinality(run[i].left) \in Nat
      /\ Cardinality(run[i].left) <= Cardinality(File)
      /\ Remaining(run[i]) \in Nat
  BY <1>1, RemainingType
<1>3. ASSUME run'[i].pc = "closed", run[i].pc \in {"begin", "wipe", "files", "insert"}
      PROVE  Remaining(run'[i]) < Remaining(run[i])
  BY <1>2, <1>3 DEF Remaining
<1>4. CASE LoseTxn(i)
  <2>1. run'[i].pc = "closed" /\ run[i].pc \in {"wipe", "files", "insert"}
    BY <1>1, <1>4 DEF LoseTxn, TxnEnds, Run
  <2>. QED
    BY <1>3, <2>1
<1>5. CASE KillRun(i) \/ FinishRun(i)
  <2>1. run'[i].pc = "none"
    BY <1>1, <1>5 DEF KillRun, FinishRun, Leave, NoRun
  <2>2. run[i].pc \in {"begin", "wipe", "files", "insert", "closed"}
    BY <1>1 DEF Run
  <2>. QED
    BY <1>2, <2>1, <2>2 DEF Remaining
<1>6. CASE Begin(i)
  <2>1. run[i].pc = "begin" /\ run'[i].pc \in {"wipe", "closed"}
    BY <1>1, <1>6 DEF Begin, TxnEnds, Run
  <2>. QED
    BY <1>2, <2>1 DEF Remaining
<1>7. CASE Wipe(i)
  <2>1. /\ run[i].pc = "wipe"
        /\ run'[i].pc = "closed" \/ (run'[i].pc = "files" /\ run'[i].left = run[i].left)
    BY <1>1, <1>7 DEF Wipe, TxnEnds, Run
  <2>. QED
    BY <1>2, <2>1 DEF Remaining
<1>8. CASE Open(i)
  <2>1. PICK x \in run[i].left :
          /\ run[i].pc = "files"
          /\ run'[i].pc \in {"files", "insert"} /\ run'[i].left = run[i].left \ {x}
    BY <1>1, <1>8 DEF Open, Run
  <2>2. Cardinality(run[i].left \ {x}) = Cardinality(run[i].left) - 1
    BY <1>2, FS_RemoveElement
  <2>. QED
    BY <1>2, <2>1, <2>2 DEF Remaining
<1>9. CASE AddSpreadsheet(i) \/ InsertCancelled(i)
  <2>1. run[i].pc = "insert" /\ run'[i].pc = "files" /\ run'[i].left = run[i].left
    BY <1>1, <1>9 DEF AddSpreadsheet, InsertCancelled, InsertFails, LeftAfterFailure, Run
  <2>. QED
    BY <1>2, <2>1 DEF Remaining
<1>10. CASE CloseTxn(i)
  <2>1. run'[i].pc = "closed" /\ run[i].pc = "files"
    BY <1>1, <1>10 DEF CloseTxn, TxnEnds, Run
  <2>. QED
    BY <1>3, <2>1
<1>. QED
  BY <1>4, <1>5, <1>6, <1>7, <1>8, <1>9, <1>10 DEF RunStep

(* The safety half of RunEnds: with NoGridlock, a run that keeps getting   *)
(* its turn ends, whatever the number of files.                            *)
THEOREM RunAdvancesHolds ==
  ASSUME IsFiniteSet(File) PROVE FolderSpec => [][RunAdvances]_allVars
<1>1. RunTypeOK /\ [FolderNext]_allVars => [RunAdvances]_allVars
  <2>. SUFFICES ASSUME RunTypeOK, [FolderNext]_allVars, NEW i \in Runs
                PROVE  /\ Remaining(run'[i]) <= Remaining(run[i])
                       /\ RunStep(i) => Remaining(run'[i]) < Remaining(run[i])
    BY DEF RunAdvances
  <2>1. i \in Instance /\ run[i] \in Run /\ run'[i] \in Run \cup {NoRun}
    BY RunTypeStep DEF Runs, RunTypeOK, NoRun
  <2>2. Remaining(run[i]) \in Nat /\ Remaining(run'[i]) \in Nat
    BY <2>1, RemainingType
  <2>3. RunStep(i) \/ LoseTxn(i) \/ KillRun(i) => Remaining(run'[i]) < Remaining(run[i])
    BY LessLeft
  <2>4. ~StartRun(i)
    BY DEF StartRun, StartJob, Runs, RunTypeOK
  <2>5. RunStep(i) \/ LoseTxn(i) \/ KillRun(i) \/ run'[i] = run[i]
    BY <2>1, <2>4, OwnRecord DEF OfRun
  <2>. QED
    BY <2>2, <2>3, <2>5
<1>. QED
  BY <1>1, RunTypeCorrect, PTL DEF FolderSpec
=============================================================================
