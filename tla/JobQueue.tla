------------------------------ MODULE JobQueue ------------------------------
(***************************************************************************)
(* The queue of folder-processing jobs: the rows of vsds.folders and       *)
(* vsds.folder_processing in PostgreSQL, the HTTP requests that add a      *)
(* folder, delete one or queue it for processing (pkg/db/vsds.go), and the *)
(* service processes whose Processor goroutine takes jobs from the table   *)
(* (pkg/vsds/processor.go, cmd/edst/service.go).                           *)
(*                                                                         *)
(* A queue request is a REPEATABLE READ transaction: it reads from the     *)
(* snapshot its first query takes and its insert becomes visible at        *)
(* commit.  receivedat is the start time of that transaction, so the       *)
(* ticket drawn when the transaction begins is both the job's identity     *)
(* and its place in the queue.                                             *)
(***************************************************************************)
EXTENDS Integers, FiniteSets

CONSTANTS
    Folder,      \* ids the identity column of vsds.folders may hand out
    Client,      \* HTTP requests that can be in flight at once
    Instance,    \* service processes that share the database
    MaxTickets   \* bound: queue transactions ever begun

ASSUME ClientAssumption == IsFiniteSet(Client)
ASSUME TicketAssumption == MaxTickets \in Nat

VARIABLES
    folders,     \* committed rows of vsds.folders, by id
    usedIds,     \* folder ids ever handed out: an id is never reused
    clock,       \* the last ticket drawn
    jobs,        \* committed rows of vsds.folder_processing
    started,     \* tickets of the rows with startedat set
    finished,    \* tickets of the rows with finishedat set
    req,         \* [Client -> the queue request in flight]
    srv,         \* [Instance -> where its Processor goroutine is]
    stopping     \* instances whose stopCh is closed

tableVars == <<folders, usedIds, jobs, started, finished>>
vars == <<folders, usedIds, clock, jobs, started, finished, req, srv, stopping>>

-----------------------------------------------------------------------------
Ticket == 1..MaxTickets
Job == [id : Ticket, folder : Folder]

(* "begun": BeginTx done.  "checked": folder found and no active job in    *)
(* the snapshot.  "inserted": row written, not committed.                  *)
Request == [pc : {"begun", "checked", "inserted"}, folder : Folder, ticket : Ticket]
NoRequest == [pc |-> "idle"]

(* "claimed": the fetch transaction holds FOR UPDATE on the row.  "done":  *)
(* run() has returned.  "down": no process.                                *)
Holding == [pc : {"claimed", "process"}, job : Ticket]
Unladen == [pc : {"loop", "fetch", "wait", "done", "down"}]

TypeOK ==
    /\ folders \subseteq usedIds
    /\ usedIds \subseteq Folder
    /\ clock \in 0..MaxTickets
    /\ jobs \subseteq Job
    /\ started \subseteq Ticket
    /\ finished \subseteq Ticket
    /\ req \in [Client -> Request \cup {NoRequest}]
    /\ srv \in [Instance -> Holding \cup Unladen]
    /\ stopping \subseteq Instance

JobIds == {r.id : r \in jobs}
Unfinished(f) == {r \in jobs : r.folder = f /\ r.id \notin finished}
InFlight(f) == {c \in Client : req[c].pc \in {"checked", "inserted"} /\ req[c].folder = f}
ClaimedBy(i) == IF srv[i].pc = "claimed" THEN {srv[i].job} ELSE {}
RunBy(i) == IF srv[i].pc = "process" THEN {srv[i].job} ELSE {}
HeldBy(i) == ClaimedBy(i) \cup RunBy(i)
RowLocked == UNION {ClaimedBy(i) : i \in Instance}

Init ==
    /\ folders = {} /\ usedIds = {} /\ clock = 0
    /\ jobs = {} /\ started = {} /\ finished = {}
    /\ req = [c \in Client |-> NoRequest]
    /\ srv = [i \in Instance |-> [pc |-> "loop"]]
    /\ stopping = {}

-----------------------------------------------------------------------------
(* Mutation of AddFolder: a deleted folder's id is handed out again.       *)
AddFolder_ReusingIds(f) ==
    /\ f \notin folders
    /\ folders' = folders \cup {f}
    /\ UNCHANGED <<usedIds, clock, jobs, started, finished, req, srv, stopping>>

(* AddFolder: a fresh row; a duplicate gcpid or name changes nothing.      *)
AddFolder(f) ==
    /\ f \notin usedIds
    /\ folders' = folders \cup {f}
    /\ usedIds' = usedIds \cup {f}
    /\ UNCHANGED <<clock, jobs, started, finished, req, srv, stopping>>

(* DeleteFolder: the row and, by ON DELETE CASCADE, its jobs.  It waits    *)
(* for the KEY SHARE lock an uncommitted insert holds on the folder and    *)
(* for the row lock of a fetch in progress.                                *)
DeleteFolder(f) ==
    LET kept == {r \in jobs : r.folder # f}
        keptIds == {r.id : r \in kept}
    IN  /\ f \in folders
        /\ \A c \in Client : ~ (req[c].pc = "inserted" /\ req[c].folder = f)
        /\ \A r \in jobs \ kept : r.id \notin RowLocked
        /\ folders' = folders \ {f}
        /\ jobs' = kept
        /\ started' = started \cap keptIds
        /\ finished' = finished \cap keptIds
        /\ UNCHANGED <<usedIds, clock, req, srv, stopping>>

(* QueueFolderProcessing, statement by statement. *)
QueueBegin(c, f) ==
    /\ req[c].pc = "idle"
    /\ clock < MaxTickets
    /\ clock' = clock + 1
    /\ req' = [req EXCEPT ![c] = [pc |-> "begun", folder |-> f, ticket |-> clock + 1]]
    /\ UNCHANGED <<tableVars, srv, stopping>>

(* Mutation of QueueCheck: a job in progress no longer counts as active.   *)
QueueCheck_PendingOnly(c) ==
    /\ req[c].pc = "begun"
    /\ LET f == req[c].folder
       IN  IF f \in folders /\ \A r \in Unfinished(f) : r.id \in started
           THEN req' = [req EXCEPT ![c].pc = "checked"]
           ELSE req' = [req EXCEPT ![c] = NoRequest]
    /\ UNCHANGED <<tableVars, clock, srv, stopping>>

(* getfolder takes the snapshot; checkfolderprocessing reads from it too.  *)
QueueCheck(c) ==
    /\ req[c].pc = "begun"
    /\ LET f == req[c].folder
       IN  IF f \in folders /\ Unfinished(f) = {}
           THEN req' = [req EXCEPT ![c].pc = "checked"]
           ELSE req' = [req EXCEPT ![c] = NoRequest]     \* 404 or 409
    /\ UNCHANGED <<tableVars, clock, srv, stopping>>

(* Mutation of QueueInsert: trusts the snapshot's answer on the folder.    *)
QueueInsert_NoForeignKey(c) ==
    /\ req[c].pc = "checked"
    /\ req' = [req EXCEPT ![c].pc = "inserted"]
    /\ UNCHANGED <<tableVars, clock, srv, stopping>>

(* The foreign key check reads the folder row as it is now: if a delete    *)
(* has committed since the snapshot the statement fails.                   *)
QueueInsert(c) ==
    /\ req[c].pc = "checked"
    /\ IF req[c].folder \in folders
       THEN req' = [req EXCEPT ![c].pc = "inserted"]
       ELSE req' = [req EXCEPT ![c] = NoRequest]
    /\ UNCHANGED <<tableVars, clock, srv, stopping>>

QueueCommit(c) ==
    /\ req[c].pc = "inserted"
    /\ jobs' = jobs \cup {[id |-> req[c].ticket, folder |-> req[c].folder]}
    /\ req' = [req EXCEPT ![c] = NoRequest]
    /\ UNCHANGED <<folders, usedIds, clock, started, finished, srv, stopping>>

(* A statement or the commit fails, or the serving process dies.           *)
QueueAbort(c) ==
    /\ req[c].pc # "idle"
    /\ req' = [req EXCEPT ![c] = NoRequest]
    /\ UNCHANGED <<tableVars, clock, srv, stopping>>

-----------------------------------------------------------------------------
Goto(i, pc) == srv' = [srv EXCEPT ![i] = [pc |-> pc]]

(* Mutation of Loop: stopCh is only looked at while waiting.               *)
Loop_NoStopCheck(i) ==
    /\ srv[i].pc = "loop"
    /\ Goto(i, "fetch")
    /\ UNCHANGED <<tableVars, clock, req, stopping>>

(* Top of the loop in Processor.run: leave if stopCh is closed.            *)
Loop(i) ==
    /\ srv[i].pc = "loop"
    /\ Goto(i, IF i \in stopping THEN "done" ELSE "fetch")
    /\ UNCHANGED <<tableVars, clock, req, stopping>>

(* Mutations of Pending: a plain SELECT without row locks, and one that    *)
(* takes only rows nobody has started.                                     *)
Pending_NoLock(skipped) == {r \in jobs : r.id \notin finished /\ r.id \notin skipped}

Pending_NotStarted(skipped) ==
    {r \in jobs : r.id \notin started \cup finished \cup RowLocked \cup skipped}

(* fetchpendingfolderprocessing: oldest unfinished row by receivedat, FOR  *)
(* UPDATE SKIP LOCKED.  A row whose run has recorded a sheet result is     *)
(* KEY SHARE locked by that run's transaction and skipped as well: any     *)
(* part of the rows in process may be.  Nothing to take: wait.             *)
Pending(skipped) ==
    {r \in jobs : r.id \notin finished /\ r.id \notin RowLocked /\ r.id \notin skipped}

Fetch(i) ==
    /\ srv[i].pc = "fetch"
    /\ \E skipped \in SUBSET UNION {RunBy(k) : k \in Instance} :
         \/ /\ Pending(skipped) = {}
            /\ Goto(i, "wait")
         \/ \E r \in Pending(skipped) :
              /\ \A s \in Pending(skipped) : r.id <= s.id
              /\ srv' = [srv EXCEPT ![i] = [pc |-> "claimed", job |-> r.id]]
    /\ UNCHANGED <<tableVars, clock, req, stopping>>

(* The select, the update or the commit fails: log it and wait.            *)
FetchError(i) ==
    /\ srv[i].pc \in {"fetch", "claimed"}
    /\ Goto(i, "wait")
    /\ UNCHANGED <<tableVars, clock, req, stopping>>

(* Mutation of StartJob: startedat is never written.                       *)
StartJob_Unrecorded(i) ==
    /\ srv[i].pc = "claimed"
    /\ srv' = [srv EXCEPT ![i].pc = "process"]
    /\ UNCHANGED <<tableVars, clock, req, stopping>>

(* startfolderprocessing and commit: the row lock is gone.                 *)
StartJob(i) ==
    /\ srv[i].pc = "claimed"
    /\ started' = started \cup {srv[i].job}
    /\ srv' = [srv EXCEPT ![i].pc = "process"]
    /\ UNCHANGED <<folders, usedIds, clock, jobs, finished, req, stopping>>

(* The wait between polls ends with the timer or with stopCh.              *)
Wait(i) ==
    /\ srv[i].pc = "wait"
    /\ \/ i \in stopping /\ Goto(i, "done")
       \/ Goto(i, "loop")
    /\ UNCHANGED <<tableVars, clock, req, stopping>>

(* process(job) ends with the deferred FinishFolderProcessing, and run()   *)
(* returns after it.  The update waits for a fetch that holds the row and  *)
(* finds no row if the folder has been deleted.                            *)
Finish(i) ==
    /\ srv[i].pc = "process"
    /\ srv[i].job \notin RowLocked
    /\ finished' = finished \cup ({srv[i].job} \cap JobIds)
    /\ Goto(i, "done")
    /\ UNCHANGED <<folders, usedIds, clock, jobs, started, req, stopping>>

(* The update fails: nobody looks at its error.                            *)
FinishError(i) ==
    /\ srv[i].pc = "process"
    /\ Goto(i, "done")
    /\ UNCHANGED <<tableVars, clock, req, stopping>>

(* SIGINT or SIGTERM: Processor.Stop closes stopCh, waits for doneCh, and  *)
(* the process exits.                                                      *)
Signal(i) ==
    /\ srv[i].pc # "down" /\ i \notin stopping
    /\ stopping' = stopping \cup {i}
    /\ UNCHANGED <<tableVars, clock, req, srv>>

Exit(i) ==
    /\ srv[i].pc = "done" /\ i \in stopping
    /\ Goto(i, "down")
    /\ UNCHANGED <<tableVars, clock, req, stopping>>

(* The process is killed; PostgreSQL rolls its open transaction back.      *)
Crash(i) ==
    /\ srv[i].pc # "down"
    /\ Goto(i, "down")
    /\ UNCHANGED <<tableVars, clock, req, stopping>>

Boot(i) ==
    /\ srv[i].pc = "down"
    /\ Goto(i, "loop")
    /\ stopping' = stopping \ {i}
    /\ UNCHANGED <<tableVars, clock, req>>

-----------------------------------------------------------------------------
Serve(i) ==
    \/ Loop(i) \/ Fetch(i) \/ FetchError(i) \/ StartJob(i) \/ Wait(i)
    \/ Finish(i) \/ FinishError(i) \/ Exit(i)

Operate(i) == Signal(i) \/ Crash(i) \/ Boot(i)

Queue(c) ==
    \/ \E f \in Folder : QueueBegin(c, f)
    \/ QueueCheck(c) \/ QueueInsert(c) \/ QueueCommit(c) \/ QueueAbort(c)

Next ==
    \/ \E f \in Folder : AddFolder(f) \/ DeleteFolder(f)
    \/ \E c \in Client : Queue(c)
    \/ \E i \in Instance : Serve(i) \/ Operate(i)

Spec == Init /\ [][Next]_vars

(* The goroutine is scheduled, a run ends, and the database does not fail  *)
(* every fetch or every claim.  Nobody promises requests, signals or       *)
(* boots.                                                                  *)
FairServe(i) ==
    /\ WF_vars(Serve(i))
    /\ SF_vars(Fetch(i))
    /\ SF_vars(StartJob(i))

FairSpec == Spec /\ \A i \in Instance : FairServe(i)

-----------------------------------------------------------------------------
(* Foreign key: every job row belongs to a folder that still exists, even  *)
(* when a delete commits between a queue request's check and its insert.   *)
JobsHaveFolder == \A r \in jobs : r.folder \in folders

(* QueueFolderProcessing checks and inserts in one snapshot, so concurrent *)
(* requests can each find no active job.  What still holds: a folder never *)
(* has more unfinished jobs than requests that can be in flight at once.   *)
ActiveBound == \A f \in Folder : Cardinality(Unfinished(f)) <= Cardinality(Client)

(* The inductive invariant behind the safety properties: it says why the   *)
(* properties above and below hold from one step to the next.              *)

(* A ticket names one thing for ever: one row, or one request, or the row  *)
(* a run still remembers.                                                  *)
TicketsDistinct ==
    /\ \A r \in jobs : r.id <= clock
    /\ \A r, s \in jobs : r.id = s.id => r = s
    /\ \A c \in Client : req[c].pc # "idle" =>
          /\ req[c].ticket <= clock
          /\ req[c].ticket \notin JobIds
          /\ \A d \in Client \ {c} : req[d].pc # "idle" => req[d].ticket # req[c].ticket
          /\ \A i \in Instance : req[c].ticket \notin HeldBy(i)
    /\ \A i \in Instance : \A j \in HeldBy(i) : j <= clock

(* An uncommitted insert pins its folder: the delete waits for it.         *)
InsertPinsFolder ==
    \A c \in Client : req[c].pc = "inserted" => req[c].folder \in folders

(* The requests that have passed the check and not yet committed are the   *)
(* only ones that can still add to a folder's unfinished jobs.             *)
RaceBudget ==
    /\ IsFiniteSet(jobs)
    /\ \A f \in Folder :
          Cardinality(Unfinished(f)) + Cardinality(InFlight(f)) <= Cardinality(Client)

(* The API documentation's claim for POST .../process, "returns 409 if     *)
(* already queued/in-progress": a folder has at most one unfinished job.   *)
AtMostOneActive ==
    \A f \in Folder : \A r, s \in Unfinished(f) : r = s

(* FOR UPDATE SKIP LOCKED: the job a fetch transaction holds is a row that *)
(* exists and is unfinished until that transaction ends, and no other      *)
(* instance holds it, whatever deletes and finishes run meanwhile.         *)
ClaimIsLive ==
    \A i \in Instance :
        srv[i].pc = "claimed" =>
            /\ srv[i].job \in JobIds \ finished
            /\ \A k \in Instance \ {i} : ~ (srv[k].pc = "claimed" /\ srv[k].job = srv[i].job)

(* startedat and finishedat tell the truth: a finished row was started,    *)
(* and the row of a run in process is started unless it has been deleted,  *)
(* so the folder view shows no run as still queued.                        *)
RunWasStarted ==
    /\ finished \subseteq started
    /\ \A i \in Instance :
          srv[i].pc = "process" => srv[i].job \in started \/ srv[i].job \notin JobIds

(* The parts of the inductive invariant that are about rows and runs.      *)
StampsOnRows == started \subseteq JobIds /\ finished \subseteq JobIds

IndInv ==
    /\ TypeOK /\ TicketsDistinct /\ InsertPinsFolder /\ JobsHaveFolder
    /\ StampsOnRows /\ ClaimIsLive /\ RunWasStarted

(* Processor.Stop returns: an instance told to stop goes down, whether it  *)
(* was polling, waiting, or in the middle of a job.                        *)
StopCompletes == \A i \in Instance : i \in stopping ~> srv[i].pc = "down"

(* An instance that keeps polling takes some job while an unfinished one   *)
(* that nobody holds is in the table, one left behind by a killed run      *)
(* included: it does not poll past it for ever.                            *)
Polling(i) == srv[i].pc \in {"loop", "fetch", "wait", "claimed"}

UnfinishedPickedUp ==
    \A i \in Instance, j \in Ticket :
        (Polling(i) /\ j \in JobIds \ finished)
            ~> \/ ~Polling(i)
               \/ j \notin JobIds \ finished
               \/ \E k \in Instance : j \in HeldBy(k)

(* The poll loop that waits processorInterval between looks at the table:  *)
(* a job queued while an instance is up and not told to stop is eventually *)
(* started, or its folder deleted.                                         *)
EveryJobStarted ==
    \A j \in Ticket :
        j \in JobIds \ started
            ~> \/ j \notin JobIds \ started
               \/ \A i \in Instance : srv[i].pc = "down" \/ i \in stopping
=============================================================================
