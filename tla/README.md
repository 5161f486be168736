# ED survey tools: formal models

The repository collects star-density surveys of Elite Dangerous commanders.
Surveys are spreadsheets in Google Drive folders; an administrator registers a
folder and queues it, a background goroutine reads every tab of every file,
resolves the star systems through a cache, the database and EDSM, and stores
surveys in PostgreSQL.  A browser application manages folders, projects and the
spreadsheet layouts ("variants") tabs are recognised by.

This directory holds TLA+ modules of that program, TLC configurations that check
them on small instances, and TLAPS proofs of what matters most for instances of
any size.  Line numbers refer to files under `src/`.

## 1. Inventory

| Component | State it keeps | Operations | Modelled by |
|---|---|---|---|
| Processing queue (`pkg/db/vsds.go`, `pkg/http/api/vsds/folders.go`) | `vsds.folders`, `vsds.folder_processing` | add, delete and queue a folder; fetch, start and finish a job | JobQueue, FolderRuns |
| Processor and service (`pkg/vsds/processor.go`, `cmd/edst/service.go`) | goroutine position, `stopCh`, `doneCh` | poll, process, stop; signals, crashes, restarts | JobQueue |
| Folder run (`Processor.process`) | its transaction, `surveyCache`, position in files and tabs | open, parse, look up, normalize, store, record | SheetPipeline, FolderRuns |
| Long transaction (`db.Transaction`) | work since the last checkpoint, aborted or not | checkpoint, roll back, close | LongTxn |
| System cache (`pkg/db/systemcache.go`, `pkg/edsm/systems.go`) | systems by name, for one run | `Lookup` | SheetPipeline |
| Sheet parsing (`pkg/vsds/densitysheet.go`, `pkg/vsds/types/types.go`) | none beyond one tab | `ParseSheet`, `Normalize`, `Hash` | SheetReading |
| Variants, identification (`pkg/vsds/sheetvariations.go`) | list of variants of a run | `Identify`, `Eval`, `EvalChecks` | SheetReading |
| Project catalogue (`pkg/http/api/vsds/projects.go`) | `vsds.projects`, `vsds.project_zsamples` | add project; set, add, delete zsamples | ZSampleSet, ZSamples |
| Variant CRUD (`pkg/http/api/vsds/variants.go`) | `vsds.spreadsheetvariants`, their checks | add, update, delete variants and checks | VariantDialog |
| Accounts and sessions (`pkg/db/user.go`, `pkg/http/api/auth`, `pkg/http/sessions`) | `common.cmdrs`, Redis sessions that hold a copy of a row | log in and out, grant, delete oneself | Accounts |
| Browser application (`frontend/src/app`) | the dialog being edited | save a variant in several requests | VariantDialog |
| EDSM and Google clients | none | bounded, and in one place unbounded, retries | environment's choice |
| Reports, readers, HTTP, configuration | none | queries, conversions, routing | not modelled |

**How they interact.**  HTTP handlers and processors meet only in PostgreSQL.  A
queue request inserts a job row; any service instance that polls may claim it
(`FOR UPDATE SKIP LOCKED`), and from the commit of the claim on nothing but
`startedat` tells others that it is being worked on.  The run then opens a
REPEATABLE READ transaction of its own that lives for the whole folder, wipes the
rows of the folder's earlier run and writes new ones, while deletes of the folder,
other claims and other runs go on.  Zsample requests are READ COMMITTED
transactions that meet on rows and unique keys.  Logins, grants and self-deletions
are single statements that wait for a commander's row as long as a run holds it,
and the session keeps a copy of the row that nobody refreshes.  The variant dialog
turns one Save into several requests, each a transaction of its own.  Within a run, the lookup of star
systems shares the run's transaction: its failure aborts what the tabs before it
have written unless the run rolls back to its checkpoint.

**What is hard.**

* *Interleavings of transactions.*  Check-then-insert under snapshot isolation;
  a delete between another transaction's check and insert; claims whose lock ends
  long before the work does; two replacements of one set; lock waits in a circle.
* *Failure half way.*  Any statement of a run may fail, and what must then be
  undone, kept and reported differs from step to step.  A process may be killed
  anywhere, also between the commit of the rows and the end of the job.
* *State that outlives its transaction.*  The system cache and the set of survey
  hashes are not rolled back with the rows; sessions and open dialogs hold copies
  of rows that change.
* *One action, several requests.*  A save of the dialog can fail half way, its
  answers can get lost, and requests it has given up can arrive late.
* *Ordering.*  Deferred calls, the place of `Normalize` after `Hash`, variants
  tried in order.
* *Numbers.*  Repaired distances against the constraint of `surveypoints`.

**What makes each component correct.**

* Queue: every job has a folder; a claim is exclusive and live; timestamps tell
  the truth; the number of active jobs is bounded; every job is started.
* Service: a stop always completes; unfinished jobs are picked up again.
* Run: each tab has a result or a twin that has; "ok" means resolved and stored;
  a survey counts once; others never see a mix of two runs; nothing it does
  brings back rows of a folder that is gone; it ends, and so does a delete that
  waits for it.
* Long transaction: it publishes all of its work or nothing, and a rollback undoes
  the work since the last checkpoint, no more.  (That Close keeps checkpointed work
  is documented and not so, see findings.)
* Reading: which distances can miss the constraint is known, the kept duplicate is
  the nearest, and what validation shows is what the run does.
* Catalogue: each request takes effect at one moment or not at all, and a
  replacement leaves beside its own list at most what others inserted while it ran.
* Accounts: only a first login inserts, an erased link does not come back, nobody's
  change is written over, every request is answered.
* Variants and their dialog: a save that ends well has stored what was shown and
  removed what was removed, no other check is touched, and the dialog never hangs.

`PROJECT.json` lists every hazard at its line with the properties that cover it.

## 2. Modules

### JobQueue (`MCJobQueue`, `JobQueueProofs`)

`folders`, `jobs`, `started` and `finished` are the committed rows of the two
tables and their timestamps.  A queue request is a record in `req` that moves
through begin, check, insert and commit; the check reads what is committed when
its snapshot is taken, the insert's foreign key reads the folder as it is now.
`clock` draws `receivedat` at the start of a transaction, so a ticket is both a
job's identity and its place in the queue.  `srv` is the position of an instance's
`Processor.run` goroutine; `stopping` its closed `stopCh`.  `Fetch` takes the
oldest unfinished unlocked row.  A row that a run has locked through
`sheet_processing` is skipped as well; which of the rows in process have got that
far is a choice.  `Crash` may strike in any state.  `AddFolder` never reuses an id
(an identity column), and a request may fail at any statement (`QueueAbort`).

### FolderRuns (`MCFolderRuns`, `FolderRunsProofs`)

EXTENDS JobQueue and opens up two of its steps.  A job in process has a run with
a snapshot (`snap`), rows it deleted (`gone`) and inserted (`new`); DeleteFolder
first locks the folder row and then waits for the spreadsheets a run has wiped,
while a run that inserts waits for the folder row.  A statement that waits in a
circle is cancelled.  Every step of FolderRuns is a step of JobQueue or leaves its
variables alone, which is proved, so JobQueue's theorems hold of it too.  A file
is a single row here; what happens inside it is SheetPipeline.

### LongTxn and SheetPipeline (`MCSheetPipeline`, `SheetPipelineProofs`)

LongTxn is the abstract specification of `db.Transaction`: `committed`, `work`,
`saved` and `status`, with no word about rows.  SheetPipeline is one run of
`process()`, one action per statement or remote call, in the order of the code;
`pc` names the next one.  The contents of a tab are chosen when its row is
inserted, what EDSM knows is chosen at the start and stays, and any statement or
request may fail, the SAVEPOINT behind a method (`CheckpointFails`: the method
returns and rolls nothing back) and the two bare ones of process() included.  The
one exception is ROLLBACK TO SAVEPOINT, which fails only with the connection: that
is `Lose`.  `faults` counts failures and `unsaved` those of a SAVEPOINT.  A system
is refused, without a fault, when another edsmid has its name (`NameTaken`:
`common.systems.name` is unique and `setsystem` covers `edsmid` only); that a sheet
row is refused, because a tab's name is too long for instance, counts as a fault.
`cache` and `seen` are kept across rollbacks as in the code.  The property
TransactionKept says the run implements LongTxn, which in turn is less than the
comments of `db.Transaction` promise, and says where.

### SheetReading (`MCSheetReading`, `SheetReadingProofs`)

One tab, from its cells to the survey the database accepts or refuses: variants
tried in turn, rows read until the first without a z sample, systems located or
not, duplicates dropped, constraints checked.  A cell is an opaque value and
`Atoi` and `ParseFloat` are tables, so that the theorems hold whatever the two
functions return.  Distances count thousandths of a light year or are `NaN`, which
`strconv.ParseFloat` accepts, no repair touches and the constraint refuses.  A
lookup may return fewer systems than were asked for, none at all with an error
being the only case in which the tab is given up for it; `GiveUp` stands for the
other failures between the lookup and the survey (a savepoint, the project, the
commander).  `Hashed` is
what `Survey.Hash` may write of a list of points, given the order of names: the
sort is not stable, so a list with duplicates has several results.  No action uses
it (in SheetPipeline a survey is its own hash); a theorem is about it.

### ZSampleSet and ZSamples (`MCZSamples`, `ZSamplesProofs`)

ZSampleSet states what the endpoints do: a set per project, and requests that
change it in one step.  ZSamples has the statements: READ COMMITTED visibility, a
DELETE that waits row by row and finds a row gone after the wait, an INSERT that
waits for the key of an uncommitted row, deadlock victims, lost connections, and
commits whose confirmation is lost.  RequestsAtomic maps the committed rows to the
abstract set.  This is not serializability, and in two places less than one would
expect.  A replacement may leave in place what others inserted since it was called:
two replacements that overlap can leave the union of both lists, where projects.go:84-88
documents "the complete set of zsamples, overriding the previous defaults".  And a
delete may answer 404 for a value that a replacement put back while it waited.  The
first is listed as a finding.

### Accounts (`MCAccounts`, `AccountsProofs`)

`cmdrs` holds the committed rows of `common.cmdrs` by name, `session` what a
browser's session holds, `req` the request the server works on, with one action
per statement: the lookups and the insert of `logincmdr`, the save of the session,
the UPDATE of a self-deletion, check and UPDATE of a grant.  `run[r].held` are the
rows a folder run has upserted, `changed` the rows others have committed since its
snapshot: `UpsertCmdr` waits for a row another run holds, fails on one that has
changed, and is cancelled in a circle.  A row that a run has inserted is not in
`cmdrs` before `CloseRun`, and a login that inserts the same name waits for it.
`NameOf` and `IdOf` are any functions from people to names and to customer ids: the
callback gives everybody who comes from Frontier one placeholder name (callback.go:71)
and the users of the testing provider a 32-bit checksum for an id
(callback.go:78-82), so people may share either, and a login may get another
person's commander.  No property says otherwise.  `Init` is any quiet state:
imported rows, linked rows, also of people who do not come back, sessions that are
still there.  The environment ends
a request anywhere (`RequestDies`) and a run anywhere (`LoseRun`).

### VariantDialog (`MCVariantDialog`, `VariantDialogProofs`)

`variants` and `checks` are the rows of the two tables; the server's part has one
action per request (`AddVariant` ... `DeleteVariantCheck`), with its success or
refusal as a parameter.  `dialog[a]` is what an administrator's page shows, with
the ids the dialog was opened on; `live` are the requests whose answers it waits
for, `aborted` those that `forkJoin` has given up and the server may still carry
out.  `SaveDialog`, `VariantSaved`, `CheckSaved` and `Error` are the callbacks of
`saveDialog` and `doCheckOps`.  `Fails` is a request that was refused, was not
carried out, or was carried out with its answer lost.  `save`, `sent`, `dismissed`
and `gone` are history, for the properties.

### How they compose

    JobQueue  <--EXTENDS--  FolderRuns          process() as a transaction with locks
    LongTxn   <--refined--  SheetPipeline       process() as a sequence of steps
    ZSampleSet <-refined--  ZSamples
    SheetReading                                 what SheetPipeline's ParseSheet,
                                                 Normalize and "bad" points stand for
    Accounts                                     what UpsertCmdr of FolderRuns' and
                                                 SheetPipeline's runs does to logins
    VariantDialog                                where SheetReading's lists of variants
                                                 come from

## 3. Runs

| Run | What is checked | Instance |
|---|---|---|
| `job_queue` | TypeOK, JobsHaveFolder, ActiveBound, ClaimIsLive, RunWasStarted, StopCompletes, UnfinishedPickedUp | 1 folder, 2 requests, 2 fair instances, 3 tickets, no symmetry |
| `folder_runs` | RunTypeOK, RowsHaveFolder, OneRunPerFolder, FinishedIsPublished, RunEnds, DeleteAnswered | 1 folder of 2 files, 2 instances, 1 job, 2 runs, no symmetry |
| `sheet_pipeline` | TypeOK, TabsStartClean, EveryTabAccounted, OkMeansResolved, NoDoubleCount, CommittedWhole, DroppedIsRenamed, TransactionKept | 2 names, 2 EDSM ids, 4 surveys, 2 files, 3 tabs, 1 failure |
| `sheet_reading` | TypeOK, DistancesFit, NearestKept, ValidationAgrees | tabs of up to 3 of 11 rows, under 1 or 2 header rows, 2 lists of variants, 2 positions |
| `zsamples` | TypeOK, AnswersTruthful, RequestsAtomic | 3 requests, 2 projects (one yet to be added), 2 values, 1 lost connection |
| `accounts` | TypeOK, OnlyNewInserts, ErasureIsFinal, NoLostUpdate, RequestsAnswered | 2 people with one customer id, a second id of somebody who shares a name with one of them, 2 names (an owner's, an admin's), 2 browsers, 2 requests, 2 runs with the same two commanders in opposite orders |
| `variant_dialog` | TypeOK, BusyAwaitsAnswer, RemovedOnPurpose, SaveReconciles | 2 administrators, 2 cells, 2 variants, 3 checks, 2 saves; administrators and cells symmetric |
| `job_served` | EveryJobStarted is violated | 1 instance nobody stops, 2 tickets |
| `queue_race` | AtMostOneActive is violated | 2 requests for 1 folder |
| `pipeline_close` | CheckpointsPublished is violated | as `sheet_pipeline` |
| `pipeline_stale` | SystemsAreRows is violated | as `sheet_pipeline` |
| `accounts_erased` | ErasedStayOut is violated | as `accounts` |

**Why these bounds are enough.**

* *Queue.*  A write skew needs two requests; an exclusive claim two instances; a
  stale claim a delete and a new job of a folder added again; the third ticket lets
  a request meet one finished and one running job.  One folder is enough, because
  jobs of different folders meet nowhere but in the choice of the oldest; the
  theorems are about any number.  ActiveBound is reached (two
  active jobs) with two requests, and proved for any number.
* *Folder runs.*  One run that overlaps another or follows it, with a file wiped
  and another written, is what separates OneRunPerFolder from its mutant; the
  circle of a delete and a run occurs.  Circles of two runs on the unique keys
  need a third run and are not reached.
* *Pipeline.*  Two tabs are needed for everything that one tab leaves behind
  (cache, hashes, checkpoint, aborted transaction), a third for what a failed
  SAVEPOINT costs beyond its own tab, two names for partial
  resolution and for a renamed system, one failure for each rollback.  The two
  files let a failure between files meet a tab of either side.  Symmetry covers
  the EDSM ids only: names occur in the surveys.
* *Reading.*  Each row of the table of samples differs from the others in what the
  code tests; three rows allow a tie between two points of a system with one in
  between.  The variants overlap, so that the order in which they are tried counts.
* *Zsamples.*  A replacement deletes upwards and inserts its list, which is given
  downwards, so that two of them can wait for each other's rows; the third request
  adds or deletes what the other two wait for.  The empty list is a replacement
  that only removes.

* *Accounts.*  Races on a row need two requests, or one and a run; the runs store
  the same commanders in opposite orders, so that they wait for each other while a
  login waits for both.  Two requests are a login and a self-deletion, a grant and
  a self-deletion, or two first logins with one customer id.  Two people with one
  name and two ids at once are not in the instance; the proofs are for any `NameOf`
  and `IdOf`.
* *Dialog.*  Two saves are a first attempt and its retry, or the saves of two
  administrators on one variant; three checks are the one there is and two that
  saves add, on two cells, one of them taken.

Counters are bounded by `MaxTickets`, `MaxAttempts`, `MaxFiles`, `MaxTabs`,
`MaxFaults`, `MaxLosses`, `MaxRequests`, `MaxVariants`, `MaxChecks` and `MaxSaves`,
and a run of Accounts by the length of its list in `Surveys`; by nothing else.
`CHECK_DEADLOCK FALSE` is set for the pipeline, which ends, and for Accounts and
VariantDialog, which stop when their requests or saves are used up (that no request
is stuck then is RequestsAnswered, and no dialog BusyAwaitsAnswer); the queue and
the folder runs never end, and SheetReading and ZSamples stutter once all is
answered, so that any other stop is found.

**Fairness.**  Nothing is assumed of people: requests, deletes, signals, boots and
crashes may or may not come.

* `FairSpec` (JobQueue): weak fairness of an instance's own steps (a goroutine
  that can go on is scheduled, and `process()` returns), strong fairness of Fetch
  and StartJob: FetchError is enabled with them, and a database that fails every
  single query is not the subject.  A job that is never started in `job_served` is
  therefore not the scheduler's or the database's doing.
* `FolderFairSpec`: strong fairness of a run's steps and of the end of a delete,
  because PostgreSQL hands a lock to the transaction that queues for it, while
  each single lock may be taken and released by others in between.  Weak fairness
  for the end of a claim, which waits for nobody.

* `FairSpec` (Accounts): weak fairness of the next step of each request, and of the
  next step of each run (an upsert, its cancellation, the close).  A statement that
  waits for a row is disabled and goes on when the row is free; a row that is free
  and taken again before a request gets to it needs another run, and runs are
  finitely many.
* VariantDialog has no fairness: that the dialog cannot hang is stated as an
  invariant, since whether an answer comes is the network's affair.

`UnfinishedPickedUp` is about an instance that keeps polling; since `run()`
returns after one job, this is as far as the code goes.

## 4. What is proved

`JobQueueProofs` proves, for any folders, finite set of requests, instances and
number of tickets:

* `TypeCorrect`, `JobsHaveFolderHolds`, `ClaimIsLiveHolds`, `RunWasStartedHolds`,
  `ActiveBoundHolds`, and `OneAtATime`: with a single request in flight at a time
  the 409 promise holds.
* All but the first follow from `IndInvHolds`.  None of the properties is
  inductive alone.  A job keeps its folder because an uncommitted insert pins it
  (`InsertPinsFolder`).  A claim stays live because the row of a claim is locked
  and because tickets are never shared between a request, a row and a memory of a
  run (`TicketsDistinct`): otherwise a new row could be born finished.  The
  timestamps stay on existing rows (`StampsOnRows`).  The bound on active jobs
  needs `RaceBudget`: unfinished jobs of a folder *and* requests past the check
  are together at most as many as requests.
* Liveness: `StopCompletesHolds` and `UnfinishedPickedUpHolds` prove the two
  leads-to properties of `job_queue` for any number of instances, requests and
  rows.  The prover cannot expand ENABLED, so they assume `FairGuards`, the fairness
  of `FairSpec` with the guard of a step (`Ready`) written out in the place of
  ENABLED of it; the guards are read off the actions, and TLC was used to see that
  the steps are enabled where they hold.  A
  goroutine that has been told to stop has at most five steps left (`Togo`), each of
  its steps lowers them and nothing raises them (`Nearer`); one that polls past an
  unfinished row stays in its loop, and its next successful fetch takes a row
  (`StuckSteps`).

`FolderRunsProofs` proves `QueueKept` (FolderRuns implements JobQueue, so
`JobsKeepFolder` follows), `RunTypeCorrect`, and `RowsHaveFolderHolds` by the
invariant `InsertsPinFolder`: a run that has inserted holds the folder row, so no
delete has locked it.  `OneRunPerFolderHolds` and `FinishedIsPublishedHolds` say
how much of "re-runs start from a clean slate" is left when a job can be handed out
twice.  Both rest on `Noted`, that two runs of a folder in process() at once are in
`overlaps`; the first also on `Writes` (a row outside the snapshot of a run was
committed by a run beside it, so a wipe of the snapshot misses no other), the second
on `JobOfRun` (two runs of one job are of one folder, because a ticket is never used
again, which is JobQueue's `TicketsDistinct`).

Of RunEnds it proves the two safety halves.  `NoGridlockHolds`: in any group of runs
there is one that can step, or that waits for a run outside the group or for the
delete of its folder, and the delete can then end or waits for one claim.  It rests on
`LocksByPlace`: what a run holds follows from where it is, so a run that waits to
wipe holds nothing yet, and inserts that wait for one another are the circle
PostgreSQL breaks.  `RunAdvancesHolds`: with finitely many files, each step of a run
leaves less of it and nobody else's step leaves more.  TLC was used to see that the
guards in the two definitions are those under which the actions are enabled.

`SheetReadingProofs` proves, for tabs of any length, any cells and any number
tables, `TypeCorrect`, `DistancesFitHolds` (the distances that miss the constraint are NaN
and those not above zero of samples with systems, no others), `NearestKeptHolds` and
`ValidationAgreesHolds`.  NearestKept rests on the loop invariant `NormalizeInv`:
among the points visited so far, `best` is the first of the nearest of each system.
ValidationAgrees holds because no check asks for an empty cell, the only thing a
cell outside the tab can hold (`CheckAgrees`).

Four more say what reading a tab comes to.  `RowsReadHolds`: the points are the rows
with numbers and a system's name, each once and in order, from below the header to
the first row without a z sample, and no unreadable distance is passed over; the
invariant keeps the row each point comes from (`Listed`).  With it
`NothingReadHolds`: identification and ParseSheet look at a row differently, but a
tab that was identified is empty only if every row taken for data lacks a number.
`FateHolds`: a tab is read with the first variant that fits it, is given up without
one only if none fits, and becomes a survey only if no distance of it is unreadable
and the constraints accept every point that is inserted.
`HashIgnoresRowOrder`: two lists of the same points,
each system once, are written to the hash alike whatever the order of their rows, so
copies of a survey are found again.  A list that is sorted and has no duplicates has
each least name first, and so there is only one such list (`OneOrder`); with
duplicates it fails, which is the hazard at processor.go:257.

`SheetPipelineProofs` proves every property of a folder run, for any number of
files, tabs and failures, any surveys and any consistent catalogue of EDSM:
`TypeCorrect`, `TabsStartCleanHolds`, `CommittedWholeHolds`, `NoDoubleCountHolds`,
`EveryTabAccountedHolds`, `OkMeansResolvedHolds`, `DroppedIsRenamedHolds`, and
`TransactionKeptHolds`, the refinement of LongTxn.  The parts of the invariant are
named for what they say:

* `Control`, what is known at each step of process();
* `Clean`: from the wipe on the work is under the checkpoint at every step but one,
  the step after a lookup; `Ahead`: there it is ahead by systems only.  So a rollback
  loses systems and nothing else, and `Effects` can say what any step does to tabs,
  surveys and results;
* `Apart`: no row of the earlier run is left once one of this run is there;
* `Book` and `Account`: results and surveys belong to tabs, what is stored was seen,
  and what was seen, or left behind, is accounted for;
* `Origin`: a system that is in the cache but not under the checkpoint, because its
  insert was rolled back, is one EDSM answered for under its own name.  This is why
  the stale cache, which breaks SystemsAreRows, cannot make a result untrue;
* `Complete` and `Truthful`: a lookup without an error is complete up to renamings,
  and what a result says is said of the checkpoint, so that no rollback undoes it;
* `UsableStart`: the transaction is usable up to the first file, and after a lookup
  unless the lookup failed and returned nothing.  So `NeverWedgedHolds`: an aborted
  transaction, which a failed SAVEPOINT leaves to the next tab or result, meets only
  steps that roll it back, or Close; and `ProcessAdvancesHolds`:
  every step lowers `Left`, a number made of the files and tabs to come and
  the stage of the tab, so that a run of any size ends;
* `TrueUntilFault` bounds the finding `pipeline_stale` from above.
  `RowsUntilFaultHolds`: before a statement or request fails by itself, and where no
  stored name belongs to another edsmid than EDSM has for it, AddSurvey is
  given rows of the database only, whatever the tabs hold and whatever EDSM does not
  know.  `OnlyLostInsertsHolds`: the one step at which cache and database part is the
  rollback of inserts of a lookup (`InsertsLost`): it failed halfway, a refused name
  among the reasons, or the SAVEPOINT after it failed; the other rollbacks of
  process() take back nothing that is cached.

`ZSamplesProofs` proves, for any projects, values, lists and number of requests,
`TypeCorrect`, `AnswersTruthfulHolds` and `RequestsAtomicHolds`, the refinement of
ZSampleSet, from row locks and a primary key alone.  Its invariant:

* `Control`, where a request is and what that says of its locks;
* `Own`, `Held` and `Brought`: rows of a request are those asked for, it deletes
  committed rows of its project only, and what is not left to insert is inserted;
* `Exclusive` and `Unique`: a row has one deleter, and two rows with one key exist
  only while the transaction that inserts one deletes the other (`OneRow`);
* `Answers`, what the second read of the project shows;
* `History` and `Once`: a delete that has met no row with its key finds the key in
  `gone`, a replacement that leaves a row finds it in `added`, and an add stopped by
  a key was not stopped by its own.

What everyone sees changes at a commit only (`LiveStays`, `LiveCommit`), so every
other step is a stutter, a call or a refusal of ZSampleSet.

Every request is answered for two reasons that are safety.  `NoGridlockHolds`: in any
group of requests under way, one can go on, is cancelled as part of a circle, or
waits for a request outside the group; only finitely many are under way, so a
smallest group that waits for nobody else is a circle.  `RequestsShrinkHolds`: each
step takes a request nearer to its answer, and no step of another takes it back.
That deadlock detection hits the right ones is `VictimsWaitHolds`: who is in a circle
waits.  It needs `OneAwaitedHolds`, that a request waits for at most one other (two
rows with one key in the way of an insert are both the same replacement's, by
`Locks`); then a set that is awaited by its own members has as many awaited as
members, so each of them waits.  TLC was used to see that a request can go on
in the sense of `CanGoOn` exactly where an action of it is enabled.

`AccountsProofs` proves, for any people, names, browsers and runs, and whatever
name and id the callback gives to whom, `TypeCorrect`, `OnlyNewInsertsHolds`,
`ErasureIsFinalHolds` and `NoLostUpdateHolds`.  The argument goes through
`RowsEvolve`, which says what any step may do to a row (rows are never removed,
links only go); from it, what a login under way knows of the row with its name
(`RequestInv`) stays true.  NoLostUpdate needs that a row is held by one run at a
time (`HeldOnce`).

`ErasedByNameOnlyHolds` bounds the finding `accounts_erased`: no login reaches a
deleted account by its customer id, not even one that was under way, and none makes
a row of it anew; only the lookup by name does.

Of RequestsAnswered it proves the two safety halves, for any set of runs.
`NoGridlockHolds`: a request that cannot go on waits for a row of a run that is open,
and in any group of open runs one can go on or waits for a run outside the group.
Only finitely many runs are open (`RunInv`), so among runs that all wait there is a
smallest group that waits for nobody else, and it is a circle, in which the deadlock
detector cancels an upsert (`StuckRunsCircle`).  `WaitsShrinkHolds`: a step of a
request, or of a run, leaves it less to do, and nobody else's step leaves it more.

`VariantDialogProofs` proves, for any number of administrators, cells and saves,
`TypeCorrect` (with the keys of the two tables, from ids that only grow,
`TablesInv`), `BusyAwaitsAnswerHolds` (a dialog that saves its variant waits for
exactly one answer) and the action property `RemovedOnPurposeHolds` (a request to
delete a check, live or aborted, is about a dismissed one, `PurposeInv`).
`SaveReconcilesHolds` rests on two further invariants.  `SavesInv`: the number of a
Save is new when it is given, and then borne by the requests of one busy dialog
only, so that what a table row or a deletion owes to others can be told from it.
`DialogsInv`, for each dialog: what it shows is true of the stored checks that are
left (`ShowsOf`), and every difference between what it sent and the tables is
asked for by a request still to be answered or was made by others (`Met`).  A step
of others keeps both (`Elsewhere`), an answer ticks one request off (`MetOwn`), and
when the last is answered no difference is left but that of others, which is what
Reconciled says.

`SaveAdvancesHolds`: a save has two phases, an answer ends a phase or leaves fewer
answers to wait for, and nothing else, such as changes made in the list meanwhile
or requests given up earlier, makes it longer.  With BusyAwaitsAnswer it is the
reason why a save ends if its requests are answered.

Assumptions: those named in the modules (`ClientAssumption`, `TicketAssumption`,
`FileAssumption`, `AttemptAssumption`, the five of SheetReading about cells,
numbers, tabs, layouts and places, the three of SheetPipeline about surveys and
bounds, the five of Accounts about people, owners,
bounds, surveys and null values, the three of ZSamples about projects, values (any
set of them has a least one, as in an int column) and losses, and
`BoundAssumption` of VariantDialog), which TLC evaluates in the runs.

**Only model-checked:** RunEnds, DeleteAnswered and RequestsAnswered.  Their safety
halves are proved, but the step from there to the leads-to formula is an induction
over the number of files, runs or surveys, which the prover's temporal backend, a
decision procedure for propositional logic, cannot make.

## 5. Findings

* `job_served`: `Processor.run()` returns after its first job (processor.go:101),
  and nothing starts it again; jobs queued later wait for a restart.
* `queue_race`: two concurrent queue requests both succeed, where
  `memory/MEMORY.md:20` promises a 409.
* `pipeline_close`: `Close` is documented to commit the checkpointed work of a
  transaction whose COMMIT fails (db.go:464-466).  On an aborted transaction, which a
  failed SAVEPOINT leaves behind, COMMIT is a rollback and nothing can be rolled back
  to any more: the whole run is lost.
* `pipeline_stale`: systems of a lookup that was rolled back stay in the cache
  (systemcache.go:104), and a good sheet after it is refused by the foreign key.  A
  name that another edsmid has in the table is enough for the lookup to fail.
* `accounts_erased`: whoever deletes the account is told "you will no longer be
  able to log in" (settings.component.ts:40), but the next login finds the row by
  its name (common_funcs.sql:12) and gets a session with the flags the row kept.
  ErasedByNameOnlyHolds says that this lookup is the only way back.

Disagreements without a run of their own: the models do what the code does, and
the properties leave room for it, as their comments say.

* Two replacements of the zsamples that overlap can leave the union of their lists
  (vsds.go:296), against projects.go:86-87.  ZSampleSet's `Apply` allows it.
* A grant that a self-deletion overtakes makes an admin without a linked account
  (user.go:59), against "admin requires a linked customer account" (db.go:23-24).
* Self-deletion ends the session of one browser (delete.go:25); others of the same
  commander survive it, against `memory/MEMORY.md:53-54`.
* `Normalize` is documented to keep the point nearest to the system's real Z
  (types.go:26-29) and is given Y (processor.go:328).  NearestKept is about the
  coordinate it is given.

Other behaviour worth knowing:

* For a system renamed in EDSM, `setsystem` returns the stored row with the old
  name; the point is dropped in silence and the sheet is reported as processed.
  DroppedIsRenamed says that points are lost in no other way.
* A retry of a new variant whose checks failed adds the variant a second time: the
  dialog stays in its mode "new" (vsds-projects.component.ts:507).  A retry of
  checks that were stored, or deleted, gets 409, or 404, and fails again.
* Edits made while the checks are being saved are lost when the dialog closes.
* A run that loads the variants while one is half saved gets it without checks, and
  takes every tab with data for one of its kind.
* Everybody who comes from Frontier logs in with one name, so the second person gets
  the first one's commander; the code's TODO says the name is a placeholder.
* A commander first seen in a sheet is found by name at login and never linked, so
  cannot be made an administrator.

## 6. What is left out, and why

* Contents: commander and project names, messages and file formats are members of
  small sets or absent.  In SheetPipeline the survey hash is the survey, and that
  the order of rows does not matter to it is HashIgnoresRowOrder: a collision of the
  64-bit hash, and the missing delimiters between the strings it covers, are not
  modelled.
* EDSM's and Google's answers do not change during a run.  Retries inside one
  request are part of its outcome; the unbounded retry of answer 429
  (`pkg/gcp/misc.go:15`) is listed as a hazard, and every fairness assumption about
  a run takes it that its remote calls return.
* FolderRuns' wipe is one step, where the DELETE locks row by row (vsds.go:817): it
  takes all its rows at once or waits.
* ClaimIsLive and RunWasStarted do not keep a running job from being handed out
  again, which the code does; OneRunPerFolder excepts runs that overlapped, whose
  rows do mix; AnswersTruthful is about requests that answer ok.
* Views, reports and the folder extraction only read; the spreadsheet readers
  convert files to grids of cells and keep no state.
* Accounts: the exchange with the identity provider before the callback, the expiry
  of sessions in Redis, and several requests of one browser at once.  Every session
  is written by one request at a time.
* VariantDialog: the columns and names of variants and the values of checks; other
  pages of the application, which send one request for a click; a page that is
  reloaded while it saves.  Opening a dialog and loading the page are one step.
* Several runs of one folder share the systems and commanders tables; SheetPipeline
  has one run, and inserts of the same system by two runs at once are left out.
* HTTP routing, static files, configuration and logging keep no state.

## 7. Plan

Done, in this order, the most important behaviour first: JobQueue, SheetPipeline
with LongTxn, FolderRuns, ZSamples with ZSampleSet, SheetReading, Accounts,
VariantDialog; proofs of JobQueue, FolderRuns, SheetReading, Accounts, VariantDialog,
SheetPipeline and ZSamples; progress of JobQueue, FolderRuns, SheetPipeline,
Accounts, ZSamples and the dialog's saves; the survey hash as what is written of the
sorted list.

What is left:

1. **Hash in the pipeline**: SheetPipeline with surveys that have duplicates, so that
   `seen` holds what `Hashed` allows instead of the survey.
2. **Composition**: two runs over a shared systems table, for the inserts that
   meet on `edsmid` and `name`, as Accounts has them for commanders; a run that
   reads variants while a dialog saves them.
3. **Variants**: their columns and the values of checks in the dialog, so that what
   a save stores is what SheetReading evaluates.
