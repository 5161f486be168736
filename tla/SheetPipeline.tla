---------------------------- MODULE SheetPipeline ----------------------------
(***************************************************************************)
(* One run of Processor.process over a folder (pkg/vsds/processor.go): the *)
(* files are opened in turn, every tab is parsed, de-duplicated, its star  *)
(* systems resolved (SystemCache.Lookup: cache, database, EDSM) and its    *)
(* survey stored, all in one db.Transaction whose checkpoint moves with    *)
(* every method (pkg/db/vsds.go, pkg/db/db.go).                            *)
(*                                                                         *)
(* Rows of the folder's earlier run have number 0; a system's primary key  *)
(* is identified with its edsmid, which is unique as well.  The contents   *)
(* of the tabs and every failure of a statement are the environment's      *)
(* choice as the run goes.                                                 *)
(***************************************************************************)
EXTENDS Integers, Sequences, FiniteSets

CONSTANTS
    Name,        \* star system names, as sheets and EDSM spell them
    EdsmId,      \* ids EDSM gives systems
    Cmdr,        \* commander names the cmdrs table can hold
    Survey,      \* what a tab can hold once parsed
    Unparsable,  \* the contents of a tab ParseSheet rejects
    Absent,      \* EDSM has no such system
    MaxFiles,    \* bound: files of the folder
    MaxTabs,     \* bound: tabs of all files together
    MaxFaults    \* bound: statements and requests that fail by themselves

(* A member stands for everything Survey.Hash covers: project, commander,  *)
(* the tab's name and the points, so a copy of a sheet under another tab   *)
(* name is another member.                                                 *)
(* points: the systems named.  bad: points whose rows the constraints of   *)
(* surveypoints refuse together ({}: none).  cmdr: "toolong" for one the   *)
(* column cannot hold.                                                     *)
ASSUME SurveyAssumption ==
    Survey \subseteq [points : SUBSET Name, bad : SUBSET Name, cmdr : Cmdr \cup {"toolong"}]
ASSUME UnparsableAssumption == Unparsable \notin Survey
ASSUME BoundAssumption == MaxFiles \in Nat /\ MaxTabs \in Nat /\ MaxFaults \in Nat

VARIABLES
    edsm,        \* [Name -> what EDSM answers for it]
    committed, work, saved, status,     \* the long transaction, see LongTxn
    pc,          \* the step process() is at
    file,        \* files opened so far
    tabs,        \* contents of the tabs the run has come to, in order
    seen,        \* surveyCache: the surveys whose hash is recorded
    cache,       \* SystemCache.cache, the systems by their own name
    found,       \* systems, as Lookup returned them for this tab
    lookupErr,   \* lErr # nil
    verdict,     \* the success value about to be recorded
    faults,      \* failures spent
    unsaved      \* how many of them were a SAVEPOINT

txn == <<committed, work, saved, status>>
progress == <<pc, file, tabs, seen>>
resolution == <<cache, found, lookupErr>>
failures == <<faults, unsaved>>
vars == <<edsm, committed, work, saved, status, pc, file, tabs, seen, cache,
          found, lookupErr, verdict, faults, unsaved>>

-----------------------------------------------------------------------------
System == [edsm : EdsmId, name : Name]
SheetNo == 0..MaxTabs
Rows == [systems : SUBSET System, cmdrs : SUBSET Cmdr,
         files : SUBSET (0..MaxFiles), sheets : SUBSET SheetNo,
         surveys : SUBSET [sheet : SheetNo, cmdr : Cmdr, points : SUBSET EdsmId],
         results : SUBSET [sheet : SheetNo, ok : BOOLEAN]]

(* EDSM finds a system under any spelling of its name and answers with its *)
(* own; the coordinates may be missing.                                    *)
Answer == {Absent} \cup [edsm : EdsmId, name : Name, coords : BOOLEAN]

UniqueKeys(systems) == \A r, s \in systems :
    r.edsm = s.edsm \/ r.name = s.name => r = s

Consistent(answers) == \A n \in Name : answers[n] # Absent =>
    /\ answers[answers[n].name] = answers[n]
    /\ \A m \in Name : answers[m] # Absent =>
           (answers[m].edsm = answers[n].edsm => answers[m] = answers[n])

TypeOK ==
    /\ edsm \in [Name -> Answer]
    /\ committed \in Rows /\ work \in Rows /\ saved \in Rows
    /\ status \in {"none", "open", "failed", "ended"}
    /\ pc \in {"start", "variants", "list", "wipe", "file", "tab", "parse",
               "lookup", "resolved", "project", "cmdr", "survey", "record",
               "close", "done"}
    /\ file \in 0..MaxFiles
    /\ tabs \in Seq(Survey \cup {Unparsable}) /\ Len(tabs) <= MaxTabs
    /\ seen \subseteq Survey
    /\ cache \subseteq System /\ found \subseteq System
    /\ lookupErr \in BOOLEAN /\ verdict \in BOOLEAN
    /\ faults \in 0..MaxFaults /\ unsaved \in 0..faults

(* The folder was processed before; systems of earlier runs may carry a    *)
(* name EDSM no longer uses.                                               *)
Init ==
    /\ edsm \in {a \in [Name -> Answer] : Consistent(a)}
    /\ \E systems \in {s \in SUBSET System : UniqueKeys(s)} :
           committed = [systems |-> systems, cmdrs |-> {}, files |-> {0}, sheets |-> {0},
                        surveys |-> {}, results |-> {[sheet |-> 0, ok |-> TRUE]}]
    /\ work = committed /\ saved = committed /\ status = "none"
    /\ pc = "start" /\ file = 0 /\ tabs = <<>> /\ seen = {}
    /\ cache = {} /\ found = {} /\ lookupErr = FALSE /\ verdict = FALSE
    /\ faults = 0 /\ unsaved = 0

-----------------------------------------------------------------------------
(* The transaction, as its methods use it.                                 *)

Checkpointed(rows) ==          \* statements executed, then saveCheckpoint
    /\ status = "open"
    /\ work' = rows /\ saved' = rows
    /\ UNCHANGED <<committed, status>>

RolledBack_ToStart ==          \* mutant: to the first savepoint, not the last
    /\ status \in {"open", "failed"}
    /\ work' = committed /\ status' = "open"
    /\ UNCHANGED <<committed, saved>>

RolledBack ==                  \* rollbackToCheckpoint
    /\ status \in {"open", "failed"}
    /\ work' = saved /\ status' = "open"
    /\ UNCHANGED <<committed, saved>>

Fault ==                       \* a statement or a request fails by itself
    /\ faults < MaxFaults
    /\ faults' = faults + 1 /\ UNCHANGED unsaved

(* The statements executed but SAVEPOINT fails: the method returns its     *)
(* error and rolls nothing back.  What an aborted transaction did is never *)
(* read again, so its rows are left out of work.                           *)
CheckpointFails ==
    /\ status = "open" /\ faults < MaxFaults
    /\ faults' = faults + 1 /\ unsaved' = unsaved + 1
    /\ status' = "failed"
    /\ UNCHANGED <<committed, work, saved>>

(* A method fails: its statement is refused, always so on an aborted       *)
(* transaction, and rolled back, or its checkpoint fails.                  *)
MethodFails(refused) ==
    IF refused \/ status = "failed"
    THEN RolledBack /\ UNCHANGED failures
    ELSE (Fault /\ RolledBack) \/ CheckpointFails

Sheet_Next == Len(tabs) + 1    \* mutant: the row of the tab after this one
Sheet == Len(tabs)             \* the sheet row of the current tab
Tab == tabs[Len(tabs)]         \* its contents

-----------------------------------------------------------------------------
(* Start of the run.  Every early return runs the deferred Close.          *)

StartLongTxn ==
    /\ pc = "start"
    /\ \/ /\ work' = committed /\ saved' = committed /\ status' = "open"
          /\ pc' = "variants"
          /\ UNCHANGED <<committed, failures>>
       \/ Fault /\ pc' = "done" /\ UNCHANGED txn
    /\ UNCHANGED <<edsm, file, tabs, seen, resolution, verdict>>

(* FetchVariants does not roll back: its failure aborts the transaction.   *)
LoadVariants ==
    /\ pc = "variants" /\ status = "open"
    /\ \/ pc' = "list" /\ UNCHANGED <<txn, failures>>
       \/ /\ Fault /\ status' = "failed" /\ pc' = "close"
          /\ UNCHANGED <<committed, work, saved>>
    /\ UNCHANGED <<edsm, file, tabs, seen, resolution, verdict>>

ListFolder ==
    /\ pc = "list"
    /\ \/ pc' = "wipe" /\ UNCHANGED failures
       \/ Fault /\ pc' = "close"
    /\ UNCHANGED <<edsm, txn, file, tabs, seen, resolution, verdict>>

Wiped(rows) == [rows EXCEPT !.files = {}, !.sheets = {}, !.surveys = {}, !.results = {}]

(* Mutant: the error of the delete is logged, but the run goes on.         *)
WipeFails_KeepGoing == Fault /\ RolledBack /\ pc' = "file"

WipeFails == MethodFails(FALSE) /\ pc' = "close"

DeleteFolderSpreadsheets ==
    /\ pc = "wipe"
    /\ \/ Checkpointed(Wiped(work)) /\ pc' = "file" /\ UNCHANGED failures
       \/ WipeFails
    /\ UNCHANGED <<edsm, file, tabs, seen, resolution, verdict>>

-----------------------------------------------------------------------------
(* Files and tabs.                                                         *)

(* A file of another type, or that does not open, leaves no trace.         *)
AddSpreadsheet ==
    /\ pc = "file" /\ file < MaxFiles
    /\ file' = file + 1
    /\ \/ pc' = "file" /\ UNCHANGED <<txn, failures>>
       \/ /\ Checkpointed([work EXCEPT !.files = @ \cup {file + 1}])
          /\ pc' = "tab" /\ UNCHANGED failures
       \/ MethodFails(FALSE) /\ pc' = "file"
    /\ UNCHANGED <<edsm, tabs, seen, resolution, verdict>>

NoMoreFiles ==
    /\ pc = "file"
    /\ pc' = "close"
    /\ UNCHANGED <<edsm, txn, file, tabs, seen, resolution, verdict, failures>>

(* A tab whose row is refused, or not saved, is left at once.              *)
AddSheet ==
    /\ pc = "tab" /\ Len(tabs) < MaxTabs
    /\ \E content \in Survey \cup {Unparsable} : tabs' = Append(tabs, content)
    /\ \/ /\ Checkpointed([work EXCEPT !.sheets = @ \cup {Len(tabs) + 1}])
          /\ pc' = "parse" /\ UNCHANGED failures
       \/ MethodFails(FALSE) /\ pc' = "tab"
    /\ UNCHANGED <<edsm, file, seen, resolution, verdict>>

NoMoreTabs ==
    /\ pc = "tab"
    /\ pc' = "file"
    /\ UNCHANGED <<edsm, txn, file, tabs, seen, resolution, verdict, failures>>

(* Mutant: the hash is looked up but never recorded.                       *)
Recorded_Never(survey) == seen

Recorded(survey) == seen \cup {survey}

(* ParseSheet and the surveyCache test: a tab whose survey was seen before *)
(* is skipped without a result; a new one is marked seen before any of it  *)
(* is stored, and a savepoint is set for the lookups.  If that fails the   *)
(* tab is left as it is, marked, without a result and without a rollback.  *)
ParseSheet ==
    /\ pc = "parse"
    /\ \/ /\ Tab = Unparsable
          /\ verdict' = FALSE /\ pc' = "record"
          /\ UNCHANGED <<txn, seen, failures>>
       \/ Tab \in seen /\ pc' = "tab" /\ UNCHANGED <<txn, seen, verdict, failures>>
       \/ /\ Tab \in Survey \ seen
          /\ seen' = Recorded(Tab)
          /\ \/ Checkpointed(work) /\ pc' = "lookup" /\ UNCHANGED failures
             \/ CheckpointFails /\ pc' = "tab"
          /\ UNCHANGED verdict
    /\ UNCHANGED <<edsm, file, tabs, resolution>>

-----------------------------------------------------------------------------
(* SystemCache.Lookup.                                                     *)

Named(names, systems) == {s \in systems : s.name \in names}
NamesOf(systems) == {s.name : s \in systems}

CacheHits == Named(Tab.points, cache)
DbHits == Named(Tab.points \ NamesOf(cache), work.systems)
Missing == Tab.points \ NamesOf(cache \cup DbHits)
Data == {edsm[n] : n \in {m \in Missing : edsm[m] # Absent}}
Located == {d \in Data : d.coords}

(* setsystem: ON CONFLICT (edsmid) returns the row as it is, old name and  *)
(* all; name and coordinates are not updated.                              *)
Known(d) == \E s \in work.systems : s.edsm = d.edsm
RowFor(d) ==
    IF Known(d) THEN CHOOSE s \in work.systems : s.edsm = d.edsm
    ELSE [edsm |-> d.edsm, name |-> d.name]
RowsFor(answers) == {RowFor(d) : d \in answers}
WithSystems(rows, new) == [rows EXCEPT !.systems = @ \cup new]

(* Names are unique too, and no ON CONFLICT covers them: the insert of a   *)
(* system whose name another one has is refused.                           *)
NameTaken(d) == ~Known(d) /\ d.name \in NamesOf(work.systems)
Refusable == {d \in Located : NameTaken(d)}

(* errs: names EDSM did not answer for, and answers without coordinates.   *)
Incomplete_Names == Missing \ NamesOf(Data) # {}   \* mutant: only missing names count
Incomplete == Missing \ NamesOf(Data) # {} \/ Located # Data

(* The query fails, the request fails, or one of the inserts: the cache    *)
(* keeps what was added to it before.  Cached names need no query.         *)
InsertFails ==
    \E done \in SUBSET (Located \ Refusable) :
        /\ done # Located
        /\ IF Refusable = {} THEN Fault ELSE UNCHANGED failures
        /\ work' = WithSystems(work, RowsFor(done))
        /\ cache' = cache \cup DbHits \cup RowsFor(done)
        /\ status' = "failed"

LookupFails ==
    /\ Tab.points \ NamesOf(cache) # {}
    /\ found' = {} /\ lookupErr' = TRUE
    /\ \/ Fault /\ status' = "failed" /\ UNCHANGED <<cache, work>>
       \/ /\ Missing # {} /\ Fault
          /\ cache' = cache \cup DbHits
          /\ UNCHANGED <<work, status>>
       \/ InsertFails

LookupAnswers ==
    /\ Refusable = {}
    /\ found' = CacheHits \cup DbHits \cup RowsFor(Located)
    /\ cache' = cache \cup DbHits \cup RowsFor(Located)
    /\ work' = WithSystems(work, RowsFor(Located))
    /\ lookupErr' = Incomplete
    /\ UNCHANGED <<status, failures>>

Lookup ==
    /\ pc = "lookup" /\ status = "open"
    /\ LookupAnswers \/ LookupFails
    /\ pc' = "resolved"
    /\ UNCHANGED <<edsm, committed, saved, file, tabs, seen, verdict>>

(* Mutant: the tab is given up without a rollback or a result.             *)
GiveUp_Skip == pc' = "tab" /\ UNCHANGED <<txn, verdict>>

(* Mutant: the failure is recorded without a rollback first.               *)
GiveUp_NoRollback == verdict' = FALSE /\ pc' = "record" /\ UNCHANGED txn

GiveUp == RolledBack /\ verdict' = FALSE /\ pc' = "record"

(* Nothing resolved: undo the inserts, record the failure.  Otherwise keep *)
(* what was resolved, however little, and lock it in; if that savepoint    *)
(* fails the tab is left without a rollback or a result.                   *)
Resolve ==
    /\ pc = "resolved"
    /\ \/ lookupErr /\ found = {} /\ GiveUp /\ UNCHANGED failures
       \/ /\ lookupErr => found # {}
          /\ \/ Checkpointed(work) /\ pc' = "project" /\ UNCHANGED failures
             \/ CheckpointFails /\ pc' = "tab"
          /\ UNCHANGED verdict
    /\ UNCHANGED <<edsm, file, tabs, seen, resolution>>

-----------------------------------------------------------------------------
(* The survey itself.                                                      *)

(* The project is the one the tab's variant was joined with in this same   *)
(* snapshot, so it is found: ErrNotFound cannot occur.                     *)
LookupProject ==
    /\ pc = "project"
    /\ \/ pc' = "cmdr" /\ UNCHANGED <<txn, verdict, failures>>
       \/ Fault /\ RolledBack /\ verdict' = FALSE /\ pc' = "record"
    /\ UNCHANGED <<edsm, file, tabs, seen, resolution>>

UpsertCmdr ==
    /\ pc = "cmdr"
    /\ \/ /\ Tab.cmdr \in Cmdr
          /\ Checkpointed([work EXCEPT !.cmdrs = @ \cup {Tab.cmdr}])
          /\ pc' = "survey"
          /\ UNCHANGED <<verdict, failures>>
       \/ MethodFails(Tab.cmdr \notin Cmdr) /\ verdict' = FALSE /\ pc' = "record"
    /\ UNCHANGED <<edsm, file, tabs, seen, resolution>>

(* The points AddSurvey inserts: the others are passed over in silence.    *)
Mapped == Named(Tab.points, found)
Refused ==
    \/ Tab.bad # {} /\ Tab.bad \subseteq NamesOf(Mapped)
    \/ ~(Mapped \subseteq work.systems)

(* Mutant: what Lookup could not resolve is forgotten.                     *)
Outcome_Ok == TRUE

Outcome == ~lookupErr

(* AddSurvey and the choice of the verdict.                                *)
AddSurvey ==
    /\ pc = "survey"
    /\ \/ /\ ~Refused
          /\ Checkpointed([work EXCEPT !.surveys = @ \cup
                 {[sheet |-> Sheet, cmdr |-> Tab.cmdr, points |-> {s.edsm : s \in Mapped}]}])
          /\ verdict' = Outcome
          /\ UNCHANGED failures
       \/ MethodFails(Refused) /\ verdict' = FALSE
    /\ pc' = "record"
    /\ UNCHANGED <<edsm, file, tabs, seen, resolution>>

(* recordResult: an error is logged and the next tab taken.                *)
RecordSheetResult ==
    /\ pc = "record"
    /\ \/ /\ Checkpointed([work EXCEPT !.results = @ \cup {[sheet |-> Sheet, ok |-> verdict]}])
          /\ UNCHANGED failures
       \/ MethodFails(FALSE)
    /\ pc' = "tab"
    /\ UNCHANGED <<edsm, file, tabs, seen, resolution, verdict>>

-----------------------------------------------------------------------------
Close ==
    /\ pc = "close"
    /\ committed' = IF status = "open" THEN work ELSE committed
    /\ status' = "ended" /\ pc' = "done"
    /\ UNCHANGED <<edsm, work, saved, file, tabs, seen, resolution, verdict, failures>>

(* The connection is lost, or the process dies: every later statement of   *)
(* the run fails and nothing of it was committed.                          *)
Lose ==
    /\ status \in {"open", "failed"}
    /\ status' = "ended" /\ pc' = "done"
    /\ UNCHANGED <<edsm, committed, work, saved, file, tabs, seen, resolution,
                   verdict, failures>>

Next ==
    \/ StartLongTxn \/ LoadVariants \/ ListFolder \/ DeleteFolderSpreadsheets
    \/ AddSpreadsheet \/ NoMoreFiles \/ AddSheet \/ NoMoreTabs \/ ParseSheet
    \/ Lookup \/ Resolve \/ LookupProject \/ UpsertCmdr \/ AddSurvey
    \/ RecordSheetResult \/ Close \/ Lose

Spec == Init /\ [][Next]_vars
-----------------------------------------------------------------------------
(* Properties.                                                             *)

Tabs == 1..Len(tabs)
HasResult(n) == n \in {r.sheet : r \in work.results}

(* Whatever became of a tab or a file, the next one starts on a usable     *)
(* transaction with nothing unsaved in it, so that a failure of the next   *)
(* tab rolls back no work but its own (processor.go, the continue          *)
(* statements).  Only a SAVEPOINT that failed leaves an aborted one.       *)
TabsStartClean == pc \in {"file", "tab"} =>
    \/ status = "open" /\ work = saved
    \/ status = "failed" /\ unsaved > 0

(* Tabs without a result that repeat no earlier tab.                       *)
Unaccounted == {n \in Tabs : ~HasResult(n) /\
    (tabs[n] = Unparsable \/ \A m \in 1..(n - 1) : tabs[m] # tabs[n])}

(* No tab is passed over in silence: the first tab with a survey has its   *)
(* result once process() leaves it, and its later copies are skipped.  A   *)
(* failure costs at most one tab its result, a failed SAVEPOINT two, its   *)
(* own and the next one, whose AddSheet the aborted transaction refuses.   *)
EveryTabAccounted ==
    pc \in {"file", "tab", "close"} => Cardinality(Unaccounted) <= faults + unsaved

Resolvable(n) ==
    \/ n \in NamesOf(work.systems)
    \/ (edsm[n] # Absent /\ edsm[n].name = n /\ edsm[n].coords)

(* A sheet reported as processed has a survey, and the database or EDSM    *)
(* knows every system its tab names: a lookup that found only some of them *)
(* is reported as a failure, though what was found is kept.                *)
OkMeansResolved == \A r \in work.results : r.ok /\ r.sheet \in Tabs =>
    /\ r.sheet \in {v.sheet : v \in work.surveys}
    /\ \A n \in tabs[r.sheet].points : Resolvable(n)

(* A survey that appears in several files under the same tab name is       *)
(* stored once: the views would count its points twice.                    *)
NoDoubleCount == \A v, w \in work.surveys : tabs[v.sheet] = tabs[w.sheet] => v = w

(* Others never see rows of two runs of the folder at once: what is        *)
(* committed is the earlier run's rows only, or none of them.              *)
CommittedWhole ==
    LET all == committed.files \cup committed.sheets \cup {r.sheet : r \in committed.results}
    IN  0 \in all => all = {0} /\ committed.surveys = {}

Txn == INSTANCE LongTxn WITH Database <- Rows

(* The run uses its transaction as LongTxn describes it: what it rolls     *)
(* back to is the last checkpoint, nothing is published before Close, and  *)
(* Close publishes all of the work or none of it (db.go, Transaction).     *)
TransactionKept == Txn!TxnSpec

(* A sheet reported as processed has lost a point only to a renaming: the  *)
(* database keeps the system under the name EDSM had for it before, and    *)
(* setsystem (db.go) hands that name back, which is not the one asked for. *)
(* AddSurvey passes over such a point because "the caller has already      *)
(* noted the error"; this is the one case in which it has not.             *)
DroppedIsRenamed == \A v \in work.surveys :
    [sheet |-> v.sheet, ok |-> TRUE] \in work.results => \A n \in tabs[v.sheet].points :
        \/ \E s \in work.systems : s.name = n /\ s.edsm \in v.points
        \/ edsm[n] # Absent /\ \E s \in work.systems : s.edsm = edsm[n].edsm /\ s.name # n

(* "On commit failure it rolls back to the last checkpoint and commits     *)
(* that, preserving successfully checkpointed work" (db.go:465-466): Close *)
(* publishes what the last checkpoint holds.                               *)
CheckpointsPublished == [][Close => committed' = saved]_vars

(* AddSurvey expects "systems maps each SurveyPoint.SystemName to its      *)
(* resolved db.System row", and process sets a savepoint so that partial   *)
(* inserts "can be rolled back cleanly": what Lookup returned for a tab is *)
(* then a row of the database when the tab's survey is stored.             *)
SystemsAreRows == pc = "survey" => found \subseteq work.systems
=============================================================================
