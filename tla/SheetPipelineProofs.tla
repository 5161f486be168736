-------------------------- MODULE SheetPipelineProofs --------------------------
(***************************************************************************)
(* For folders of any number of files and tabs, any surveys, any catalogue *)
(* of systems and any number of failures: what a run stores and commits is *)
(* consistent, and the run uses its transaction as LongTxn describes it.   *)
(***************************************************************************)
EXTENDS SheetPipeline, FiniteSetTheorems, TLAPS

Early == {"start", "variants", "list", "wipe"}      \* the earlier run's rows are there
OnSurvey == {"lookup", "resolved", "project", "cmdr", "survey"}
OnTab == OnSurvey \cup {"parse", "record"}

(* Where the run is, and what it knows there.                              *)
Control ==
    /\ Consistent(edsm)
    /\ pc \in Early => tabs = <<>> /\ seen = {}
    /\ pc = "start" => status = "none" /\ work = committed /\ saved = committed
    /\ pc \notin {"start", "done"} => status \in {"open", "failed"}
    /\ pc \in OnTab => Len(tabs) > 0
    /\ pc \in OnSurvey => Tab \in Survey
    /\ pc = "survey" => Tab.cmdr \in Cmdr

-----------------------------------------------------------------------------
(* Rows stay rows.                                                         *)
LEMMA RowsFields ==
    ASSUME NEW rows \in Rows
    PROVE  /\ rows.systems \in SUBSET System /\ rows.cmdrs \in SUBSET Cmdr
           /\ rows.files \in SUBSET (0..MaxFiles) /\ rows.sheets \in SUBSET SheetNo
           /\ rows.surveys \in SUBSET [sheet : SheetNo, cmdr : Cmdr, points : SUBSET EdsmId]
           /\ rows.results \in SUBSET [sheet : SheetNo, ok : BOOLEAN]
  BY DEF Rows

LEMMA SurveyFields ==
    ASSUME NEW survey \in Survey
    PROVE  survey.points \subseteq Name /\ survey.bad \subseteq Name
  BY SurveyAssumption

(* A tab, and the tab its number stands for once another one is appended.  *)
LEMMA TabTyped ==
    ASSUME TypeOK, Len(tabs) > 0
    PROVE  Len(tabs) \in 1..MaxTabs /\ Tab \in Survey \cup {Unparsable}
  BY DEF TypeOK, Tab

(* What EDSM answers for a system leads to a row of the table.             *)
LEMMA AnswerFields ==
    ASSUME TypeOK, NEW n \in Name, edsm[n] # Absent
    PROVE  edsm[n].edsm \in EdsmId /\ edsm[n].name \in Name
<1>1. edsm[n] \in [edsm : EdsmId, name : Name, coords : BOOLEAN]
  BY DEF TypeOK, Answer
<1>. QED
  BY <1>1

LEMMA RowForTyped ==
    ASSUME TypeOK, NEW n \in Name, edsm[n] # Absent
    PROVE  /\ RowFor(edsm[n]) \in System
           /\ RowFor(edsm[n]).edsm = edsm[n].edsm
           /\ RowFor(edsm[n]) \in work.systems
                \/ RowFor(edsm[n]) = [edsm |-> edsm[n].edsm, name |-> edsm[n].name]
<1>1. edsm[n].edsm \in EdsmId /\ edsm[n].name \in Name
  BY AnswerFields
<1>2. work.systems \subseteq System
  BY DEF TypeOK, Rows
<1>3. CASE \E s \in work.systems : s.edsm = edsm[n].edsm
  BY <1>2, <1>3 DEF RowFor, Known
<1>4. CASE ~\E s \in work.systems : s.edsm = edsm[n].edsm
  BY <1>1, <1>4 DEF RowFor, Known, System
<1>. QED
  BY <1>3, <1>4

(* What Lookup finds and inserts are systems.                              *)
LEMMA LookupTyped ==
    ASSUME TypeOK, Control, pc = "lookup"
    PROVE  /\ Missing \subseteq Name /\ Located \subseteq Data
           /\ CacheHits \subseteq System /\ DbHits \subseteq System
           /\ \A done \in SUBSET Located : RowsFor(done) \subseteq System
<1>1. Tab \in Survey /\ Tab.points \subseteq Name
  BY SurveyFields DEF Control, OnSurvey
<1>2. Missing \subseteq Name
  BY <1>1 DEF Missing
<1>3. work.systems \subseteq System /\ cache \subseteq System
  BY DEF TypeOK, Rows
<1>4. ASSUME NEW d \in Located PROVE RowFor(d) \in System
  <2>1. PICK n \in Missing : edsm[n] # Absent /\ d = edsm[n]
    BY DEF Located, Data
  <2>. QED
    BY <1>2, <2>1, RowForTyped
<1>. QED
  BY <1>2, <1>3, <1>4 DEF Located, CacheHits, DbHits, Named, RowsFor

-----------------------------------------------------------------------------
(* The control invariant.                                                  *)
LEMMA ControlInit == Init => Control
  BY DEF Init, Control, Early, OnSurvey, OnTab

(* A transaction that was started can be used, or rolled back, to the end. *)
LEMMA Usable ==
    ASSUME TypeOK, Control, [Next]_vars
    PROVE  pc' \notin {"start", "done"} => status' \in {"open", "failed"}
<1>. USE DEF Checkpointed, RolledBack, MethodFails, CheckpointFails, txn
<1>1. CASE StartLongTxn \/ LoadVariants \/ ListFolder \/ DeleteFolderSpreadsheets
  BY <1>1 DEF StartLongTxn, LoadVariants, ListFolder, DeleteFolderSpreadsheets, WipeFails, Control
<1>2. CASE AddSpreadsheet \/ NoMoreFiles \/ AddSheet \/ NoMoreTabs \/ ParseSheet
  BY <1>2 DEF AddSpreadsheet, NoMoreFiles, AddSheet, NoMoreTabs, ParseSheet, Control
<1>3. CASE Lookup
  BY <1>3 DEF Lookup, LookupAnswers, LookupFails, InsertFails
<1>4. CASE Resolve \/ LookupProject \/ UpsertCmdr \/ AddSurvey \/ RecordSheetResult
  BY <1>4 DEF Resolve, GiveUp, LookupProject, UpsertCmdr, AddSurvey, RecordSheetResult, Control
<1>5. CASE Close \/ Lose
  BY <1>5 DEF Close, Lose
<1>6. CASE UNCHANGED vars
  BY <1>6 DEF vars, Control
<1>. QED
  BY <1>1, <1>2, <1>3, <1>4, <1>5, <1>6 DEF Next

LEMMA ControlStep == TypeOK /\ Control /\ [Next]_vars => Control'
<1>. SUFFICES ASSUME TypeOK, Control, [Next]_vars PROVE Control'
  OBVIOUS
<1>. USE DEF Early, OnSurvey, OnTab
<1>0. pc' \notin {"start", "done"} => status' \in {"open", "failed"}
  BY Usable
<1>. USE <1>0
<1>1. CASE StartLongTxn
  BY <1>1 DEF StartLongTxn, Control, txn, resolution
<1>2. CASE LoadVariants \/ ListFolder \/ DeleteFolderSpreadsheets
  BY <1>2 DEF LoadVariants, ListFolder, DeleteFolderSpreadsheets, WipeFails, Control, txn, resolution
<1>3. CASE AddSpreadsheet \/ NoMoreFiles \/ NoMoreTabs
  BY <1>3 DEF AddSpreadsheet, NoMoreFiles, NoMoreTabs, Control, txn, resolution
<1>4. CASE AddSheet
  <2>1. tabs \in Seq(Survey \cup {Unparsable})
    BY DEF TypeOK
  <2>2. PICK content \in Survey \cup {Unparsable} : tabs' = Append(tabs, content)
    BY <1>4 DEF AddSheet
  <2>3. Len(tabs') > 0
    BY <2>1, <2>2
  <2>4. pc' \in {"parse", "tab"} /\ edsm' = edsm
    BY <1>4 DEF AddSheet
  <2>. QED
    BY <2>3, <2>4 DEF Control
<1>5. CASE ParseSheet
  <2>1. pc' \in {"record", "tab", "lookup"} /\ edsm' = edsm /\ tabs' = tabs /\ pc = "parse"
    BY <1>5 DEF ParseSheet
  <2>2. pc' = "lookup" => Tab \in Survey
    BY <1>5, TabTyped DEF ParseSheet
  <2>. QED
    BY <2>1, <2>2 DEF Control, Tab
<1>6. CASE Lookup \/ Resolve \/ LookupProject
  <2>1. /\ pc' \in {"resolved", "project", "cmdr", "record", "tab"} /\ UNCHANGED <<edsm, tabs>>
        /\ pc \in OnSurvey
    BY <1>6 DEF Lookup, Resolve, GiveUp, LookupProject
  <2>. QED
    BY <2>1 DEF Control, Tab
<1>7. CASE UpsertCmdr
  <2>1. pc' \in {"survey", "record"} /\ UNCHANGED <<edsm, tabs>> /\ pc = "cmdr"
    BY <1>7 DEF UpsertCmdr
  <2>2. pc' = "survey" => Tab.cmdr \in Cmdr
    BY <1>7 DEF UpsertCmdr
  <2>. QED
    BY <2>1, <2>2 DEF Control, Tab
<1>8. CASE AddSurvey
  BY <1>8 DEF AddSurvey, Control
<1>9. CASE RecordSheetResult
  BY <1>9 DEF RecordSheetResult, Control
<1>10. CASE Close \/ Lose
  BY <1>10 DEF Close, Lose, Control
<1>11. CASE UNCHANGED vars
  BY <1>11 DEF vars, Control, Tab
<1>. QED
  BY <1>1, <1>2, <1>3, <1>4, <1>5, <1>6, <1>7, <1>8, <1>9, <1>10, <1>11 DEF Next

(* The rows a step leaves behind.                                          *)
LEMMA RowsStep ==
    ASSUME TypeOK, Control, [Next]_vars
    PROVE  work' \in Rows /\ saved' \in Rows /\ committed' \in Rows
<1>. USE DEF Checkpointed, RolledBack, txn
<1>1. work \in Rows /\ saved \in Rows /\ committed \in Rows
  BY DEF TypeOK
<1>2. CASE UNCHANGED <<work, saved, committed>>
  BY <1>1, <1>2
<1>3. CASE RolledBack \/ CheckpointFails
  BY <1>1, <1>3 DEF CheckpointFails
<1>4. CASE StartLongTxn \/ Close \/ Lose
  BY <1>1, <1>4 DEF StartLongTxn, Close, Lose
<1>5. CASE Checkpointed(Wiped(work))
  <2>1. Wiped(work) \in Rows
    BY <1>1 DEF Wiped, Rows
  <2>. QED
    BY <1>1, <1>5, <2>1
<1>6. CASE AddSpreadsheet /\ Checkpointed([work EXCEPT !.files = @ \cup {file + 1}])
  <2>1. file + 1 \in 0..MaxFiles
    BY <1>6, BoundAssumption DEF AddSpreadsheet, TypeOK
  <2>2. [work EXCEPT !.files = @ \cup {file + 1}] \in Rows
    BY <1>1, <2>1 DEF Rows
  <2>. QED
    BY <1>1, <1>6, <2>2
<1>7. CASE AddSheet /\ Checkpointed([work EXCEPT !.sheets = @ \cup {Len(tabs) + 1}])
  <2>1. Len(tabs) + 1 \in SheetNo
    BY <1>7, BoundAssumption DEF AddSheet, TypeOK, SheetNo
  <2>2. [work EXCEPT !.sheets = @ \cup {Len(tabs) + 1}] \in Rows
    BY <1>1, <2>1 DEF Rows
  <2>. QED
    BY <1>1, <1>7, <2>2
<1>8. CASE Lookup
  <2>1. work' = work \/ \E done \in SUBSET Located : work' = WithSystems(work, RowsFor(done))
    BY <1>8 DEF Lookup, LookupAnswers, LookupFails, InsertFails
  <2>2. \A done \in SUBSET Located : RowsFor(done) \subseteq System
    BY <1>8, LookupTyped DEF Lookup
  <2>3. \A new \in SUBSET System : WithSystems(work, new) \in Rows
    BY <1>1 DEF WithSystems, Rows
  <2>4. work' \in Rows
    BY <1>1, <2>1, <2>2, <2>3
  <2>. QED
    BY <1>1, <1>8, <2>4 DEF Lookup
<1>9. CASE Checkpointed(work)
  BY <1>1, <1>9
<1>10. CASE UpsertCmdr /\ Checkpointed([work EXCEPT !.cmdrs = @ \cup {Tab.cmdr}]) /\ Tab.cmdr \in Cmdr
  <2>1. [work EXCEPT !.cmdrs = @ \cup {Tab.cmdr}] \in Rows
    BY <1>1, <1>10 DEF Rows
  <2>. QED
    BY <1>1, <1>10, <2>1
<1>11. CASE /\ AddSurvey
            /\ Checkpointed([work EXCEPT !.surveys = @ \cup
                 {[sheet |-> Sheet, cmdr |-> Tab.cmdr, points |-> {s.edsm : s \in Mapped}]}])
  <2>1. Sheet \in SheetNo
    BY BoundAssumption DEF TypeOK, SheetNo, Sheet
  <2>2. Tab.cmdr \in Cmdr
    BY <1>11 DEF AddSurvey, Control
  <2>3. {s.edsm : s \in Mapped} \in SUBSET EdsmId
    BY DEF TypeOK, Mapped, Named, System
  <2>. DEFINE survey == [sheet |-> Sheet, cmdr |-> Tab.cmdr, points |-> {s.edsm : s \in Mapped}]
  <2>4. survey \in [sheet : SheetNo, cmdr : Cmdr, points : SUBSET EdsmId]
    BY <2>1, <2>2, <2>3
  <2>5. work' = [work EXCEPT !.surveys = @ \cup {survey}]
    BY <1>11
  <2>. HIDE DEF survey
  <2>6. work' \in Rows
    BY <1>1, <2>4, <2>5 DEF Rows
  <2>. QED
    BY <1>1, <1>11, <2>6
<1>12. CASE RecordSheetResult
            /\ Checkpointed([work EXCEPT !.results = @ \cup {[sheet |-> Sheet, ok |-> verdict]}])
  <2>1. [sheet |-> Sheet, ok |-> verdict] \in [sheet : SheetNo, ok : BOOLEAN]
    BY BoundAssumption DEF TypeOK, SheetNo, Sheet
  <2>2. [work EXCEPT !.results = @ \cup {[sheet |-> Sheet, ok |-> verdict]}] \in Rows
    BY <1>1, <2>1 DEF Rows
  <2>. QED
    BY <1>1, <1>12, <2>2
<1>. QED
  <2>0. \A refused : MethodFails(refused) => RolledBack \/ CheckpointFails
    BY Zenon DEF MethodFails
  <2>1. CASE LoadVariants \/ ListFolder \/ DeleteFolderSpreadsheets \/ NoMoreFiles \/ NoMoreTabs
    BY <1>2, <1>3, <1>5, <2>0, <2>1, Zenon DEF LoadVariants, ListFolder, DeleteFolderSpreadsheets,
       WipeFails, NoMoreFiles, NoMoreTabs
  <2>2. CASE AddSpreadsheet
    BY <1>2, <1>3, <1>6, <2>0, <2>2, Zenon DEF AddSpreadsheet
  <2>3. CASE AddSheet
    BY <1>3, <1>7, <2>0, <2>3, Zenon DEF AddSheet
  <2>4. CASE ParseSheet
    BY <1>2, <1>3, <1>9, <2>4, Zenon DEF ParseSheet
  <2>5. CASE Resolve \/ LookupProject
    BY <1>2, <1>3, <1>9, <2>5, Zenon DEF Resolve, GiveUp, LookupProject
  <2>6. CASE UpsertCmdr
    BY <1>3, <1>10, <2>0, <2>6, Zenon DEF UpsertCmdr
  <2>7. CASE AddSurvey
    BY <1>3, <1>11, <2>0, <2>7, Zenon DEF AddSurvey
  <2>8. CASE RecordSheetResult
    BY <1>3, <1>12, <2>0, <2>8, Zenon DEF RecordSheetResult
  <2>9. CASE UNCHANGED vars
    BY <1>2, <2>9, Zenon DEF vars
  <2>. QED
    BY <1>4, <1>8, <2>1, <2>2, <2>3, <2>4, <2>5, <2>6, <2>7, <2>8, <2>9 DEF Next

(* The rest of the state.                                                  *)
LEMMA FailuresTyped ==
    ASSUME TypeOK, UNCHANGED failures \/ Fault \/ CheckpointFails
    PROVE  faults' \in 0..MaxFaults /\ unsaved' \in 0..faults'
  BY BoundAssumption DEF TypeOK, Fault, CheckpointFails, failures

LEMMA MethodFailsTyped ==
    ASSUME TypeOK, NEW refused, MethodFails(refused)
    PROVE  /\ UNCHANGED failures \/ Fault \/ CheckpointFails
           /\ status' \in {"open", "failed"} /\ committed' = committed
  BY DEF MethodFails, RolledBack, CheckpointFails

LEMMA LookupStepTyped ==
    ASSUME TypeOK, Control, Lookup
    PROVE  /\ cache' \subseteq System /\ found' \subseteq System
           /\ lookupErr' \in BOOLEAN /\ (UNCHANGED failures \/ Fault)
           /\ status' \in {"open", "failed"}
<1>1. CacheHits \subseteq System /\ DbHits \subseteq System /\ cache \subseteq System
  BY LookupTyped DEF Lookup, TypeOK
<1>2. \A done \in SUBSET Located : RowsFor(done) \subseteq System
  BY LookupTyped DEF Lookup
<1>3. CASE LookupAnswers
  <2>1. lookupErr' \in BOOLEAN
    BY <1>3 DEF LookupAnswers, Incomplete
  <2>. QED
    BY <1>1, <1>2, <1>3, <2>1 DEF LookupAnswers, Lookup, TypeOK
<1>4. CASE LookupFails
  <2>1. cache' \subseteq System
    BY <1>1, <1>2, <1>4 DEF LookupFails, InsertFails
  <2>2. UNCHANGED failures \/ Fault
    BY <1>4 DEF LookupFails, InsertFails
  <2>. QED
    BY <1>4, <2>1, <2>2 DEF LookupFails, InsertFails, Lookup
<1>. QED
  BY <1>3, <1>4 DEF Lookup

LEMMA TypeStep == TypeOK /\ Control /\ [Next]_vars => TypeOK'
<1>. SUFFICES ASSUME TypeOK, Control, [Next]_vars PROVE TypeOK'
  OBVIOUS
<1>1. work' \in Rows /\ saved' \in Rows /\ committed' \in Rows
  BY RowsStep
<1>. USE <1>1
<1>2. CASE StartLongTxn \/ LoadVariants \/ ListFolder
  <2>1. UNCHANGED failures \/ Fault
    BY <1>2 DEF StartLongTxn, LoadVariants, ListFolder
  <2>. QED
    BY <1>2, <2>1, FailuresTyped DEF StartLongTxn, LoadVariants, ListFolder, TypeOK, txn, resolution
<1>3. CASE DeleteFolderSpreadsheets
  <2>1. /\ UNCHANGED failures \/ Fault \/ CheckpointFails
        /\ status' \in {"open", "failed"}
    BY <1>3, MethodFailsTyped DEF DeleteFolderSpreadsheets, WipeFails, Checkpointed
  <2>. QED
    BY <1>3, <2>1, FailuresTyped DEF DeleteFolderSpreadsheets, WipeFails, TypeOK, resolution
<1>4. CASE AddSpreadsheet
  <2>1. /\ UNCHANGED failures \/ Fault \/ CheckpointFails
        /\ status' = status \/ status' \in {"open", "failed"}
    BY <1>4, MethodFailsTyped DEF AddSpreadsheet, Checkpointed, txn
  <2>2. file' \in 0..MaxFiles
    BY <1>4, BoundAssumption DEF AddSpreadsheet, TypeOK
  <2>3. status' \in {"none", "open", "failed", "ended"} /\ pc' \in {"file", "tab"}
    BY <1>4, <2>1 DEF AddSpreadsheet, TypeOK
  <2>. QED
    BY <1>4, <2>1, <2>2, <2>3, FailuresTyped DEF AddSpreadsheet, TypeOK, resolution
<1>5. CASE AddSheet
  <2>1. /\ UNCHANGED failures \/ Fault \/ CheckpointFails
        /\ status' \in {"open", "failed"}
    BY <1>5, MethodFailsTyped DEF AddSheet, Checkpointed
  <2>2. tabs' \in Seq(Survey \cup {Unparsable}) /\ Len(tabs') <= MaxTabs
    BY <1>5, BoundAssumption DEF AddSheet, TypeOK
  <2>3. pc' \in {"parse", "tab"}
    BY <1>5 DEF AddSheet
  <2>. QED
    BY <1>5, <2>1, <2>2, <2>3, FailuresTyped DEF AddSheet, TypeOK, resolution
<1>6. CASE NoMoreFiles \/ NoMoreTabs \/ Close \/ Lose
  BY <1>6, FailuresTyped DEF NoMoreFiles, NoMoreTabs, Close, Lose, TypeOK, txn, resolution
<1>7. CASE ParseSheet
  <2>1. /\ UNCHANGED failures \/ CheckpointFails
        /\ status' = status \/ status' \in {"open", "failed"}
    BY <1>7 DEF ParseSheet, Checkpointed, CheckpointFails, txn
  <2>2. /\ status' \in {"none", "open", "failed", "ended"} /\ seen' \subseteq Survey
        /\ pc' \in {"record", "tab", "lookup"} /\ verdict' \in BOOLEAN
    BY <1>7, <2>1 DEF ParseSheet, Recorded, TypeOK
  <2>. QED
    BY <1>7, <2>1, <2>2, FailuresTyped DEF ParseSheet, TypeOK, resolution
<1>8. CASE Lookup
  <2>1. /\ cache' \subseteq System /\ found' \subseteq System
        /\ lookupErr' \in BOOLEAN /\ (UNCHANGED failures \/ Fault)
        /\ status' \in {"open", "failed"}
    BY <1>8, LookupStepTyped
  <2>. QED
    BY <1>8, <2>1, FailuresTyped DEF Lookup, TypeOK
<1>9. CASE Resolve \/ LookupProject
  <2>1. /\ UNCHANGED failures \/ Fault \/ CheckpointFails
        /\ status' = status \/ status' \in {"open", "failed"}
    BY <1>9 DEF Resolve, GiveUp, LookupProject, Checkpointed, RolledBack, CheckpointFails, txn
  <2>2. /\ status' \in {"none", "open", "failed", "ended"} /\ verdict' \in BOOLEAN
        /\ pc' \in {"record", "project", "cmdr", "tab"}
    BY <1>9, <2>1 DEF Resolve, GiveUp, LookupProject, TypeOK
  <2>. QED
    BY <1>9, <2>1, <2>2, FailuresTyped DEF Resolve, LookupProject, TypeOK, resolution
<1>10. CASE UpsertCmdr \/ AddSurvey
  <2>1. /\ UNCHANGED failures \/ Fault \/ CheckpointFails
        /\ status' \in {"open", "failed"}
    BY <1>10, MethodFailsTyped DEF UpsertCmdr, AddSurvey, Checkpointed
  <2>2. verdict' \in BOOLEAN /\ pc' \in {"survey", "record"}
    BY <1>10 DEF UpsertCmdr, AddSurvey, Outcome, TypeOK
  <2>. QED
    BY <1>10, <2>1, <2>2, FailuresTyped DEF UpsertCmdr, AddSurvey, TypeOK, resolution
<1>11. CASE RecordSheetResult
  <2>1. /\ UNCHANGED failures \/ Fault \/ CheckpointFails
        /\ status' \in {"open", "failed"}
    BY <1>11, MethodFailsTyped DEF RecordSheetResult, Checkpointed
  <2>. QED
    BY <1>11, <2>1, FailuresTyped DEF RecordSheetResult, TypeOK, resolution
<1>12. CASE UNCHANGED vars
  BY <1>12 DEF vars, TypeOK
<1>. QED
  BY <1>2, <1>3, <1>4, <1>5, <1>6, <1>7, <1>8, <1>9, <1>10, <1>11, <1>12 DEF Next

LEMMA TypeInit == Init => TypeOK
<1>. SUFFICES ASSUME Init PROVE TypeOK
  OBVIOUS
<1>1. PICK systems \in SUBSET System :
          committed = [systems |-> systems, cmdrs |-> {}, files |-> {0}, sheets |-> {0},
                       surveys |-> {}, results |-> {[sheet |-> 0, ok |-> TRUE]}]
  BY DEF Init
<1>2. 0 \in 0..MaxFiles /\ 0 \in SheetNo /\ 0 \in 0..MaxFaults
  BY BoundAssumption DEF SheetNo
<1>3. [sheet |-> 0, ok |-> TRUE] \in [sheet : SheetNo, ok : BOOLEAN]
  BY <1>2
<1>4. committed \in Rows
  BY <1>1, <1>2, <1>3 DEF Rows
<1>5. edsm \in [Name -> Answer] /\ tabs \in Seq(Survey \cup {Unparsable}) /\ Len(tabs) <= MaxTabs
  BY BoundAssumption DEF Init
<1>6. faults \in 0..MaxFaults /\ unsaved \in 0..faults
  <2>1. faults = 0 /\ unsaved = 0 /\ 0 \in 0..0
    BY DEF Init
  <2>. QED
    BY <1>2, <2>1
<1>. QED
  BY <1>2, <1>4, <1>5, <1>6 DEF Init, TypeOK

LEMMA TypedControl == Spec => [](TypeOK /\ Control)
  BY TypeInit, ControlInit, TypeStep, ControlStep, PTL DEF Spec

(* The rows keep their columns' ranges whatever statement fails, for       *)
(* folders, surveys and catalogues of any size.                            *)
THEOREM TypeCorrect == Spec => []TypeOK
  BY TypedControl, PTL

-----------------------------------------------------------------------------
(* The run implements LongTxn.                                             *)
LEMMA TxnStep ==
    ASSUME TypeOK, TypeOK', Control, [Next]_vars
    PROVE  [Txn!TxnNext]_(Txn!txnVars)
<1>. USE DEF Txn!TxnNext, Txn!txnVars
<1>1. work \in Rows /\ work' \in Rows
  BY DEF TypeOK
<1>2. CASE UNCHANGED txn
  BY <1>2 DEF txn
<1>3. CASE RolledBack \/ CheckpointFails
  BY <1>1, <1>3 DEF RolledBack, CheckpointFails, Txn!RollbackToCheckpoint, Txn!Execute
<1>4. CASE \E rows : Checkpointed(rows)
  <2>1. status = "open" /\ work' \in Rows /\ saved' = work' /\ UNCHANGED <<committed, status>>
    BY <1>1, <1>4 DEF Checkpointed
  <2>. QED
    BY <2>1 DEF Txn!Operate
<1>5. CASE StartLongTxn
  BY <1>2, <1>5 DEF StartLongTxn, Control, Txn!Start
<1>6. CASE LoadVariants
  BY <1>1, <1>2, <1>6 DEF LoadVariants, Txn!Execute
<1>7. CASE Lookup
  <2>1. status = "open" /\ status' \in {"open", "failed"} /\ UNCHANGED <<committed, saved>>
    BY <1>7 DEF Lookup, LookupAnswers, LookupFails, InsertFails
  <2>. QED
    BY <1>1, <2>1 DEF Txn!Execute
<1>8. CASE Close
  BY <1>8 DEF Close, Control, Txn!Close
<1>9. CASE Lose
  BY <1>9 DEF Lose, Txn!Lose
<1>. QED
  <2>0. \A refused : MethodFails(refused) => RolledBack \/ CheckpointFails
    BY Zenon DEF MethodFails
  <2>1. CASE ListFolder \/ NoMoreFiles \/ NoMoreTabs
    BY <1>2, <2>1, Zenon DEF ListFolder, NoMoreFiles, NoMoreTabs
  <2>2. CASE DeleteFolderSpreadsheets \/ AddSpreadsheet \/ AddSheet \/ ParseSheet
    BY <1>2, <1>3, <1>4, <2>0, <2>2, Zenon
       DEF DeleteFolderSpreadsheets, WipeFails, AddSpreadsheet, AddSheet, ParseSheet
  <2>3. CASE Resolve \/ LookupProject \/ UpsertCmdr
    BY <1>2, <1>3, <1>4, <2>0, <2>3, Zenon DEF Resolve, GiveUp, LookupProject, UpsertCmdr
  <2>4. CASE AddSurvey \/ RecordSheetResult
    BY <1>3, <1>4, <2>0, <2>4, Zenon DEF AddSurvey, RecordSheetResult
  <2>5. CASE UNCHANGED vars
    BY <1>2, <2>5 DEF vars, txn
  <2>. QED
    BY <1>5, <1>6, <1>7, <1>8, <1>9, <2>1, <2>2, <2>3, <2>4, <2>5 DEF Next

(* process() uses its transaction as LongTxn describes it: a failed method *)
(* goes back to the last checkpoint and no further, nothing is visible     *)
(* before Close, and Close publishes all of the work or none               *)
(* (db.go:428-519).                                                        *)
THEOREM TransactionKeptHolds == Spec => TransactionKept
<1>1. Init => Txn!TxnInit
  <2>. SUFFICES ASSUME Init PROVE Txn!TxnInit
    OBVIOUS
  <2>1. committed \in Rows
    BY TypeInit DEF TypeOK
  <2>. QED
    BY <2>1 DEF Init, Txn!TxnInit
<1>2. TypeOK /\ TypeOK' /\ Control /\ [Next]_vars => [Txn!TxnNext]_(Txn!txnVars)
  BY TxnStep
<1>. QED
  BY <1>1, <1>2, TypedControl, PTL DEF Spec, TransactionKept, Txn!TxnSpec

-----------------------------------------------------------------------------
(* There is nothing unsaved from the wipe on, but for the systems of a     *)
(* lookup; so there is nothing before the duplicate test, which leaves a   *)
(* tab without touching the transaction, nor before a result is recorded.  *)
(* Between tabs and before a result it may be aborted by a SAVEPOINT.      *)
Clean ==
    /\ pc \in ({"parse"} \cup OnSurvey) \ {"resolved"} => status = "open" /\ work = saved
    /\ pc = "record" => work = saved
    /\ pc \in {"file", "tab"} /\ status = "open" => work = saved
    /\ pc \in {"file", "tab", "record"} => status = "open" \/ unsaved > 0

LEMMA CleanStep == TypeOK /\ Control /\ Clean /\ [Next]_vars => Clean'
<1>. SUFFICES ASSUME TypeOK, Control, Clean, [Next]_vars PROVE Clean'
  OBVIOUS
<1>. USE DEF Checkpointed, RolledBack, txn, failures, OnTab, OnSurvey
<1>a. CheckpointFails => unsaved' > 0
  BY DEF CheckpointFails, TypeOK
<1>1. CASE StartLongTxn \/ LoadVariants \/ ListFolder
  BY <1>1 DEF StartLongTxn, LoadVariants, ListFolder, Clean
<1>2. CASE DeleteFolderSpreadsheets \/ NoMoreFiles \/ NoMoreTabs
  BY <1>2 DEF DeleteFolderSpreadsheets, WipeFails, NoMoreFiles, NoMoreTabs, Clean
<1>3. CASE AddSpreadsheet
  BY <1>3, <1>a DEF AddSpreadsheet, MethodFails, CheckpointFails, Clean
<1>4. CASE AddSheet
  BY <1>4, <1>a DEF AddSheet, MethodFails, CheckpointFails, Clean
<1>5. CASE ParseSheet
  BY <1>5, <1>a DEF ParseSheet, CheckpointFails, Clean
<1>6. CASE Lookup \/ LookupProject
  BY <1>6 DEF Lookup, LookupProject, Clean
<1>7. CASE Resolve
  BY <1>7, <1>a DEF Resolve, GiveUp, CheckpointFails, Clean
<1>8. CASE UpsertCmdr
  BY <1>8, <1>a DEF UpsertCmdr, MethodFails, CheckpointFails, Clean
<1>9. CASE AddSurvey
  BY <1>9, <1>a DEF AddSurvey, MethodFails, CheckpointFails, Clean
<1>10. CASE RecordSheetResult
  BY <1>10, <1>a DEF RecordSheetResult, MethodFails, CheckpointFails, Clean
<1>11. CASE Close \/ Lose
  BY <1>11 DEF Close, Lose, Clean
<1>12. CASE UNCHANGED vars
  BY <1>12 DEF vars, Clean
<1>. QED
  BY <1>1, <1>2, <1>3, <1>4, <1>5, <1>6, <1>7, <1>8, <1>9, <1>10, <1>11, <1>12 DEF Next

LEMMA CleanHolds == Spec => [](TypeOK /\ Control /\ Clean)
<1>1. Init => Clean
  BY DEF Init, Clean, OnTab, OnSurvey
<1>. QED
  BY <1>1, CleanStep, TypedControl, PTL DEF Spec

(* The next tab, or file, starts on a usable transaction with all earlier  *)
(* work in its checkpoint, whichever of the continue statements of         *)
(* process() led there, unless a SAVEPOINT failed (processor.go:228-389).  *)
THEOREM TabsStartCleanHolds == Spec => []TabsStartClean
<1>1. Control /\ Clean => TabsStartClean
  BY DEF Control, Clean, TabsStartClean
<1>. QED
  BY <1>1, CleanHolds, PTL

-----------------------------------------------------------------------------
(* The rows of two runs never meet.                                        *)
Numbers(rows) == rows.files \cup rows.sheets \cup {r.sheet : r \in rows.results}
Whole(rows) == 0 \in Numbers(rows) => Numbers(rows) = {0} /\ rows.surveys = {}

Apart ==
    /\ Whole(committed) /\ Whole(work) /\ Whole(saved)
    /\ pc \in OnTab \cup {"file", "tab"} => 0 \notin Numbers(work) /\ 0 \notin Numbers(saved)

LEMMA ApartStep ==
    ASSUME TypeOK, Control, Apart, [Next]_vars
    PROVE  Apart'
<1>. USE DEF OnTab, OnSurvey
<1>1. CASE StartLongTxn
  BY <1>1 DEF StartLongTxn, Apart, txn
<1>2. CASE LoadVariants \/ ListFolder
  BY <1>2 DEF LoadVariants, ListFolder, Apart, txn
<1>3. CASE DeleteFolderSpreadsheets
  <2>1. CASE Checkpointed(Wiped(work))
    <3>1. 0 \notin Numbers(Wiped(work))
      BY DEF Numbers, Wiped, TypeOK, Rows
    <3>. QED
      BY <1>3, <2>1, <3>1 DEF Checkpointed, Apart, Whole
  <2>2. CASE WipeFails
    BY <1>3, <2>2 DEF WipeFails, MethodFails, RolledBack, CheckpointFails,
       DeleteFolderSpreadsheets, Apart
  <2>. QED
    BY <1>3, <2>1, <2>2 DEF DeleteFolderSpreadsheets
<1>4. CASE /\ pc \in OnTab \cup {"file", "tab"}
           /\ committed' = committed
           /\ work' \in {work, saved} /\ saved' \in {work, saved}
  BY <1>4, Zenon DEF Apart, Whole
<1>5. ASSUME /\ pc \in OnTab \cup {"file", "tab"}
             /\ committed' = committed
             /\ saved' \in {work', saved}
             /\ 0 \notin Numbers(work')
      PROVE  Apart'
  BY <1>5 DEF Apart, Whole
<1>6. CASE AddSpreadsheet /\ Checkpointed([work EXCEPT !.files = @ \cup {file + 1}])
  <2>1. 0 \notin Numbers([work EXCEPT !.files = @ \cup {file + 1}])
    BY <1>6 DEF AddSpreadsheet, Apart, Numbers, TypeOK, Rows
  <2>. QED
    BY <1>5, <1>6, <2>1 DEF AddSpreadsheet, Checkpointed
<1>7. CASE AddSheet /\ Checkpointed([work EXCEPT !.sheets = @ \cup {Len(tabs) + 1}])
  <2>1. 0 \notin Numbers([work EXCEPT !.sheets = @ \cup {Len(tabs) + 1}])
    BY <1>7 DEF AddSheet, Apart, Numbers, TypeOK, Rows
  <2>. QED
    BY <1>5, <1>7, <2>1 DEF AddSheet, Checkpointed
<1>8. CASE Lookup
  <2>1. work' = work \/ \E new : work' = WithSystems(work, new)
    BY <1>8 DEF Lookup, LookupAnswers, LookupFails, InsertFails
  <2>2. \A new : Numbers(WithSystems(work, new)) = Numbers(work)
    BY DEF Numbers, WithSystems, TypeOK, Rows
  <2>. QED
    BY <1>5, <1>8, <2>1, <2>2 DEF Lookup, Apart
<1>9. CASE UpsertCmdr /\ Checkpointed([work EXCEPT !.cmdrs = @ \cup {Tab.cmdr}])
  <2>1. Numbers([work EXCEPT !.cmdrs = @ \cup {Tab.cmdr}]) = Numbers(work)
    BY DEF Numbers, TypeOK, Rows
  <2>. QED
    BY <1>5, <1>9, <2>1 DEF UpsertCmdr, Checkpointed, Apart
<1>10. CASE /\ AddSurvey
            /\ \E survey : Checkpointed([work EXCEPT !.surveys = @ \cup {survey}])
  <2>1. \A survey : Numbers([work EXCEPT !.surveys = @ \cup {survey}]) = Numbers(work)
    BY DEF Numbers, TypeOK, Rows
  <2>. QED
    BY <1>5, <1>10, <2>1 DEF AddSurvey, Checkpointed, Apart
<1>11. CASE RecordSheetResult
            /\ Checkpointed([work EXCEPT !.results = @ \cup {[sheet |-> Sheet, ok |-> verdict]}])
  <2>. DEFINE result == [sheet |-> Sheet, ok |-> verdict]
  <2>1. result.sheet # 0
    BY <1>11, TabTyped DEF RecordSheetResult, Control, Sheet
  <2>2. work' = [work EXCEPT !.results = @ \cup {result}]
    BY <1>11 DEF Checkpointed
  <2>. HIDE DEF result
  <2>3. 0 \notin Numbers([work EXCEPT !.results = @ \cup {result}])
    BY <1>11, <2>1 DEF RecordSheetResult, Apart, Numbers, TypeOK, Rows
  <2>. QED
    BY <1>5, <1>11, <2>2, <2>3 DEF RecordSheetResult, Checkpointed
<1>12. CASE Close \/ Lose
  BY <1>12 DEF Close, Lose, Apart
<1>13. CASE UNCHANGED vars
  BY <1>13 DEF vars, Apart
<1>14. CASE NoMoreFiles \/ NoMoreTabs
  BY <1>14 DEF NoMoreFiles, NoMoreTabs, Apart, txn
<1>. QED
  <2>. USE DEF Checkpointed, RolledBack, MethodFails, CheckpointFails, txn
  <2>1. CASE AddSpreadsheet \/ AddSheet
    BY <1>4, <1>6, <1>7, <2>1 DEF AddSpreadsheet, AddSheet
  <2>2. CASE ParseSheet \/ Resolve \/ LookupProject
    BY <1>4, <2>2 DEF ParseSheet, Resolve, GiveUp, LookupProject
  <2>3. CASE UpsertCmdr
    BY <1>4, <1>9, <2>3 DEF UpsertCmdr
  <2>4. CASE AddSurvey
    BY <1>4, <1>10, <2>4 DEF AddSurvey
  <2>5. CASE RecordSheetResult
    BY <1>4, <1>11, <2>5 DEF RecordSheetResult
  <2>. QED
    BY <1>1, <1>2, <1>3, <1>8, <1>12, <1>13, <1>14, <2>1, <2>2, <2>3, <2>4, <2>5 DEF Next

(* What readers see is the earlier run of the folder, untouched, or a run  *)
(* with none of the earlier one's rows in it (processor.go:166-172).       *)
THEOREM CommittedWholeHolds == Spec => []CommittedWhole
<1>1. Init => Apart
  BY DEF Init, Apart, Whole, Numbers, OnTab, OnSurvey
<1>2. Apart => CommittedWhole
  BY DEF Apart, Whole, Numbers, CommittedWhole
<1>3. TypeOK /\ Control /\ Apart /\ [Next]_vars => Apart'
  BY ApartStep
<1>. QED
  BY <1>1, <1>2, <1>3, TypedControl, PTL DEF Spec

-----------------------------------------------------------------------------
(* Only systems are ever ahead of the checkpoint, so only they are lost in *)
(* a rollback.                                                             *)
Ahead ==
    /\ work.surveys = saved.surveys /\ work.results = saved.results
    /\ saved.systems \subseteq work.systems

(* What failures have paid for: two for a failed SAVEPOINT, one of which   *)
(* is still owed while the transaction is aborted between tabs.            *)
Slack ==
    faults + unsaved - (IF status = "failed" /\ pc \in {"file", "tab", "record"} THEN 1 ELSE 0)

(* What a step does to the tabs, the surveys and the results.              *)
Ledger == <<tabs, seen, work.surveys, work.results>>

Rest ==
    /\ UNCHANGED Ledger
    /\ pc' \in OnTab => pc \in OnTab
    /\ pc' \in OnSurvey => pc \in OnSurvey
    /\ pc \in OnTab \cup {"done"} => pc' \in OnTab \cup {"done"}
    /\ pc' = "parse" => pc = "parse"
    /\ pc' = "record" => verdict' = FALSE \/ (pc = "record" /\ verdict' = verdict)
    /\ Slack' >= Slack

Wipes ==
    /\ pc = "wipe" /\ pc' = "file" /\ UNCHANGED <<tabs, seen>>
    /\ work'.surveys = {} /\ work'.results = {}
    /\ Slack' >= Slack

Opens(content) ==
    /\ pc = "tab" /\ pc' = "parse" /\ content \in Survey \cup {Unparsable}
    /\ tabs' = Append(tabs, content)
    /\ UNCHANGED <<seen, work.surveys, work.results>>
    /\ Slack' >= Slack

(* The tab gets no sheet row.                                              *)
Passes(content) ==
    /\ pc = "tab" /\ pc' = "tab" /\ content \in Survey \cup {Unparsable}
    /\ tabs' = Append(tabs, content)
    /\ UNCHANGED <<seen, work.surveys, work.results>>
    /\ Slack' >= Slack + 1

Repeats == pc = "parse" /\ pc' = "tab" /\ Tab \in seen /\ UNCHANGED Ledger /\ Slack' >= Slack

Begins ==
    /\ pc = "parse" /\ pc' = "lookup" /\ Tab \notin seen /\ Tab \in Survey
    /\ seen' = seen \cup {Tab}
    /\ UNCHANGED <<tabs, work.surveys, work.results>>
    /\ Slack' >= Slack

(* The tab is left without a result.                                       *)
Leaves ==
    /\ pc \in {"parse", "resolved", "record"} /\ pc' = "tab"
    /\ seen' = IF pc = "parse" THEN seen \cup {Tab} ELSE seen
    /\ UNCHANGED <<tabs, work.surveys, work.results>>
    /\ Slack' >= Slack + 1

Stored == [sheet |-> Sheet, cmdr |-> Tab.cmdr, points |-> {s.edsm : s \in Mapped}]

Stores ==
    /\ pc = "survey" /\ pc' = "record" /\ verdict' = Outcome /\ ~Refused
    /\ work'.surveys = work.surveys \cup {Stored}
    /\ UNCHANGED <<tabs, seen, work.results, work.systems>>
    /\ Slack' >= Slack

Records ==
    /\ pc = "record" /\ pc' = "tab" /\ UNCHANGED <<tabs, seen, work.surveys>>
    /\ work'.results = work.results \cup {[sheet |-> Sheet, ok |-> verdict]}
    /\ Slack' >= Slack

(* A step that gives up, or goes on, with the rows there are.              *)
LEMMA KeptRows ==
    ASSUME TypeOK, Ahead, Checkpointed(work) \/ RolledBack \/ CheckpointFails \/ UNCHANGED txn
    PROVE  /\ work'.surveys = work.surveys /\ work'.results = work.results
           /\ saved'.surveys = saved.surveys /\ saved'.results = saved.results
           /\ saved.systems \subseteq saved'.systems /\ saved'.systems \subseteq work'.systems
           /\ work'.systems \in {work.systems, saved.systems}
           /\ saved'.systems \in {work.systems, saved.systems}
  BY DEF Ahead, Checkpointed, RolledBack, CheckpointFails, txn

LEMMA KeptByFailure ==
    ASSUME TypeOK, Ahead, NEW refused, MethodFails(refused)
    PROVE  /\ work'.surveys = work.surveys /\ work'.results = work.results
           /\ Ahead' /\ saved.systems \subseteq saved'.systems
<1>1. RolledBack \/ CheckpointFails
  BY DEF MethodFails
<1>. QED
  BY <1>1, KeptRows DEF Ahead

(* Failures add up, and a statement refused between tabs settles the debt. *)
LEMMA FailureCounts ==
    ASSUME TypeOK
    PROVE  /\ faults \in Nat /\ unsaved \in Nat
           /\ UNCHANGED failures => faults' = faults /\ unsaved' = unsaved
           /\ Fault => faults' = faults + 1 /\ unsaved' = unsaved
           /\ CheckpointFails => faults' = faults + 1 /\ unsaved' = unsaved + 1 /\ status = "open"
  BY BoundAssumption DEF TypeOK, Fault, CheckpointFails, failures

LEMMA RefusalPays ==
    ASSUME TypeOK, MethodFails(FALSE), pc \in {"file", "tab", "record"}
    PROVE  Slack' >= Slack + 1 /\ Slack' >= Slack
  BY FailureCounts DEF MethodFails, RolledBack, Slack

LEMMA SlackInt == TypeOK => Slack \in Int
  BY FailureCounts DEF Slack

LEMMA SlackIntNext == TypeOK' => Slack' \in Int
  BY BoundAssumption DEF Slack, TypeOK

LEMMA OnSurveyPays ==
    ASSUME TypeOK, NEW refused, MethodFails(refused), status = "open"
    PROVE  Slack' >= Slack
  BY FailureCounts DEF MethodFails, RolledBack, Slack

(* Every step, and that the table of systems only grows under checkpoint.  *)
LEMMA Effects ==
    ASSUME TypeOK, Control, Clean, Ahead, [Next]_vars
    PROVE  /\ \/ Rest \/ Wipes \/ (\E content : Opens(content) \/ Passes(content))
              \/ Repeats \/ Begins \/ Leaves \/ Stores \/ Records
           /\ Ahead' /\ saved.systems \subseteq saved'.systems
<1>. USE DEF OnTab, OnSurvey
<1>1. CASE StartLongTxn
  <2>1. Slack' >= Slack
    BY <1>1, FailureCounts DEF StartLongTxn, Slack
  <2>. QED
    BY <1>1, <2>1 DEF StartLongTxn, Control, Ahead, Rest, Ledger, txn
<1>2. CASE LoadVariants \/ ListFolder \/ NoMoreFiles \/ NoMoreTabs
  <2>1. Slack' >= Slack
    BY <1>2, FailureCounts DEF LoadVariants, ListFolder, NoMoreFiles, NoMoreTabs, Slack, txn
  <2>. QED
    BY <1>2, <2>1 DEF LoadVariants, ListFolder, NoMoreFiles, NoMoreTabs, Ahead, Rest, Ledger, txn
<1>3. CASE DeleteFolderSpreadsheets
  <2>1. CASE WipeFails
    <3>1. UNCHANGED Ledger /\ pc = "wipe" /\ pc' = "close"
      BY <1>3, <2>1, KeptByFailure DEF DeleteFolderSpreadsheets, WipeFails, Ledger
    <3>2. Slack' >= Slack
      BY <2>1, <3>1, FailureCounts DEF WipeFails, MethodFails, Slack
    <3>. QED
      BY <2>1, <3>1, <3>2, KeptByFailure DEF WipeFails, Rest
  <2>2. CASE Checkpointed(Wiped(work)) /\ pc' = "file" /\ UNCHANGED failures
    <3>1. /\ work'.surveys = {} /\ work'.results = {} /\ saved' = work'
          /\ work'.systems = work.systems /\ status' = "open"
      BY <2>2 DEF Checkpointed, Wiped, TypeOK, Rows
    <3>2. Slack' >= Slack
      BY <1>3, <2>2, <3>1, FailureCounts DEF DeleteFolderSpreadsheets, Slack
    <3>. QED
      BY <1>3, <2>2, <3>1, <3>2 DEF DeleteFolderSpreadsheets, Wipes, Ahead
  <2>. QED
    BY <1>3, <2>1, <2>2 DEF DeleteFolderSpreadsheets
<1>4. CASE AddSpreadsheet
  <2>1. CASE Checkpointed([work EXCEPT !.files = @ \cup {file + 1}]) /\ UNCHANGED failures
    <3>1. Slack' >= Slack
      BY <1>4, <2>1, FailureCounts DEF AddSpreadsheet, Checkpointed, Slack
    <3>. QED
      BY <1>4, <2>1, <3>1 DEF AddSpreadsheet, Checkpointed, TypeOK, Rows, Rest, Ledger, Ahead
  <2>2. CASE UNCHANGED <<pc, txn, failures>>
    <3>1. Slack' >= Slack
      BY <2>2, FailureCounts DEF Slack, txn
    <3>. QED
      BY <1>4, <2>2, <3>1, KeptRows DEF AddSpreadsheet, Rest, Ledger, Ahead
  <2>3. CASE MethodFails(FALSE) /\ pc' = "file"
    <3>1. Slack' >= Slack
      BY <1>4, <2>3, RefusalPays DEF AddSpreadsheet
    <3>2. UNCHANGED Ledger
      BY <1>4, <2>3, KeptByFailure DEF AddSpreadsheet, Ledger
    <3>3. pc = "file" /\ pc' = "file"
      BY <1>4, <2>3 DEF AddSpreadsheet
    <3>. QED
      BY <2>3, <3>1, <3>2, <3>3, KeptByFailure DEF Rest
  <2>. QED
    BY <1>4, <2>1, <2>2, <2>3 DEF AddSpreadsheet
<1>5. CASE AddSheet
  <2>0. PICK content \in Survey \cup {Unparsable} : tabs' = Append(tabs, content)
    BY <1>5 DEF AddSheet
  <2>1. CASE MethodFails(FALSE) /\ pc' = "tab"
    <3>1. Slack' >= Slack + 1
      BY <1>5, <2>1, RefusalPays DEF AddSheet
    <3>2. work'.surveys = work.surveys /\ work'.results = work.results
      BY <2>1, KeptByFailure
    <3>3. Passes(content)
      BY <1>5, <2>0, <2>1, <3>1, <3>2 DEF AddSheet, Passes
    <3>. QED
      BY <2>1, <3>3, KeptByFailure
  <2>2. CASE /\ Checkpointed([work EXCEPT !.sheets = @ \cup {Len(tabs) + 1}])
             /\ pc' = "parse" /\ UNCHANGED failures
    <3>1. /\ work'.surveys = work.surveys /\ work'.results = work.results
          /\ work'.systems = work.systems /\ saved' = work' /\ status = "open"
      BY <2>2 DEF Checkpointed, TypeOK, Rows
    <3>2. Slack' >= Slack
      BY <2>2, <3>1, FailureCounts DEF Slack
    <3>3. Opens(content)
      BY <1>5, <2>0, <2>2, <3>1, <3>2 DEF AddSheet, Opens
    <3>. QED
      BY <3>1, <3>3 DEF Ahead
  <2>. QED
    BY <1>5, <2>1, <2>2 DEF AddSheet
<1>6. CASE ParseSheet
  <2>0. status = "open" /\ pc = "parse" /\ tabs' = tabs
    BY <1>6 DEF ParseSheet, Clean
  <2>1. CASE Tab = Unparsable /\ pc' = "record" /\ UNCHANGED <<txn, seen, failures>>
    <3>1. Slack' >= Slack
      BY <2>0, <2>1, FailureCounts DEF Slack, txn
    <3>. QED
      BY <1>6, <2>1, <3>1, KeptRows DEF ParseSheet, Rest, Ledger, Ahead
  <2>2. CASE Tab \in seen /\ pc' = "tab" /\ UNCHANGED <<txn, seen, failures>>
    <3>1. Slack' >= Slack
      BY <2>0, <2>2, FailureCounts DEF Slack, txn
    <3>. QED
      BY <1>6, <2>2, <3>1, KeptRows DEF ParseSheet, Repeats, Ledger, Ahead
  <2>3. CASE /\ Tab \in Survey \ seen /\ seen' = Recorded(Tab)
             /\ Checkpointed(work) /\ pc' = "lookup" /\ UNCHANGED failures
    <3>1. Slack' >= Slack
      BY <2>0, <2>3, FailureCounts DEF Slack
    <3>. QED
      BY <1>6, <2>3, <3>1, KeptRows DEF ParseSheet, Begins, Recorded, Ahead
  <2>4. CASE /\ Tab \in Survey \ seen /\ seen' = Recorded(Tab)
             /\ CheckpointFails /\ pc' = "tab"
    <3>1. Slack' >= Slack + 1
      BY <2>0, <2>4, FailureCounts DEF Slack
    <3>. QED
      BY <2>0, <2>4, <3>1, KeptRows DEF Leaves, Recorded, Ahead
  <2>. QED
    BY <1>6, <2>1, <2>2, <2>3, <2>4 DEF ParseSheet
<1>7. CASE Lookup
  <2>1. work' = work \/ \E new : work' = WithSystems(work, new)
    BY <1>7 DEF Lookup, LookupAnswers, LookupFails, InsertFails
  <2>2. \A new : /\ WithSystems(work, new).systems = work.systems \cup new
                 /\ WithSystems(work, new).surveys = work.surveys
                 /\ WithSystems(work, new).results = work.results
    BY DEF WithSystems, TypeOK, Rows
  <2>3. /\ work'.surveys = work.surveys /\ work'.results = work.results
        /\ work.systems \subseteq work'.systems /\ saved' = saved
    BY <1>7, <2>1, <2>2 DEF Lookup
  <2>4. Slack' >= Slack
    BY <1>7, LookupStepTyped, FailureCounts DEF Lookup, Slack
  <2>. QED
    BY <1>7, <2>3, <2>4 DEF Lookup, Rest, Ledger, Ahead
<1>8. CASE Resolve
  <2>0. pc = "resolved" /\ UNCHANGED <<tabs, seen>>
    BY <1>8 DEF Resolve
  <2>1. CASE GiveUp /\ UNCHANGED failures
    <3>1. Slack' >= Slack
      BY <2>0, <2>1, FailureCounts DEF GiveUp, RolledBack, Slack
    <3>. QED
      BY <2>0, <2>1, <3>1, KeptRows DEF GiveUp, Rest, Ledger, Ahead
  <2>2. CASE Checkpointed(work) /\ pc' = "project" /\ UNCHANGED failures
    <3>1. Slack' >= Slack
      BY <2>0, <2>2, FailureCounts DEF Slack
    <3>. QED
      BY <2>0, <2>2, <3>1, KeptRows DEF Rest, Ledger, Ahead
  <2>3. CASE CheckpointFails /\ pc' = "tab"
    <3>1. Slack' >= Slack + 1
      BY <2>0, <2>3, FailureCounts DEF Slack
    <3>. QED
      BY <2>0, <2>3, <3>1, KeptRows DEF Leaves, Ahead
  <2>. QED
    BY <1>8, <2>1, <2>2, <2>3 DEF Resolve
<1>9. CASE LookupProject
  <2>0. status = "open" /\ pc = "project" /\ UNCHANGED <<tabs, seen>>
    BY <1>9 DEF LookupProject, Clean
  <2>1. CASE pc' = "cmdr" /\ UNCHANGED <<txn, verdict, failures>>
    <3>1. Slack' >= Slack
      BY <2>0, <2>1, FailureCounts DEF Slack
    <3>. QED
      BY <2>0, <2>1, <3>1, KeptRows DEF Rest, Ledger, Ahead
  <2>2. CASE Fault /\ RolledBack /\ verdict' = FALSE /\ pc' = "record"
    <3>1. Slack' >= Slack
      BY <2>0, <2>2, FailureCounts DEF RolledBack, Slack
    <3>. QED
      BY <2>0, <2>2, <3>1, KeptRows DEF Rest, Ledger, Ahead
  <2>. QED
    BY <1>9, <2>1, <2>2 DEF LookupProject
<1>10. CASE UpsertCmdr
  <2>0. status = "open" /\ pc = "cmdr" /\ UNCHANGED <<tabs, seen>>
    BY <1>10 DEF UpsertCmdr, Clean
  <2>1. ASSUME NEW refused, MethodFails(refused), verdict' = FALSE, pc' = "record"
        PROVE  Rest /\ Ahead' /\ saved.systems \subseteq saved'.systems
    <3>1. Slack' >= Slack
      BY <2>0, <2>1, OnSurveyPays
    <3>. QED
      BY <2>0, <2>1, <3>1, KeptByFailure DEF Rest, Ledger
  <2>2. CASE /\ Checkpointed([work EXCEPT !.cmdrs = @ \cup {Tab.cmdr}])
             /\ pc' = "survey" /\ UNCHANGED failures
    <3>1. Slack' >= Slack
      BY <2>0, <2>2, FailureCounts DEF Slack
    <3>. QED
      BY <2>0, <2>2, <3>1 DEF Checkpointed, TypeOK, Rows, Rest, Ledger, Ahead
  <2>. QED
    BY <1>10, <2>1, <2>2 DEF UpsertCmdr
<1>11. CASE AddSurvey
  <2>0. status = "open" /\ pc = "survey" /\ pc' = "record" /\ UNCHANGED <<tabs, seen>>
    BY <1>11 DEF AddSurvey, Clean
  <2>1. CASE MethodFails(Refused) /\ verdict' = FALSE
    <3>1. Slack' >= Slack
      BY <2>0, <2>1, OnSurveyPays
    <3>. QED
      BY <2>0, <2>1, <3>1, KeptByFailure DEF Rest, Ledger
  <2>2. CASE /\ ~Refused /\ verdict' = Outcome /\ UNCHANGED failures
             /\ Checkpointed([work EXCEPT !.surveys = @ \cup {Stored}])
    <3>. HIDE DEF Stored
    <3>1. /\ work'.surveys = work.surveys \cup {Stored} /\ work'.results = work.results
          /\ work'.systems = work.systems /\ saved' = work' /\ status' = status
      BY <2>2 DEF Checkpointed, TypeOK, Rows
    <3>2. Slack' >= Slack
      BY <2>0, <2>2, <3>1, FailureCounts DEF Slack
    <3>. QED
      BY <2>0, <2>2, <3>1, <3>2 DEF Stores, Ahead
  <2>. QED
    BY <1>11, <2>1, <2>2 DEF AddSurvey, Stored
<1>12. CASE RecordSheetResult
  <2>0. pc = "record" /\ pc' = "tab" /\ UNCHANGED <<tabs, seen>>
    BY <1>12 DEF RecordSheetResult
  <2>1. CASE MethodFails(FALSE)
    <3>1. Slack' >= Slack + 1
      BY <2>0, <2>1, RefusalPays
    <3>. QED
      BY <2>0, <2>1, <3>1, KeptByFailure DEF Leaves
  <2>2. CASE /\ Checkpointed([work EXCEPT !.results = @ \cup {[sheet |-> Sheet, ok |-> verdict]}])
             /\ UNCHANGED failures
    <3>1. /\ work'.results = work.results \cup {[sheet |-> Sheet, ok |-> verdict]}
          /\ work'.surveys = work.surveys
          /\ work'.systems = work.systems /\ saved' = work' /\ status' = status
      BY <2>2 DEF Checkpointed, TypeOK, Rows
    <3>2. Slack' >= Slack
      BY <2>0, <2>2, <3>1, FailureCounts DEF Slack
    <3>. QED
      BY <2>0, <3>1, <3>2 DEF Records, Ahead
  <2>. QED
    BY <1>12, <2>1, <2>2 DEF RecordSheetResult
<1>13. CASE Close \/ Lose
  <2>1. Slack' >= Slack
    BY <1>13, FailureCounts DEF Close, Lose, Slack
  <2>. QED
    BY <1>13, <2>1 DEF Close, Lose, Rest, Ledger, Ahead
<1>14. CASE UNCHANGED vars
  <2>1. Slack' >= Slack
    BY <1>14, FailureCounts DEF vars, Slack
  <2>. QED
    BY <1>14, <2>1 DEF vars, Rest, Ledger, Ahead
<1>. QED
  BY <1>1, <1>2, <1>3, <1>4, <1>5, <1>6, <1>7, <1>8, <1>9, <1>10, <1>11, <1>12, <1>13, <1>14 DEF Next

-----------------------------------------------------------------------------
(* Results and surveys belong to tabs; what is being stored was never seen *)
(* before, all that is stored was.                                         *)
Book ==
    /\ \A r \in work.results : r.sheet <= Len(tabs) /\ (pc \in OnTab => r.sheet < Len(tabs))
    /\ \A w \in work.surveys :
           /\ w.sheet \in Tabs /\ tabs[w.sheet] \in seen
           /\ pc \in OnSurvey => tabs[w.sheet] # Tab
    /\ pc \in OnSurvey => Tab \in seen
    /\ NoDoubleCount

(* Appending a tab leaves the others where they are.                       *)
LEMMA OpenedTabs ==
    ASSUME TypeOK, NEW content, Opens(content) \/ Passes(content)
    PROVE  /\ Len(tabs') = Len(tabs) + 1 /\ Len(tabs) \in Nat
           /\ Tabs' = Tabs \cup {Len(tabs')}
           /\ \A n \in Tabs : n < Len(tabs') /\ tabs'[n] = tabs[n]
           /\ tabs'[Len(tabs')] = content
<1>1. tabs \in Seq(Survey \cup {Unparsable}) /\ content \in Survey \cup {Unparsable}
  BY DEF TypeOK, Opens, Passes
<1>. QED
  BY <1>1 DEF Opens, Passes, Tabs

LEMMA ResultSheets ==
    ASSUME TypeOK, NEW r \in work.results PROVE r.sheet \in Nat /\ r.ok \in BOOLEAN
<1>1. r \in [sheet : SheetNo, ok : BOOLEAN]
  BY DEF TypeOK, Rows
<1>. QED
  BY <1>1, BoundAssumption DEF SheetNo

LEMMA BookStep ==
    ASSUME TypeOK, Control, Clean, Ahead, Book, [Next]_vars
    PROVE  Book'
<1>. USE DEF OnTab, OnSurvey
<1>0. \A r \in work.results : r.sheet \in Nat
  BY ResultSheets
<1>1. CASE Rest
  <2>1. UNCHANGED <<tabs, seen, work.surveys, work.results>>
    BY <1>1 DEF Rest, Ledger
  <2>. QED
    BY <1>1, <2>1 DEF Rest, Book, NoDoubleCount, Tab, Tabs
<1>2. CASE Wipes
  BY <1>2 DEF Wipes, Book, NoDoubleCount
<1>3. ASSUME NEW content, Opens(content) \/ Passes(content) PROVE Book'
  <2>1. /\ Len(tabs') = Len(tabs) + 1 /\ Len(tabs) \in Nat
        /\ Tabs' = Tabs \cup {Len(tabs')}
        /\ \A n \in Tabs : n < Len(tabs') /\ tabs'[n] = tabs[n]
    BY <1>3, OpenedTabs
  <2>2. pc' \in {"parse", "tab"} /\ UNCHANGED <<seen, work.surveys, work.results>>
    BY <1>3 DEF Opens, Passes
  <2>3. \A r \in work'.results : r.sheet <= Len(tabs') /\ r.sheet < Len(tabs')
    BY <1>0, <2>1, <2>2 DEF Book
  <2>4. \A w \in work.surveys : w.sheet \in Tabs' /\ tabs'[w.sheet] = tabs[w.sheet]
    BY <2>1 DEF Book
  <2>. QED
    BY <2>2, <2>3, <2>4 DEF Book, NoDoubleCount
<1>4. CASE Repeats
  <2>1. UNCHANGED <<tabs, seen, work.surveys, work.results>> /\ pc' = "tab"
    BY <1>4 DEF Repeats, Ledger
  <2>. QED
    BY <2>1 DEF Book, NoDoubleCount, Tabs
<1>5. CASE Begins
  BY <1>5 DEF Begins, Book, NoDoubleCount, Tab, Tabs
<1>8. CASE Leaves
  <2>1. /\ UNCHANGED <<tabs, work.surveys, work.results>> /\ pc' = "tab"
        /\ seen \subseteq seen'
    BY <1>8 DEF Leaves
  <2>. QED
    BY <2>1 DEF Book, NoDoubleCount, Tabs
<1>6. CASE Stores
  <2>. DEFINE survey == Stored
  <2>1. survey.sheet = Len(tabs) /\ Len(tabs) \in Tabs /\ tabs[survey.sheet] = Tab
    BY <1>6, TabTyped DEF Stored, Sheet, Stores, Control, Tab, Tabs
  <2>. HIDE DEF survey
  <2>2. work'.surveys = work.surveys \cup {survey}
    BY <1>6 DEF Stores, survey
  <2>3. UNCHANGED <<tabs, seen, work.results>> /\ pc' = "record" /\ pc = "survey"
    BY <1>6 DEF Stores
  <2>4. \A w \in work.surveys : tabs[w.sheet] # tabs[survey.sheet]
    BY <2>1, <2>3 DEF Book
  <2>5. NoDoubleCount'
    BY <2>2, <2>3, <2>4 DEF Book, NoDoubleCount
  <2>. QED
    BY <2>1, <2>2, <2>3, <2>5 DEF Book, Tabs
<1>7. CASE Records
  <2>1. UNCHANGED <<tabs, seen, work.surveys>> /\ pc' = "tab" /\ Len(tabs) \in Nat
    BY <1>7 DEF Records, TypeOK
  <2>. DEFINE result == [sheet |-> Sheet, ok |-> verdict]
  <2>2. result.sheet = Len(tabs)
    BY DEF Sheet
  <2>. HIDE DEF result
  <2>3. work'.results \subseteq work.results \cup {result}
    BY <1>7 DEF Records, result
  <2>. QED
    BY <2>1, <2>2, <2>3 DEF Book, NoDoubleCount, Tabs
<1>. QED
  BY <1>1, <1>2, <1>3, <1>4, <1>5, <1>6, <1>7, <1>8, Effects

LEMMA BookInit == Init => Ahead /\ Book
<1>. SUFFICES ASSUME Init PROVE Ahead /\ Book
  OBVIOUS
<1>1. /\ work.surveys = {} /\ work.results = {[sheet |-> 0, ok |-> TRUE]} /\ saved = work
      /\ pc = "start" /\ tabs = <<>>
  BY DEF Init
<1>. QED
  BY <1>1 DEF Ahead, Book, NoDoubleCount, OnTab, OnSurvey

LEMMA BookHolds == Spec => [](TypeOK /\ Control /\ Clean /\ Ahead /\ Book)
<1>1. TypeOK /\ Control /\ Clean /\ Ahead /\ Book /\ [Next]_vars => Ahead' /\ Book'
  BY BookStep, Effects
<1>. QED
  BY <1>1, BookInit, CleanHolds, PTL DEF Spec

(* A survey found in several files is stored once (processor.go:257-261,   *)
(* the surveyCache).                                                       *)
THEOREM NoDoubleCountHolds == Spec => []NoDoubleCount
<1>1. Book => NoDoubleCount
  BY DEF Book
<1>. QED
  BY <1>1, BookHolds, PTL

-----------------------------------------------------------------------------
(* Tabs left behind without a result are paid for; every survey seen is in *)
(* a tab, an earlier one while the current tab is not looked up.           *)
Behind == IF pc \in OnTab \cup {"done"} THEN 1..(Len(tabs) - 1) ELSE Tabs
Lost == Unaccounted \cap Behind

Account ==
    /\ Cardinality(Lost) <= Slack
    /\ \A survey \in seen : \E n \in Tabs :
           tabs[n] = survey /\ (pc = "parse" => n < Len(tabs))

LEMMA LostFinite == TypeOK => IsFiniteSet(Lost) /\ Cardinality(Lost) \in Nat
<1>. SUFFICES ASSUME TypeOK PROVE IsFiniteSet(Lost) /\ Cardinality(Lost) \in Nat
  OBVIOUS
<1>1. IsFiniteSet(Tabs) /\ Lost \subseteq Tabs
  BY FS_Interval DEF TypeOK, Tabs, Lost, Unaccounted
<1>. QED
  BY <1>1, FS_Subset, FS_CardinalityType

LEMMA LostFiniteNext == TypeOK' => Cardinality(Lost') \in Nat
<1>1. (TypeOK => Cardinality(Lost) \in Nat)'
  BY LostFinite, PTL
<1>. QED
  BY <1>1

(* A tab has lost its result only if it had before, or is left just now.   *)
LEMMA LostFewer ==
    ASSUME TypeOK, TypeOK', Lost' \subseteq Lost
    PROVE  Cardinality(Lost') <= Cardinality(Lost)
  BY LostFinite, FS_Subset

LEMMA LostOne ==
    ASSUME TypeOK, TypeOK', NEW n, Lost' \subseteq Lost \cup {n}
    PROVE  Cardinality(Lost') <= Cardinality(Lost) + 1
<1>1. IsFiniteSet(Lost) /\ Cardinality(Lost) \in Nat
  BY LostFinite
<1>2. /\ IsFiniteSet(Lost \cup {n})
      /\ Cardinality(Lost \cup {n}) \in {Cardinality(Lost), Cardinality(Lost) + 1}
  BY <1>1, FS_AddElement
<1>3. Cardinality(Lost') <= Cardinality(Lost \cup {n}) /\ Cardinality(Lost') \in Nat
  BY <1>2, FS_Subset, FS_CardinalityType
<1>. QED
  BY <1>1, <1>2, <1>3

(* Tabs stay what they are, and keep the results they have.                *)
LEMMA StillAccounted ==
    ASSUME TypeOK, \A n \in Tabs : n \in Tabs' /\ tabs'[n] = tabs[n],
           work.results \subseteq work'.results
    PROVE  Unaccounted' \cap Tabs \subseteq Unaccounted
<1>1. \A n \in Tabs : \A m \in 1..(n - 1) : m \in Tabs
  BY DEF Tabs, TypeOK
<1>2. \A n : HasResult(n) => HasResult(n)'
  BY DEF HasResult
<1>. QED
  BY <1>1, <1>2 DEF Unaccounted

LEMMA AccountStep ==
    ASSUME TypeOK, TypeOK', Control, Clean, Ahead, Account, [Next]_vars
    PROVE  Account'
<1>. USE DEF OnTab, OnSurvey
<1>0. /\ Len(tabs) \in Nat /\ Slack \in Int /\ Slack' \in Int
      /\ Cardinality(Lost) \in Nat /\ Cardinality(Lost') \in Nat
  <2>1. Slack \in Int /\ Cardinality(Lost) \in Nat
    BY SlackInt, LostFinite
  <2>2. Slack' \in Int /\ Cardinality(Lost') \in Nat
    BY SlackIntNext, LostFiniteNext
  <2>. QED
    BY <2>1, <2>2 DEF TypeOK
<1>a. ASSUME Lost' \subseteq Lost, Slack' >= Slack PROVE Cardinality(Lost') <= Slack'
  BY <1>0, <1>a, LostFewer DEF Account
<1>b. ASSUME NEW n, Lost' \subseteq Lost \cup {n}, Slack' >= Slack + 1
      PROVE  Cardinality(Lost') <= Slack'
  <2>1. Cardinality(Lost') <= Cardinality(Lost) + 1
    BY <1>b, LostOne
  <2>2. Cardinality(Lost) <= Slack
    BY DEF Account
  <2>. QED
    BY <1>0, <1>b, <2>1, <2>2
<1>c. ASSUME UNCHANGED tabs, work.results \subseteq work'.results
      PROVE  Tabs' = Tabs /\ Unaccounted' \subseteq Unaccounted
  <2>1. Tabs' = Tabs /\ Unaccounted' \subseteq Tabs'
    BY <1>c DEF Tabs, Unaccounted
  <2>2. \A n \in Tabs : n \in Tabs' /\ tabs'[n] = tabs[n]
    BY <1>c, <2>1
  <2>. QED
    BY <1>c, <2>1, <2>2, StillAccounted
<1>1. CASE Rest
  <2>1. UNCHANGED <<tabs, seen, work.results>> /\ Slack' >= Slack
    BY <1>1 DEF Rest, Ledger
  <2>2. Behind' \subseteq Behind
    BY <1>0, <1>1, <2>1 DEF Rest, Behind, Tabs
  <2>3. Cardinality(Lost') <= Slack'
    BY <1>a, <1>c, <2>1, <2>2 DEF Lost
  <2>. QED
    BY <1>1, <2>1, <2>3 DEF Account, Rest, Tabs
<1>2. CASE Wipes
  <2>1. Tabs' = {} /\ seen' = {} /\ Slack' >= Slack
    BY <1>2 DEF Wipes, Control, Early, Tabs
  <2>2. Lost' \subseteq Lost
    BY <2>1 DEF Lost, Unaccounted
  <2>. QED
    BY <1>a, <2>1, <2>2 DEF Account
<1>3. ASSUME NEW content, Opens(content) \/ Passes(content) PROVE Account'
  <2>1. /\ Len(tabs') = Len(tabs) + 1
        /\ Tabs' = Tabs \cup {Len(tabs')} /\ \A n \in Tabs : n < Len(tabs') /\ tabs'[n] = tabs[n]
    BY <1>3, OpenedTabs
  <2>2. pc = "tab" /\ UNCHANGED <<seen, work.results>>
    BY <1>3 DEF Opens, Passes
  <2>3. Unaccounted' \cap Tabs \subseteq Unaccounted /\ Behind = Tabs
    BY <2>1, <2>2, StillAccounted DEF Behind
  <2>4. CASE Opens(content)
    <3>1. Behind' = Tabs
      BY <1>0, <2>1, <2>4 DEF Opens, Behind, Tabs
    <3>. QED
      BY <1>a, <2>1, <2>2, <2>3, <2>4, <3>1 DEF Account, Lost, Opens
  <2>5. CASE Passes(content)
    <3>1. Lost' \subseteq Lost \cup {Len(tabs')}
      BY <2>1, <2>3, <2>5 DEF Lost, Passes, Behind
    <3>2. Cardinality(Lost') <= Slack'
      BY <1>b, <2>5, <3>1 DEF Passes
    <3>. QED
      BY <2>1, <2>2, <2>5, <3>2 DEF Account, Passes
  <2>. QED
    BY <1>3, <2>4, <2>5
<1>4. CASE Repeats
  <2>1. /\ UNCHANGED <<tabs, seen, work.results>> /\ Slack' >= Slack
        /\ pc = "parse" /\ pc' = "tab" /\ Tab \in seen
    BY <1>4 DEF Repeats, Ledger
  <2>2. PICK m \in Tabs : tabs[m] = Tab /\ m < Len(tabs)
    BY <2>1 DEF Account
  <2>3. Tab # Unparsable /\ m \in 1..(Len(tabs) - 1)
    BY <1>0, <2>1, <2>2, SurveyAssumption, UnparsableAssumption DEF TypeOK, Tabs
  <2>4. Len(tabs) \notin Unaccounted'
    BY <2>1, <2>2, <2>3 DEF Unaccounted, Tab
  <2>5. Lost' \subseteq Lost
    BY <1>0, <1>c, <2>1, <2>4 DEF Lost, Behind, Tabs
  <2>. QED
    BY <1>a, <2>1, <2>5 DEF Account, Tabs
<1>5. CASE Begins
  <2>1. /\ UNCHANGED <<tabs, work.results>> /\ seen' = seen \cup {Tab} /\ Slack' >= Slack
        /\ pc = "parse" /\ pc' = "lookup"
    BY <1>5 DEF Begins
  <2>2. Len(tabs) \in Tabs /\ tabs[Len(tabs)] = Tab
    BY <2>1, TabTyped DEF Control, Tab, Tabs
  <2>3. Lost' \subseteq Lost
    BY <1>c, <2>1 DEF Lost, Behind
  <2>. QED
    BY <1>a, <2>1, <2>2, <2>3 DEF Account, Tabs
<1>6. CASE Stores
  <2>1. UNCHANGED <<tabs, seen, work.results>> /\ pc' = "record" /\ pc = "survey" /\ Slack' >= Slack
    BY <1>6 DEF Stores
  <2>2. Lost' \subseteq Lost
    BY <1>c, <2>1 DEF Lost, Behind
  <2>. QED
    BY <1>a, <2>1, <2>2 DEF Account, Tabs
<1>7. CASE Records
  <2>1. /\ UNCHANGED <<tabs, seen>> /\ pc = "record" /\ pc' = "tab" /\ Slack' >= Slack
        /\ work.results \subseteq work'.results
    BY <1>7 DEF Records
  <2>2. Len(tabs) \notin Unaccounted'
    <3>1. PICK result \in work'.results : result.sheet = Len(tabs)
      <4>1. [sheet |-> Sheet, ok |-> verdict] \in work'.results
        BY <1>7 DEF Records
      <4>. QED
        BY <4>1 DEF Sheet
    <3>. QED
      BY <3>1 DEF Unaccounted, HasResult
  <2>3. Lost' \subseteq Lost
    BY <1>0, <1>c, <2>1, <2>2 DEF Lost, Behind, Tabs
  <2>. QED
    BY <1>a, <2>1, <2>3 DEF Account, Tabs
<1>8. CASE Leaves
  <2>1. /\ UNCHANGED <<tabs, work.results>> /\ pc' = "tab" /\ Slack' >= Slack + 1
        /\ pc \in {"parse", "resolved", "record"} /\ seen' \subseteq seen \cup {Tab}
    BY <1>8 DEF Leaves
  <2>2. Lost' \subseteq Lost \cup {Len(tabs)}
    BY <1>0, <1>c, <2>1 DEF Lost, Behind, Tabs
  <2>3. Len(tabs) \in Tabs /\ tabs[Len(tabs)] = Tab
    BY <2>1, TabTyped DEF Control, Tab, Tabs
  <2>. QED
    BY <1>b, <2>1, <2>2, <2>3 DEF Account, Tabs
<1>. QED
  BY <1>1, <1>2, <1>3, <1>4, <1>5, <1>6, <1>7, <1>8, Effects

(* No tab is passed over in silence, through whichever branch process()    *)
(* leaves it: each failure costs at most one result, and a failed          *)
(* SAVEPOINT one more (processor.go:232-389).                              *)
THEOREM EveryTabAccountedHolds == Spec => []EveryTabAccounted
<1>1. Init => Account
  <2>. SUFFICES ASSUME Init PROVE Account
    OBVIOUS
  <2>1. Tabs = {} /\ seen = {} /\ Slack = 0
    BY DEF Init, Tabs, Slack
  <2>2. Cardinality(Lost) = 0
    BY <2>1, FS_EmptySet DEF Lost, Unaccounted
  <2>. QED
    BY <2>1, <2>2 DEF Account
<1>2. TypeOK /\ Account => EveryTabAccounted
  <2>. SUFFICES ASSUME TypeOK, Account, pc \in {"file", "tab", "close"}
                PROVE  Cardinality(Unaccounted) <= faults + unsaved
    BY DEF EveryTabAccounted
  <2>1. Lost = Unaccounted
    BY DEF Lost, Behind, Unaccounted, OnTab, OnSurvey
  <2>2. Slack <= faults + unsaved /\ Slack \in Int /\ Cardinality(Lost) \in Nat
    BY FailureCounts, SlackInt, LostFinite DEF Slack
  <2>. QED
    BY <2>1, <2>2, FailureCounts DEF Account
<1>3. TypeOK /\ TypeOK' /\ Control /\ Clean /\ Ahead /\ Account /\ [Next]_vars => Account'
  BY AccountStep
<1>. QED
  BY <1>1, <1>2, <1>3, BookHolds, PTL DEF Spec

-----------------------------------------------------------------------------
(* Where systems come from.  One that is only in the cache, because its    *)
(* insert was rolled back, or not yet under the checkpoint, is one EDSM    *)
(* answered for under its own name.                                        *)
Fresh(n) == edsm[n] # Absent /\ edsm[n].name = n /\ edsm[n].coords

Origin == \A s \in cache \cup work.systems : s \in saved.systems \/ Fresh(s.name)

LEMMA RowForOrigin ==
    ASSUME TypeOK, Control, Origin, pc = "lookup", NEW d \in Located
    PROVE  /\ RowFor(d) \in saved.systems \/ Fresh(RowFor(d).name)
           /\ RowFor(d).edsm = d.edsm
<1>1. PICK n \in Name : n \in Missing /\ edsm[n] # Absent /\ d = edsm[n] /\ d.coords
  BY LookupTyped DEF Located, Data
<1>2. RowFor(d).edsm = d.edsm
  BY <1>1, RowForTyped
<1>3. CASE RowFor(d) \in work.systems
  BY <1>2, <1>3 DEF Origin
<1>4. CASE RowFor(d) = [edsm |-> d.edsm, name |-> d.name]
  <2>1. edsm[d.name] = d
    BY <1>1 DEF Control, Consistent
  <2>2. Fresh(d.name)
    BY <1>1, <2>1 DEF Fresh
  <2>. QED
    BY <1>2, <1>4, <2>2
<1>. QED
  BY <1>1, <1>3, <1>4, RowForTyped

(* Steps other than Lookup only lose systems, and forget nothing.          *)
LEMMA OtherSteps ==
    ASSUME TypeOK, Control, Ahead, [Next]_vars, ~Lookup
    PROVE  /\ UNCHANGED <<edsm, cache, found, lookupErr>>
           /\ work'.systems \subseteq work.systems
           /\ pc' \in {"resolved", "project", "cmdr", "survey"} =>
                  /\ pc \in {"resolved", "project", "cmdr", "survey"}
                  /\ UNCHANGED tabs /\ work'.systems = work.systems
<1>. USE DEF resolution, txn, Checkpointed, RolledBack, MethodFails, CheckpointFails
<1>1. CASE StartLongTxn \/ LoadVariants \/ ListFolder
  BY <1>1 DEF StartLongTxn, LoadVariants, ListFolder, Control
<1>2. CASE DeleteFolderSpreadsheets
  BY <1>2 DEF DeleteFolderSpreadsheets, WipeFails, Wiped, Ahead, TypeOK, Rows
<1>3. CASE AddSpreadsheet \/ NoMoreFiles
  BY <1>3 DEF AddSpreadsheet, NoMoreFiles, Ahead, TypeOK, Rows
<1>4. CASE AddSheet \/ NoMoreTabs
  BY <1>4 DEF AddSheet, NoMoreTabs, Ahead, TypeOK, Rows
<1>5. CASE ParseSheet
  BY <1>5 DEF ParseSheet
<1>6. CASE Resolve \/ LookupProject
  BY <1>6 DEF Resolve, GiveUp, LookupProject, Ahead
<1>7. CASE UpsertCmdr
  BY <1>7 DEF UpsertCmdr, Ahead, TypeOK, Rows
<1>8. CASE AddSurvey
  BY <1>8 DEF AddSurvey, Ahead, TypeOK, Rows
<1>9. CASE RecordSheetResult
  BY <1>9 DEF RecordSheetResult, Ahead, TypeOK, Rows
<1>10. CASE Close \/ Lose
  BY <1>10 DEF Close, Lose
<1>11. CASE UNCHANGED vars
  BY <1>11 DEF vars
<1>. QED
  BY <1>1, <1>2, <1>3, <1>4, <1>5, <1>6, <1>7, <1>8, <1>9, <1>10, <1>11 DEF Next

LEMMA OriginStep ==
    ASSUME TypeOK, Control, Clean, Ahead, Origin, [Next]_vars
    PROVE  Origin'
<1>1. saved.systems \subseteq saved'.systems
  BY Effects
<1>2. CASE ~Lookup
  BY <1>1, <1>2, OtherSteps DEF Origin, Fresh
<1>3. CASE Lookup
  <2>1. \A new : WithSystems(work, new).systems = work.systems \cup new
    BY DEF WithSystems, TypeOK, Rows
  <2>2. /\ cache' \subseteq cache \cup DbHits \cup RowsFor(Located)
        /\ work'.systems \subseteq work.systems \cup RowsFor(Located)
        /\ edsm' = edsm
    <3>1. \A done \in SUBSET Located : RowsFor(done) \subseteq RowsFor(Located)
      BY DEF RowsFor
    <3>2. CASE LookupAnswers
      BY <1>3, <2>1, <3>2 DEF Lookup, LookupAnswers
    <3>3. CASE LookupFails
      BY <1>3, <2>1, <3>1, <3>3 DEF Lookup, LookupFails, InsertFails
    <3>. QED
      BY <1>3, <3>2, <3>3 DEF Lookup
  <2>3. DbHits \subseteq work.systems
    BY DEF DbHits, Named
  <2>4. \A s \in RowsFor(Located) : s \in saved.systems \/ Fresh(s.name)
    BY <1>3, RowForOrigin DEF RowsFor, Lookup
  <2>5. \A s \in cache' \cup work'.systems : s \in saved.systems \/ Fresh(s.name)
    BY <2>2, <2>3, <2>4 DEF Origin
  <2>. QED
    BY <1>1, <2>2, <2>5 DEF Origin, Fresh
<1>. QED
  BY <1>2, <1>3

-----------------------------------------------------------------------------
(* A lookup without an error knows every system of the tab, and returns    *)
(* each one unless it goes by another name.                                *)
Renamed(n, rows) ==
    edsm[n] # Absent /\ \E s \in rows.systems : s.edsm = edsm[n].edsm /\ s.name # n

Complete ==
    pc \in {"resolved", "project", "cmdr", "survey"} /\ lookupErr = FALSE =>
        \A n \in Tab.points : Resolvable(n) /\ (n \in NamesOf(found) \/ Renamed(n, work))

LEMMA LookupComplete ==
    ASSUME TypeOK, Control, Clean, Ahead, Origin, Lookup, lookupErr' = FALSE,
           NEW n \in Tab.points
    PROVE  Resolvable(n)' /\ (n \in NamesOf(found') \/ Renamed(n, work)')
<1>1. LookupAnswers /\ pc = "lookup"
  BY DEF Lookup, LookupFails
<1>2. Missing \subseteq NamesOf(Data) /\ Located = Data
  BY <1>1 DEF LookupAnswers, Incomplete
<1>3. work'.systems = work.systems \cup RowsFor(Located) /\ edsm' = edsm
  BY <1>1 DEF LookupAnswers, Lookup, WithSystems, TypeOK, Rows
<1>4. Tab \in Survey /\ n \in Name
  BY <1>1, SurveyFields DEF Control, OnSurvey
<1>5. CASE n \in Missing
  <2>1. PICK m \in Missing : edsm[m] # Absent /\ edsm[m].name = n /\ edsm[m] \in Located
    BY <1>2, <1>5 DEF NamesOf, Data
  <2>2. m \in Name /\ edsm[n] = edsm[m]
    BY <1>1, <2>1, LookupTyped DEF Control, Consistent
  <2>3. edsm[n].coords /\ edsm[n] \in Located
    BY <2>1, <2>2 DEF Located
  <2>4. /\ RowFor(edsm[n]) \in found' /\ RowFor(edsm[n]) \in work'.systems
        /\ RowFor(edsm[n]).edsm = edsm[n].edsm
    BY <1>1, <1>3, <2>3, RowForOrigin, RowForTyped, <2>1, <2>2, <1>4 DEF LookupAnswers, RowsFor
  <2>5. n \in NamesOf(found') \/ Renamed(n, work)'
    BY <1>3, <2>1, <2>2, <2>4 DEF NamesOf, Renamed
  <2>6. Resolvable(n)'
    BY <1>3, <2>1, <2>2, <2>3 DEF Resolvable
  <2>. QED
    BY <2>5, <2>6
<1>6. CASE n \notin Missing
  <2>1. PICK s \in cache \cup DbHits : s.name = n
    BY <1>6 DEF Missing, NamesOf
  <2>2. s \in found'
    BY <1>1, <2>1 DEF LookupAnswers, CacheHits, Named
  <2>3. s \in cache \cup work.systems
    BY <2>1 DEF DbHits, Named
  <2>4. s \in work.systems \/ Fresh(n)
    BY <2>1, <2>3 DEF Origin, Ahead
  <2>. QED
    BY <1>3, <2>1, <2>2, <2>4 DEF Resolvable, Fresh, NamesOf
<1>. QED
  BY <1>5, <1>6

LEMMA CompleteStep ==
    ASSUME TypeOK, Control, Clean, Ahead, Origin, Complete, [Next]_vars
    PROVE  Complete'
<1>1. CASE Lookup
  <2>1. tabs' = tabs /\ Tab' = Tab
    BY <1>1 DEF Lookup, Tab
  <2>. QED
    BY <1>1, <2>1, LookupComplete DEF Complete
<1>2. CASE ~Lookup
  <2>. SUFFICES ASSUME pc' \in {"resolved", "project", "cmdr", "survey"}, lookupErr' = FALSE
                PROVE  \A n \in Tab'.points :
                           Resolvable(n)' /\ (n \in NamesOf(found') \/ Renamed(n, work)')
    BY DEF Complete
  <2>1. /\ UNCHANGED <<edsm, found, lookupErr, tabs>> /\ work'.systems = work.systems
        /\ pc \in {"resolved", "project", "cmdr", "survey"}
    BY <1>2, OtherSteps
  <2>. QED
    BY <2>1 DEF Complete, Resolvable, Renamed, Tab
<1>. QED
  BY <1>1, <1>2

LEMMA ResolutionHolds ==
    Spec => [](TypeOK /\ Control /\ Clean /\ Ahead /\ Book /\ Origin /\ Complete)
<1>1. Init => Origin /\ Complete
  BY DEF Init, Origin, Complete
<1>2. TypeOK /\ Control /\ Clean /\ Ahead /\ Origin /\ Complete /\ [Next]_vars
          => Origin' /\ Complete'
  BY OriginStep, CompleteStep
<1>. QED
  BY <1>1, <1>2, BookHolds, PTL DEF Spec

-----------------------------------------------------------------------------
(* A tab whose result says it was processed: it has a survey, its systems  *)
(* are known for good, and its surveys lack none but renamed ones.  Said   *)
(* of the checkpoint, so that no rollback can undo it.                     *)
Settled(n) == n \in NamesOf(saved.systems) \/ Fresh(n)

Holding(survey, n) ==
    \/ \E s \in saved.systems : s.name = n /\ s.edsm \in survey.points
    \/ Renamed(n, saved)

Good(t) ==
    /\ t \in {w.sheet : w \in work.surveys}
    /\ \A n \in tabs[t].points : Settled(n)
    /\ \A w \in work.surveys : w.sheet = t => \A n \in tabs[t].points : Holding(w, n)

Truthful ==
    /\ \A r \in work.results : r.ok = TRUE /\ r.sheet \in Tabs => Good(r.sheet)
    /\ pc = "record" /\ verdict = TRUE => Good(Sheet)

(* Systems under the checkpoint and answers of EDSM are there to stay.     *)
LEMMA SettledStays ==
    ASSUME saved.systems \subseteq saved'.systems, edsm' = edsm, NEW n
    PROVE  /\ Settled(n) => Settled(n)'
           /\ \A survey : Holding(survey, n) => Holding(survey, n)'
  BY DEF Settled, Holding, Renamed, NamesOf, Fresh

LEMMA GoodStays ==
    ASSUME saved.systems \subseteq saved'.systems, edsm' = edsm, NEW t, Good(t),
           tabs'[t] = tabs[t], work.surveys \subseteq work'.surveys,
           \A w \in work'.surveys : w.sheet = t => w \in work.surveys
    PROVE  /\ t \in {w.sheet : w \in work'.surveys}
           /\ \A n \in tabs'[t].points : Settled(n)'
           /\ \A w \in work'.surveys : w.sheet = t => \A n \in tabs'[t].points : Holding(w, n)'
<1>1. \A n \in tabs[t].points : Settled(n)'
  BY SettledStays DEF Good
<1>2. ASSUME NEW w \in work'.surveys, w.sheet = t, NEW n \in tabs[t].points
      PROVE  Holding(w, n)'
  BY <1>2, SettledStays DEF Good
<1>. QED
  BY <1>1, <1>2 DEF Good

LEMMA EdsmFixed == ASSUME TypeOK, Control, Ahead, [Next]_vars PROVE edsm' = edsm
<1>1. Lookup => edsm' = edsm
  BY DEF Lookup
<1>. QED
  BY <1>1, OtherSteps

(* The survey that AddSurvey stores is as complete as the lookup was.      *)
LEMMA StoredGood ==
    ASSUME TypeOK, Control, Clean, Ahead, Book, Complete, [Next]_vars, Stores,
           verdict' = TRUE
    PROVE  /\ Sheet \in {w.sheet : w \in work'.surveys}
           /\ \A n \in Tab.points : Settled(n)'
           /\ \A w \in work'.surveys : w.sheet = Sheet => \A n \in Tab.points : Holding(w, n)'
<1>1. /\ pc = "survey" /\ lookupErr = FALSE /\ Mapped \subseteq work.systems
      /\ work'.surveys = work.surveys \cup {Stored}
  BY DEF Stores, Outcome, Refused, TypeOK
<1>. PICK survey : survey = Stored
  OBVIOUS
<1>2. survey.sheet = Sheet /\ survey.points = {s.edsm : s \in Mapped}
  BY DEF Stored
<1>3. saved = work /\ saved.systems \subseteq saved'.systems /\ edsm' = edsm
  BY <1>1, Effects, EdsmFixed DEF Clean, OnTab, OnSurvey
<1>4. \A w \in work'.surveys : w.sheet = Sheet => w = survey
  BY <1>1 DEF Book, OnSurvey, Sheet, Tab
<1>5. ASSUME NEW n \in Tab.points PROVE Settled(n) /\ Holding(survey, n)
  <2>1. Resolvable(n) /\ (n \in NamesOf(found) \/ Renamed(n, work))
    BY <1>1 DEF Complete
  <2>2. Settled(n)
    BY <1>3, <2>1 DEF Resolvable, Settled, Fresh
  <2>3. CASE n \in NamesOf(found)
    <3>1. PICK s \in Mapped : s.name = n
      BY <2>3 DEF NamesOf, Mapped, Named
    <3>2. s \in saved.systems /\ s.edsm \in survey.points
      BY <1>1, <1>2, <1>3
    <3>. QED
      BY <2>2, <3>1, <3>2 DEF Holding
  <2>4. CASE Renamed(n, work)
    BY <1>3, <2>2, <2>4 DEF Holding
  <2>. QED
    BY <2>1, <2>3, <2>4
<1>6. \A n \in Tab.points : Settled(n)' /\ Holding(survey, n)'
  BY <1>3, <1>5, SettledStays
<1>7. \A w \in work'.surveys : w.sheet = Sheet => \A n \in Tab.points : Holding(w, n)'
  BY <1>4, <1>6
<1>. QED
  BY <1>1, <1>2, <1>6, <1>7

LEMMA TruthfulStep ==
    ASSUME TypeOK, Control, Clean, Ahead, Book, Complete, Truthful, [Next]_vars
    PROVE  Truthful'
<1>1. edsm' = edsm /\ saved.systems \subseteq saved'.systems
  BY EdsmFixed, Effects
<1>2. \A r \in work.results : r.sheet \in Nat /\ r.ok \in BOOLEAN
  BY ResultSheets
<1>3. CASE Rest
  <2>1. UNCHANGED <<tabs, work.surveys, work.results>>
    BY <1>3 DEF Rest, Ledger
  <2>2. \A t : Good(t) => Good(t)'
    BY <1>1, <2>1, GoodStays DEF Good
  <2>. QED
    BY <1>3, <2>1, <2>2 DEF Rest, Truthful, Tabs, Sheet
<1>4. CASE Wipes
  BY <1>4 DEF Wipes, Truthful
<1>5. ASSUME NEW content, Opens(content) \/ Passes(content) PROVE Truthful'
  <2>1. /\ Len(tabs') = Len(tabs) + 1 /\ Len(tabs) \in Nat
        /\ Tabs' = Tabs \cup {Len(tabs')}
        /\ \A n \in Tabs : n < Len(tabs') /\ tabs'[n] = tabs[n]
    BY <1>5, OpenedTabs
  <2>2. pc' \in {"parse", "tab"} /\ UNCHANGED <<work.surveys, work.results>>
    BY <1>5 DEF Opens, Passes
  <2>3. \A t \in Tabs : Good(t) => Good(t)'
    BY <1>1, <2>1, <2>2, GoodStays DEF Good
  <2>4. \A r \in work.results : r.sheet \in Tabs' => r.sheet \in Tabs
    BY <1>2, <2>1 DEF Book
  <2>. QED
    BY <2>2, <2>3, <2>4 DEF Truthful
<1>6. CASE Repeats \/ Begins \/ Leaves
  <2>1. UNCHANGED <<tabs, work.surveys, work.results>> /\ pc' # "record"
    BY <1>6 DEF Repeats, Begins, Leaves, Ledger
  <2>2. \A t : Good(t) => Good(t)'
    BY <1>1, <2>1, GoodStays DEF Good
  <2>. QED
    BY <2>1, <2>2 DEF Truthful, Tabs
<1>7. CASE Stores
  <2>1. UNCHANGED <<tabs, work.results>> /\ work'.surveys = work.surveys \cup {Stored}
    BY <1>7 DEF Stores
  <2>2. Stored.sheet = Len(tabs) /\ Len(tabs) \in Nat
    BY DEF Stored, Sheet, TypeOK
  <2>3. \A t : t # Len(tabs) /\ Good(t) => Good(t)'
    BY <1>1, <2>1, <2>2, GoodStays DEF Good
  <2>4. \A r \in work.results : r.sheet # Len(tabs)
    BY <1>2, <1>7, <2>2 DEF Book, Stores, OnTab, OnSurvey
  <2>5. verdict' = TRUE => Good(Sheet)'
    BY <1>7, <2>1, StoredGood DEF Good, Sheet, Tab
  <2>. QED
    BY <2>1, <2>3, <2>4, <2>5 DEF Truthful, Tabs
<1>8. CASE Records
  <2>1. UNCHANGED <<tabs, work.surveys>> /\ pc' = "tab" /\ pc = "record"
    BY <1>8 DEF Records
  <2>2. \A t : Good(t) => Good(t)'
    BY <1>1, <2>1, GoodStays DEF Good
  <2>. DEFINE result == [sheet |-> Sheet, ok |-> verdict]
  <2>3. result.ok = TRUE => Good(result.sheet)
    BY <2>1 DEF Truthful
  <2>. HIDE DEF result
  <2>4. work'.results \subseteq work.results \cup {result}
    BY <1>8 DEF Records, result
  <2>. QED
    BY <2>1, <2>2, <2>3, <2>4 DEF Truthful, Tabs
<1>. QED
  BY <1>3, <1>4, <1>5, <1>6, <1>7, <1>8, Effects

LEMMA TruthfulHolds ==
    Spec => [](TypeOK /\ Control /\ Clean /\ Ahead /\ Book /\ Origin /\ Complete /\ Truthful)
<1>1. Init => Truthful
  BY DEF Init, Truthful, Tabs
<1>2. TypeOK /\ Control /\ Clean /\ Ahead /\ Book /\ Complete /\ Truthful /\ [Next]_vars
          => Truthful'
  BY TruthfulStep
<1>. QED
  BY <1>1, <1>2, ResolutionHolds, PTL DEF Spec

(* A sheet reported as processed has a survey, and all its systems are     *)
(* known to the database or to EDSM, even if the cache offered some that   *)
(* a rollback had removed (processor.go:280-383, systemcache.go).          *)
THEOREM OkMeansResolvedHolds == Spec => []OkMeansResolved
<1>1. TypeOK /\ Ahead /\ Truthful => OkMeansResolved
  <2>. SUFFICES ASSUME TypeOK, Ahead, Truthful, NEW r \in work.results, r.ok, r.sheet \in Tabs
                PROVE  /\ r.sheet \in {w.sheet : w \in work.surveys}
                       /\ \A n \in tabs[r.sheet].points : Resolvable(n)
    BY DEF OkMeansResolved
  <2>1. r.ok = TRUE
    BY ResultSheets
  <2>2. Good(r.sheet)
    BY <2>1 DEF Truthful
  <2>. QED
    BY <2>2 DEF Good, Settled, Fresh, Resolvable, NamesOf, Ahead
<1>. QED
  BY <1>1, TruthfulHolds, PTL

(* A point of a sheet reported as processed is stored, or its system is in *)
(* the database under another name than EDSM has for it now: AddSurvey     *)
(* passes over no other points in silence (vsds.go:987-993).               *)
THEOREM DroppedIsRenamedHolds == Spec => []DroppedIsRenamed
<1>1. TypeOK /\ Control /\ Ahead /\ Book /\ Truthful => DroppedIsRenamed
  <2>. SUFFICES ASSUME TypeOK, Ahead, Book, Truthful, NEW w \in work.surveys,
                       [sheet |-> w.sheet, ok |-> TRUE] \in work.results,
                       NEW n \in tabs[w.sheet].points
                PROVE  \/ \E s \in work.systems : s.name = n /\ s.edsm \in w.points
                       \/ edsm[n] # Absent
                          /\ \E s \in work.systems : s.edsm = edsm[n].edsm /\ s.name # n
    BY DEF DroppedIsRenamed
  <2>1. w.sheet \in Tabs
    BY DEF Book
  <2>2. PICK r \in work.results : r.ok = TRUE /\ r.sheet = w.sheet
    OBVIOUS
  <2>3. Good(w.sheet)
    BY <2>1, <2>2 DEF Truthful
  <2>4. Holding(w, n)
    BY <2>3 DEF Good
  <2>. QED
    BY <2>4 DEF Holding, Renamed, Ahead
<1>. QED
  BY <1>1, TruthfulHolds, PTL

-----------------------------------------------------------------------------
(* The run comes to its end.                                               *)
(*                                                                         *)
(* An aborted transaction refuses every statement, and Savepoint,          *)
(* FetchVariants and the lookups would leave it so, tab after tab.  None   *)
(* of them ever meets one: the next step on it is AddSpreadsheet, AddSheet *)
(* or RecordSheetResult, which roll back, the Rollback after a lookup that *)
(* returned nothing, or Close.                                             *)
NeverWedged ==
    /\ status = "failed" =>
           \/ pc \in {"file", "tab", "record", "close"}
           \/ pc = "resolved" /\ lookupErr /\ found = {}
    /\ pc \notin {"start", "done"} => status \in {"open", "failed"}

(* The steps a run has left at most, by the files and tabs still to come   *)
(* and by where it is in a tab.                                            *)
Stage(p) ==
    CASE p = "start" -> 14  [] p = "variants" -> 13 [] p = "list" -> 12
      [] p = "wipe" -> 11   [] p = "parse" -> 10  [] p = "lookup" -> 9
      [] p = "resolved" -> 8 [] p = "project" -> 7 [] p = "cmdr" -> 6
      [] p = "survey" -> 5  [] p = "record" -> 4  [] p = "tab" -> 3
      [] p = "file" -> 2    [] p = "close" -> 1   [] p = "done" -> 0

Steps == {"start", "variants", "list", "wipe", "file", "tab", "parse", "lookup",
          "resolved", "project", "cmdr", "survey", "record", "close", "done"}
Left(f, n, p) == 2 * (MaxFiles - f) + 8 * (MaxTabs - n) + Stage(p)

(* Every step of the run leaves less of it: it opens each file once, never *)
(* returns to a tab it has left, and tries nothing again.                  *)
ProcessAdvances ==
    /\ Left(file', Len(tabs'), pc') \in Nat
    /\ Left(file', Len(tabs'), pc') < Left(file, Len(tabs), pc)

(* The transaction is usable up to the first file, and after a lookup      *)
(* unless the lookup failed; a failed one returned nothing.                *)
UsableStart ==
    /\ pc \in {"variants", "list", "wipe"} => status = "open"
    /\ pc \in {"start", "done"} => status \notin {"open", "failed"}
    /\ pc = "resolved" => status = "open" \/ (lookupErr /\ found = {})

LEMMA UsableStartStep == Control /\ UsableStart /\ [Next]_vars => UsableStart'
<1>. SUFFICES ASSUME Control, UsableStart, [Next]_vars PROVE UsableStart'
  OBVIOUS
<1>. USE DEF Checkpointed, RolledBack, MethodFails, CheckpointFails, txn, resolution, UsableStart
<1>1. CASE StartLongTxn \/ LoadVariants \/ ListFolder \/ DeleteFolderSpreadsheets
  BY <1>1 DEF StartLongTxn, LoadVariants, ListFolder, DeleteFolderSpreadsheets, WipeFails
<1>2. CASE AddSpreadsheet \/ NoMoreFiles \/ AddSheet \/ NoMoreTabs \/ ParseSheet
  BY <1>2 DEF AddSpreadsheet, NoMoreFiles, AddSheet, NoMoreTabs, ParseSheet
<1>3. CASE Lookup
  BY <1>3 DEF Lookup, LookupAnswers, LookupFails, InsertFails
<1>4. CASE Resolve \/ LookupProject \/ UpsertCmdr \/ AddSurvey \/ RecordSheetResult
  BY <1>4 DEF Resolve, GiveUp, LookupProject, UpsertCmdr, AddSurvey, RecordSheetResult
<1>5. CASE Close \/ Lose
  BY <1>5 DEF Close, Lose
<1>6. CASE UNCHANGED vars
  BY <1>6 DEF vars
<1>. QED
  BY <1>1, <1>2, <1>3, <1>4, <1>5, <1>6 DEF Next

LEMMA UsableStartHolds == Spec => []UsableStart
<1>1. Init => UsableStart
  BY DEF Init, UsableStart
<1>. QED
  BY <1>1, UsableStartStep, TypedControl, PTL DEF Spec

(* No continue of process() leads to a statement that would leave an       *)
(* aborted transaction aborted, whatever fails and whatever the tabs hold. *)
THEOREM NeverWedgedHolds == Spec => []NeverWedged
<1>1. TypeOK /\ Control /\ Clean /\ UsableStart => NeverWedged
  <2>. SUFFICES ASSUME TypeOK, Control, Clean, UsableStart PROVE NeverWedged
    OBVIOUS
  <2>1. pc \in {"parse", "lookup", "project", "cmdr", "survey", "variants", "list", "wipe"} =>
            status = "open"
    BY DEF Clean, UsableStart, OnSurvey
  <2>2. pc \notin {"start", "done"} => status \in {"open", "failed"}
    BY DEF Control
  <2>. QED
    BY <2>1, <2>2 DEF TypeOK, NeverWedged, UsableStart
<1>. QED
  BY <1>1, UsableStartHolds, CleanHolds, PTL

(* How a step lowers what is left: it opens a file, finds a tab, or comes  *)
(* nearer to the end of a tab or of the run.                               *)
Lowers(f, n, p, g, m, q) ==
    \/ g = f + 1 /\ m = n /\ p = "file" /\ q \in {"file", "tab"}
    \/ g = f /\ m = n + 1 /\ p = "tab" /\ q \in {"tab", "parse"}
    \/ g = f /\ m = n /\ Stage(q) < Stage(p)

LEMMA LeftLower ==
  ASSUME NEW f \in 0..MaxFiles, NEW n \in 0..MaxTabs, NEW p \in Steps,
         NEW g \in 0..MaxFiles, NEW m \in 0..MaxTabs, NEW q \in Steps,
         Lowers(f, n, p, g, m, q)
  PROVE  Left(g, m, q) \in Nat /\ Left(g, m, q) < Left(f, n, p)
<1>1. Stage(p) \in 0..14 /\ Stage(q) \in 0..14
  BY DEF Steps, Stage
<1>2. /\ p = "file" /\ q \in {"file", "tab"} => Stage(q) <= Stage(p) + 1
      /\ p = "tab" /\ q \in {"tab", "parse"} => Stage(q) <= Stage(p) + 7
  BY DEF Stage
<1>3. Left(g, m, q) \in Nat
  BY <1>1, BoundAssumption DEF Left
<1>. QED
  BY <1>1, <1>2, <1>3, BoundAssumption DEF Left, Lowers

(* process() ends after a bounded number of steps, failures included.      *)
THEOREM ProcessAdvancesHolds == Spec => [][ProcessAdvances]_vars
<1>1. TypeOK /\ TypeOK' /\ Control /\ UsableStart /\ [Next]_vars => [ProcessAdvances]_vars
  <2>. SUFFICES ASSUME TypeOK, TypeOK', Control, UsableStart, Next PROVE ProcessAdvances
    OBVIOUS
  <2>1. /\ file \in 0..MaxFiles /\ Len(tabs) \in 0..MaxTabs /\ pc \in Steps
        /\ file' \in 0..MaxFiles /\ Len(tabs') \in 0..MaxTabs /\ pc' \in Steps
    <3>1. Len(tabs) \in Nat /\ Len(tabs') \in Nat /\ Len(tabs) <= MaxTabs /\ Len(tabs') <= MaxTabs
      BY DEF TypeOK
    <3>. QED
      BY <3>1, BoundAssumption DEF TypeOK, Steps
  <2>. DEFINE Down == Lowers(file, Len(tabs), pc, file', Len(tabs'), pc')
  <2>. SUFFICES Down
    BY <2>1, LeftLower DEF ProcessAdvances
  <2>4. CASE AddSpreadsheet
    <3>1. file' = file + 1 /\ tabs' = tabs /\ pc = "file" /\ pc' \in {"file", "tab"}
      BY <2>4 DEF AddSpreadsheet
    <3>. QED
      BY <3>1 DEF Lowers
  <2>5. CASE AddSheet
    <3>1. PICK content \in Survey \cup {Unparsable} : tabs' = Append(tabs, content)
      BY <2>5 DEF AddSheet
    <3>2. Len(tabs') = Len(tabs) + 1
      BY <3>1 DEF TypeOK
    <3>3. file' = file /\ pc = "tab" /\ pc' \in {"tab", "parse"}
      BY <2>5 DEF AddSheet
    <3>. QED
      BY <3>2, <3>3 DEF Lowers
  <2>6. ASSUME file' = file, tabs' = tabs, Stage(pc') < Stage(pc)
        PROVE  Down
    BY <2>6 DEF Lowers
  <2>7. CASE StartLongTxn \/ LoadVariants \/ ListFolder \/ DeleteFolderSpreadsheets
    <3>1. /\ file' = file /\ tabs' = tabs
          /\ \/ pc = "start" /\ pc' \in {"variants", "done"}
             \/ pc = "variants" /\ pc' \in {"list", "close"}
             \/ pc = "list" /\ pc' \in {"wipe", "close"}
             \/ pc = "wipe" /\ pc' \in {"file", "close"}
      BY <2>7 DEF StartLongTxn, LoadVariants, ListFolder, DeleteFolderSpreadsheets, WipeFails
    <3>. QED
      BY <2>6, <3>1 DEF Stage
  <2>8. CASE NoMoreFiles \/ NoMoreTabs \/ ParseSheet \/ Lookup
    <3>1. /\ file' = file /\ tabs' = tabs
          /\ \/ pc = "file" /\ pc' = "close"
             \/ pc = "tab" /\ pc' = "file"
             \/ pc = "parse" /\ pc' \in {"record", "tab", "lookup"}
             \/ pc = "lookup" /\ pc' = "resolved"
      BY <2>8 DEF NoMoreFiles, NoMoreTabs, ParseSheet, Lookup
    <3>. QED
      BY <2>6, <3>1 DEF Stage
  <2>9. CASE Resolve \/ LookupProject \/ UpsertCmdr \/ AddSurvey \/ RecordSheetResult
    <3>1. /\ file' = file /\ tabs' = tabs
          /\ \/ pc = "resolved" /\ pc' \in {"record", "project", "tab"}
             \/ pc = "project" /\ pc' \in {"cmdr", "record"}
             \/ pc = "cmdr" /\ pc' \in {"survey", "record"}
             \/ pc = "survey" /\ pc' = "record"
             \/ pc = "record" /\ pc' = "tab"
      BY <2>9 DEF Resolve, GiveUp, LookupProject, UpsertCmdr, AddSurvey, RecordSheetResult
    <3>. QED
      BY <2>6, <3>1 DEF Stage
  <2>10. CASE Close
    BY <2>6, <2>10 DEF Close, Stage
  <2>11. CASE Lose
    <3>1. file' = file /\ tabs' = tabs /\ pc' = "done" /\ pc \notin {"start", "done"}
      BY <2>11 DEF Lose, UsableStart
    <3>. QED
      BY <2>6, <3>1 DEF Stage, TypeOK
  <2>. QED
    BY <2>4, <2>5, <2>7, <2>8, <2>9, <2>10, <2>11 DEF Next
<1>. QED
  BY <1>1, UsableStartHolds, TypedControl, PTL DEF Spec

-----------------------------------------------------------------------------
(* How the cache comes to hold systems the database does not have, which   *)
(* breaks SystemsAreRows.                                                  *)
CacheTrue == cache \cup found \subseteq work.systems

(* The inserts of a lookup are undone, and it had cached them: by the      *)
(* Rollback after it failed, or, the Savepoint after it having failed, by  *)
(* the next method that finds the transaction aborted.                     *)
InsertsLost ==
    /\ RolledBack /\ ~(cache \cup found \subseteq saved.systems)
    /\ \/ pc = "resolved" /\ lookupErr /\ found = {}
       \/ pc \in {"file", "tab"} /\ status = "failed"

(* Nothing else makes the cache wrong: no other rollback of the run can    *)
(* take a system back that is cached.                                      *)
OnlyLostInserts == CacheTrue => CacheTrue' \/ InsertsLost

(* The database has the systems it knows under the ids EDSM has for them.  *)
SameIds(rows) == \A s \in rows.systems : \A n \in Name :
    edsm[n] # Absent /\ edsm[n].name = s.name => edsm[n].edsm = s.edsm

Quiet == faults = 0 /\ SameIds(committed) /\ pc # "done"

(* Until a statement fails by itself every cached system is a row, and a   *)
(* lookup that returned nothing has inserted nothing.                      *)
TrueUntilFault ==
    /\ Quiet => CacheTrue /\ SameIds(work)
    /\ pc = "resolved" /\ found = {} /\ Quiet => work.systems = saved.systems
    /\ pc \in {"file", "tab"} => status = "open" \/ faults > 0
    /\ pc \in Early => cache = {} /\ found = {}

LEMMA SystemsStay ==
    ASSUME TypeOK, Control, Clean, Ahead, [Next]_vars, ~Lookup, ~(pc = "resolved" /\ GiveUp),
           ~(pc \in {"file", "tab"} /\ status = "failed"), pc \notin Early
    PROVE  work.systems \subseteq work'.systems
<1>. USE DEF Checkpointed, RolledBack, MethodFails, CheckpointFails, txn
<1>1. CASE StartLongTxn \/ LoadVariants \/ ListFolder \/ DeleteFolderSpreadsheets
  BY <1>1 DEF StartLongTxn, LoadVariants, ListFolder, DeleteFolderSpreadsheets, Early
<1>2. CASE AddSpreadsheet \/ NoMoreFiles
  BY <1>2 DEF AddSpreadsheet, NoMoreFiles, TypeOK, Rows, Clean, Control
<1>3. CASE AddSheet \/ NoMoreTabs
  BY <1>3 DEF AddSheet, NoMoreTabs, TypeOK, Rows, Clean, Control
<1>4. CASE ParseSheet
  BY <1>4 DEF ParseSheet
<1>5. CASE Resolve
  BY <1>5 DEF Resolve
<1>6. CASE LookupProject
  BY <1>6 DEF LookupProject, Clean, OnTab, OnSurvey
<1>7. CASE UpsertCmdr
  BY <1>7 DEF UpsertCmdr, Clean, OnTab, OnSurvey, TypeOK, Rows
<1>8. CASE AddSurvey
  BY <1>8 DEF AddSurvey, Clean, OnTab, OnSurvey, TypeOK, Rows
<1>9. CASE RecordSheetResult
  BY <1>9 DEF RecordSheetResult, Clean, OnTab, OnSurvey, TypeOK, Rows
<1>10. CASE Close \/ Lose
  BY <1>10 DEF Close, Lose
<1>11. CASE UNCHANGED vars
  BY <1>11 DEF vars
<1>. QED
  BY <1>1, <1>2, <1>3, <1>4, <1>5, <1>6, <1>7, <1>8, <1>9, <1>10, <1>11 DEF Next

(* A lookup inserts before it caches.                                      *)
LEMMA LookupInserts ==
    ASSUME TypeOK, Control, Clean, CacheTrue, Lookup
    PROVE  /\ CacheTrue'
           /\ LookupAnswers /\ found' = {} => work'.systems = saved'.systems
<1>1. \A new : WithSystems(work, new).systems = work.systems \cup new
  BY DEF WithSystems, TypeOK, Rows
<1>2. DbHits \subseteq work.systems /\ CacheHits \subseteq cache
  BY DEF DbHits, CacheHits, Named
<1>3. CASE LookupAnswers
  <2>1. /\ found' = CacheHits \cup DbHits \cup RowsFor(Located)
        /\ cache' = cache \cup DbHits \cup RowsFor(Located)
        /\ work'.systems = work.systems \cup RowsFor(Located)
    BY <1>1, <1>3 DEF LookupAnswers
  <2>2. saved' = saved /\ work = saved
    BY DEF Lookup, Clean, OnTab, OnSurvey
  <2>. QED
    BY <1>2, <2>1, <2>2 DEF CacheTrue
<1>4. CASE LookupFails
  <2>1. found' = {} /\ ~LookupAnswers
    BY <1>4 DEF LookupFails, LookupAnswers, Fault, TypeOK
  <2>2. cache' \subseteq work'.systems
    <3>1. CASE \E done \in SUBSET Located :
                  /\ work' = WithSystems(work, RowsFor(done))
                  /\ cache' = cache \cup DbHits \cup RowsFor(done)
      <4>1. PICK done \in SUBSET Located :
                  /\ work' = WithSystems(work, RowsFor(done))
                  /\ cache' = cache \cup DbHits \cup RowsFor(done)
        BY <3>1
      <4>2. work'.systems = work.systems \cup RowsFor(done)
        BY <1>1, <4>1
      <4>. QED
        BY <1>2, <4>1, <4>2 DEF CacheTrue
    <3>2. CASE work' = work /\ cache' \subseteq cache \cup DbHits
      BY <1>2, <3>2 DEF CacheTrue
    <3>. QED
      BY <1>4, <3>1, <3>2 DEF LookupFails, InsertFails
  <2>. QED
    BY <2>1, <2>2 DEF CacheTrue
<1>. QED
  BY <1>3, <1>4 DEF Lookup

LEMMA FaultsCount ==
    ASSUME TypeOK, Control, [Next]_vars
    PROVE  /\ faults' = 0 => faults = 0
           /\ UNCHANGED edsm
           /\ pc' # "done" => pc # "done" /\ committed' = committed
<1>. USE FailureCounts DEF MethodFails, Checkpointed, RolledBack, txn
<1>1. CASE StartLongTxn \/ LoadVariants \/ ListFolder \/ DeleteFolderSpreadsheets
  BY <1>1 DEF StartLongTxn, LoadVariants, ListFolder, DeleteFolderSpreadsheets, WipeFails,
     CheckpointFails
<1>2. CASE AddSpreadsheet \/ NoMoreFiles \/ AddSheet \/ NoMoreTabs
  BY <1>2 DEF AddSpreadsheet, NoMoreFiles, AddSheet, NoMoreTabs, CheckpointFails
<1>3. CASE ParseSheet \/ Resolve \/ LookupProject
  BY <1>3 DEF ParseSheet, Resolve, GiveUp, LookupProject, CheckpointFails
<1>4. CASE Lookup
  BY <1>4, LookupStepTyped DEF Lookup
<1>5. CASE UpsertCmdr \/ AddSurvey \/ RecordSheetResult
  BY <1>5 DEF UpsertCmdr, AddSurvey, RecordSheetResult, CheckpointFails
<1>6. CASE Close \/ Lose
  BY <1>6 DEF Close, Lose
<1>7. CASE UNCHANGED vars
  BY <1>7 DEF vars
<1>. QED
  BY <1>1, <1>2, <1>3, <1>4, <1>5, <1>6, <1>7 DEF Next

LEMMA OnlyLostInsertsStep ==
    ASSUME TypeOK, Control, Clean, Ahead, TrueUntilFault, [Next]_vars
    PROVE  OnlyLostInserts
<1>. SUFFICES ASSUME CacheTrue PROVE CacheTrue' \/ InsertsLost
  BY DEF OnlyLostInserts
<1>1. CASE Lookup
  BY <1>1, LookupInserts
<1>2. CASE ~Lookup
  <2>1. UNCHANGED <<cache, found>>
    BY <1>2, OtherSteps
  <2>2. CASE pc \in Early
    BY <2>1, <2>2 DEF TrueUntilFault, CacheTrue
  <2>3. CASE pc = "resolved" /\ GiveUp
    <3>1. RolledBack /\ work' = saved
      BY <2>3 DEF GiveUp, RolledBack
    <3>2. lookupErr /\ found = {}
      BY <1>2, <2>3
         DEF Next, vars, GiveUp, StartLongTxn, LoadVariants, ListFolder, DeleteFolderSpreadsheets,
         WipeFails, AddSpreadsheet, NoMoreFiles, AddSheet, NoMoreTabs, ParseSheet, Resolve,
         LookupProject, UpsertCmdr, AddSurvey, RecordSheetResult, Close, Lose
    <3>. QED
      BY <2>1, <2>3, <3>1, <3>2 DEF CacheTrue, InsertsLost
  <2>4. CASE pc \in {"file", "tab"} /\ status = "failed"
    <3>1. work' = work \/ (RolledBack /\ work' = saved)
      BY <1>2, <2>4
         DEF Next, vars, txn, MethodFails, Checkpointed, RolledBack, StartLongTxn, LoadVariants,
         ListFolder, DeleteFolderSpreadsheets, AddSpreadsheet, NoMoreFiles, AddSheet,
         NoMoreTabs, ParseSheet, Resolve, LookupProject, UpsertCmdr, AddSurvey,
         RecordSheetResult, Close, Lose
    <3>. QED
      BY <2>1, <2>4, <3>1 DEF CacheTrue, InsertsLost
  <2>5. CASE /\ pc \notin Early /\ ~(pc = "resolved" /\ GiveUp)
             /\ ~(pc \in {"file", "tab"} /\ status = "failed")
    BY <1>2, <2>1, <2>5, SystemsStay DEF CacheTrue
  <2>. QED
    BY <2>2, <2>3, <2>4, <2>5
<1>. QED
  BY <1>1, <1>2

(* While ids and names agree no insert is refused, and new rows agree too. *)
LEMMA IdsAgree ==
    ASSUME TypeOK, Control, pc = "lookup", SameIds(work)
    PROVE  /\ Refusable = {}
           /\ \A s \in RowsFor(Located) : \A n \in Name :
                  edsm[n] # Absent /\ edsm[n].name = s.name => edsm[n].edsm = s.edsm
<1>1. \A d \in Located : \E m \in Name : edsm[m] # Absent /\ d = edsm[m]
  BY LookupTyped DEF Located, Data
<1>2. ASSUME NEW d \in Located PROVE ~NameTaken(d)
  BY <1>1 DEF SameIds, NameTaken, Known, NamesOf
<1>3. ASSUME NEW d \in Located, NEW n \in Name, edsm[n] # Absent, edsm[n].name = RowFor(d).name
      PROVE  edsm[n].edsm = RowFor(d).edsm
  <2>1. PICK m \in Name : edsm[m] # Absent /\ d = edsm[m]
    BY <1>1
  <2>2. CASE RowFor(d) \in work.systems
    BY <1>3, <2>2 DEF SameIds
  <2>3. CASE RowFor(d) = [edsm |-> d.edsm, name |-> d.name]
    <3>1. edsm[n] = d
      BY <1>3, <2>1, <2>3 DEF Control, Consistent
    <3>. QED
      BY <2>3, <3>1
  <2>. QED
    BY <2>1, <2>2, <2>3, RowForTyped
<1>. QED
  BY <1>2, <1>3 DEF Refusable, RowsFor

LEMMA TrueUntilFaultStep ==
    ASSUME TypeOK, Control, Clean, Ahead, TrueUntilFault, [Next]_vars
    PROVE  TrueUntilFault'
<1>0. /\ Quiet' => Quiet /\ faults' = 0 /\ faults = 0 /\ pc' # "done"
      /\ edsm' = edsm
  BY FaultsCount DEF Quiet, SameIds
<1>1. pc' \in Early => cache' = {} /\ found' = {}
  <2>1. pc' \in Early => pc \in Early /\ ~Lookup
    BY DEF Next, vars, Early, StartLongTxn, LoadVariants, ListFolder, DeleteFolderSpreadsheets,
       WipeFails, AddSpreadsheet, NoMoreFiles, AddSheet, NoMoreTabs, ParseSheet, Lookup,
       Resolve, GiveUp, LookupProject, UpsertCmdr, AddSurvey, RecordSheetResult, Close, Lose
  <2>. QED
    BY <2>1, OtherSteps DEF TrueUntilFault
<1>2. ASSUME Quiet PROVE ~InsertsLost
  BY <1>2 DEF Quiet, TrueUntilFault, InsertsLost, CacheTrue, TypeOK
<1>3. Quiet' => CacheTrue'
  BY <1>0, <1>2, OnlyLostInsertsStep DEF TrueUntilFault, OnlyLostInserts
<1>a. ASSUME Quiet', Lookup PROVE LookupAnswers /\ Refusable = {}
  <2>1. Refusable = {}
    BY <1>0, <1>a, IdsAgree DEF Lookup, TrueUntilFault
  <2>2. ~Fault
    BY <1>0, <1>a, FailureCounts
  <2>. QED
    BY <1>a, <2>1, <2>2 DEF Lookup, LookupFails, InsertFails
<1>4. ASSUME Quiet' PROVE SameIds(work)'
  <2>1. CASE Lookup
    <3>1. work'.systems = work.systems \cup RowsFor(Located)
      BY <1>4, <1>a, <2>1 DEF LookupAnswers, WithSystems, TypeOK, Rows
    <3>2. SameIds(work) /\ pc = "lookup"
      BY <1>0, <1>4, <2>1 DEF TrueUntilFault, Lookup
    <3>. QED
      BY <1>0, <3>1, <3>2, IdsAgree DEF SameIds
  <2>2. CASE ~Lookup
    BY <1>0, <1>4, <2>2, OtherSteps DEF TrueUntilFault, SameIds
  <2>. QED
    BY <2>1, <2>2
<1>5. ASSUME pc' = "resolved", found' = {}, Quiet' PROVE work'.systems = saved'.systems
  <2>1. CASE Lookup
    BY <1>0, <1>5, <1>a, <2>1, LookupInserts DEF TrueUntilFault
  <2>2. CASE ~Lookup
    <3>1. UNCHANGED vars
      BY <1>5, <2>2 DEF Next, StartLongTxn, LoadVariants, ListFolder, DeleteFolderSpreadsheets,
         WipeFails, AddSpreadsheet, NoMoreFiles, AddSheet, NoMoreTabs, ParseSheet,
         Resolve, GiveUp, LookupProject, UpsertCmdr, AddSurvey, RecordSheetResult, Close, Lose
    <3>. QED
      BY <1>0, <1>5, <3>1 DEF vars, TrueUntilFault
  <2>. QED
    BY <2>1, <2>2
<1>6. pc' \in {"file", "tab"} => status' = "open" \/ faults' > 0
  <2>1. TypeOK' /\ Clean'
    BY TypeStep, CleanStep
  <2>. QED
    BY <2>1 DEF Clean, TypeOK
<1>. QED
  BY <1>1, <1>3, <1>4, <1>5, <1>6 DEF TrueUntilFault

LEMMA TrueUntilFaultHolds == Spec => [](TypeOK /\ Control /\ Clean /\ Ahead /\ TrueUntilFault)
<1>1. Init => TrueUntilFault
  BY DEF Init, TrueUntilFault, CacheTrue, Quiet
<1>. QED
  BY <1>1, TrueUntilFaultStep, BookHolds, PTL DEF Spec

(* As long as no statement and no request has failed by itself, and unless *)
(* the database has a system's name under an id that EDSM does not have    *)
(* for it, AddSurvey gets rows of the database, whatever the tabs hold and *)
(* whatever EDSM does not know (processor.go:269-299, systemcache.go).     *)
THEOREM RowsUntilFaultHolds == Spec => [](faults = 0 /\ SameIds(committed) => SystemsAreRows)
<1>1. TrueUntilFault => (faults = 0 /\ SameIds(committed) => SystemsAreRows)
  BY DEF TrueUntilFault, Quiet, CacheTrue, SystemsAreRows
<1>. QED
  BY <1>1, TrueUntilFaultHolds, PTL

(* The cache and the database part in one way only: the inserts of a       *)
(* lookup are rolled back, because it failed halfway (processor.go:291,    *)
(* systemcache.go:104) or because the Savepoint after it did               *)
(* (processor.go:313-319).                                                 *)
THEOREM OnlyLostInsertsHolds == Spec => [][OnlyLostInserts]_vars
BY OnlyLostInsertsStep, TrueUntilFaultHolds, PTL DEF Spec
=============================================================================
