--------------------------- MODULE JobQueueProofs ---------------------------
(***************************************************************************)
(* Theorems of JobQueue for every set of folders, requests and instances.  *)
(***************************************************************************)
EXTENDS JobQueue, FiniteSetTheorems, TLAPS

LEMMA TypeInit == Init => TypeOK
  BY TicketAssumption DEF Init, TypeOK, NoRequest, Unladen

LEMMA TypeStep == TypeOK /\ [Next]_vars => TypeOK'
  <1> SUFFICES ASSUME TypeOK, [Next]_vars PROVE TypeOK'
    OBVIOUS
  <1> USE TicketAssumption DEF TypeOK, Ticket, Request, NoRequest, Holding, Unladen, tableVars
  <1>1. ASSUME NEW f \in Folder, AddFolder(f) PROVE TypeOK'
    BY <1>1 DEF AddFolder
  <1>2. ASSUME NEW f \in Folder, DeleteFolder(f) PROVE TypeOK'
    BY <1>2 DEF DeleteFolder
  <1>3. ASSUME NEW c \in Client, Queue(c) PROVE TypeOK'
    <2>1. ASSUME NEW f \in Folder, QueueBegin(c, f) PROVE TypeOK'
      BY <2>1 DEF QueueBegin
    <2>2. CASE QueueCheck(c)
      BY <2>2 DEF QueueCheck
    <2>3. CASE QueueInsert(c)
      BY <2>3 DEF QueueInsert
    <2>4. CASE QueueCommit(c)
      BY <2>4 DEF QueueCommit, Job
    <2>5. CASE QueueAbort(c)
      BY <2>5 DEF QueueAbort
    <2> QED BY <1>3, <2>1, <2>2, <2>3, <2>4, <2>5 DEF Queue
  <1>4. ASSUME NEW i \in Instance, Serve(i) PROVE TypeOK'
    <2>1. CASE Loop(i)
      BY <2>1 DEF Loop, Goto
    <2>2. CASE Fetch(i)
      BY <2>2 DEF Fetch, Goto, Pending, Job
    <2>3. CASE FetchError(i)
      BY <2>3 DEF FetchError, Goto
    <2>4. CASE StartJob(i)
      BY <2>4 DEF StartJob
    <2>5. CASE Wait(i)
      BY <2>5 DEF Wait, Goto
    <2>6. CASE Finish(i)
      BY <2>6 DEF Finish, Goto
    <2>7. CASE FinishError(i)
      BY <2>7 DEF FinishError, Goto
    <2>8. CASE Exit(i)
      BY <2>8 DEF Exit, Goto
    <2> QED BY <1>4, <2>1, <2>2, <2>3, <2>4, <2>5, <2>6, <2>7, <2>8 DEF Serve
  <1>5. ASSUME NEW i \in Instance, Operate(i) PROVE TypeOK'
    <2>1. CASE Signal(i)
      BY <2>1 DEF Signal
    <2>2. CASE Crash(i)
      BY <2>2 DEF Crash, Goto
    <2>3. CASE Boot(i)
      BY <2>3 DEF Boot, Goto
    <2> QED BY <1>5, <2>1, <2>2, <2>3 DEF Operate
  <1>6. CASE UNCHANGED vars
    BY <1>6 DEF vars
  <1> QED BY <1>1, <1>2, <1>3, <1>4, <1>5, <1>6 DEF Next

(* TypeOK holds in every reachable state. *)
THEOREM TypeCorrect == Spec => []TypeOK
  BY TypeInit, TypeStep, PTL DEF Spec

(* Tickets stay distinct: a new one is above every ticket in use. *)
LEMMA TicketsDistinctStep ==
  ASSUME IndInv, TypeOK', [Next]_vars PROVE TicketsDistinct'
  <1> USE TicketAssumption DEF IndInv, TypeOK, Ticket, Request, NoRequest, Holding, Unladen, Job, tableVars, Goto
  <1>1. ASSUME NEW f \in Folder, AddFolder(f) PROVE TicketsDistinct'
    BY <1>1 DEF TicketsDistinct, JobIds, HeldBy, ClaimedBy, RunBy, AddFolder
  <1>2. ASSUME NEW f \in Folder, DeleteFolder(f) PROVE TicketsDistinct'
    BY <1>2 DEF TicketsDistinct, JobIds, HeldBy, ClaimedBy, RunBy, DeleteFolder
  <1>3. ASSUME NEW c \in Client, NEW f \in Folder, QueueBegin(c, f) PROVE TicketsDistinct'
    <2> USE <1>3 DEF QueueBegin
    <2>1. JobIds' = JobIds /\ \A i \in Instance : HeldBy(i)' = HeldBy(i)
      BY DEF JobIds, HeldBy, ClaimedBy, RunBy
    <2>2. \A d \in Client \ {c} : req'[d] = req[d]
      OBVIOUS
    <2>3. req'[c].ticket = clock + 1 /\ clock' = clock + 1
      OBVIOUS
    <2>4. \A j \in JobIds : j <= clock /\ j \in Int
      BY DEF TicketsDistinct, JobIds
    <2>5. \A i \in Instance : \A j \in HeldBy(i) : j <= clock /\ j \in Int
      BY DEF TicketsDistinct, HeldBy, ClaimedBy, RunBy
    <2>6. \A d \in Client : req[d].pc # "idle" => req[d].ticket <= clock /\ req[d].ticket \in Int
      BY DEF TicketsDistinct
    <2>7. clock \in Int
      OBVIOUS
    <2> QED BY <2>1, <2>2, <2>3, <2>4, <2>5, <2>6, <2>7 DEF TicketsDistinct
  <1>4. ASSUME NEW c \in Client, QueueCheck(c) PROVE TicketsDistinct'
    BY <1>4 DEF TicketsDistinct, JobIds, HeldBy, ClaimedBy, RunBy, QueueCheck
  <1>5. ASSUME NEW c \in Client, QueueInsert(c) PROVE TicketsDistinct'
    BY <1>5 DEF TicketsDistinct, JobIds, HeldBy, ClaimedBy, RunBy, QueueInsert
  <1>6. ASSUME NEW c \in Client, QueueCommit(c) PROVE TicketsDistinct'
    BY <1>6 DEF TicketsDistinct, JobIds, HeldBy, ClaimedBy, RunBy, QueueCommit
  <1>7. ASSUME NEW c \in Client, QueueAbort(c) PROVE TicketsDistinct'
    BY <1>7 DEF TicketsDistinct, JobIds, HeldBy, ClaimedBy, RunBy, QueueAbort
  <1>8. ASSUME NEW i \in Instance, Loop(i) PROVE TicketsDistinct'
    BY <1>8 DEF TicketsDistinct, JobIds, HeldBy, ClaimedBy, RunBy, Loop
  <1>9. ASSUME NEW i \in Instance, Fetch(i) PROVE TicketsDistinct'
    BY <1>9 DEF TicketsDistinct, JobIds, HeldBy, ClaimedBy, RunBy, Fetch, Pending
  <1>10. ASSUME NEW i \in Instance, FetchError(i) PROVE TicketsDistinct'
    BY <1>10 DEF TicketsDistinct, JobIds, HeldBy, ClaimedBy, RunBy, FetchError
  <1>11. ASSUME NEW i \in Instance, StartJob(i) PROVE TicketsDistinct'
    BY <1>11 DEF TicketsDistinct, JobIds, HeldBy, ClaimedBy, RunBy, StartJob
  <1>12. ASSUME NEW i \in Instance, Wait(i) PROVE TicketsDistinct'
    BY <1>12 DEF TicketsDistinct, JobIds, HeldBy, ClaimedBy, RunBy, Wait
  <1>13. ASSUME NEW i \in Instance, Finish(i) PROVE TicketsDistinct'
    BY <1>13 DEF TicketsDistinct, JobIds, HeldBy, ClaimedBy, RunBy, Finish
  <1>14. ASSUME NEW i \in Instance, FinishError(i) PROVE TicketsDistinct'
    BY <1>14 DEF TicketsDistinct, JobIds, HeldBy, ClaimedBy, RunBy, FinishError
  <1>15. ASSUME NEW i \in Instance, Exit(i) PROVE TicketsDistinct'
    BY <1>15 DEF TicketsDistinct, JobIds, HeldBy, ClaimedBy, RunBy, Exit
  <1>16. ASSUME NEW i \in Instance, Signal(i) PROVE TicketsDistinct'
    BY <1>16 DEF TicketsDistinct, JobIds, HeldBy, ClaimedBy, RunBy, Signal
  <1>17. ASSUME NEW i \in Instance, Crash(i) PROVE TicketsDistinct'
    BY <1>17 DEF TicketsDistinct, JobIds, HeldBy, ClaimedBy, RunBy, Crash
  <1>18. ASSUME NEW i \in Instance, Boot(i) PROVE TicketsDistinct'
    BY <1>18 DEF TicketsDistinct, JobIds, HeldBy, ClaimedBy, RunBy, Boot
  <1>19. CASE UNCHANGED vars
    BY <1>19 DEF vars, TicketsDistinct, JobIds, HeldBy, ClaimedBy, RunBy
  <1> QED BY <1>1, <1>2, <1>3, <1>4, <1>5, <1>6, <1>7, <1>8, <1>9, <1>10, <1>11, <1>12, <1>13, <1>14, <1>15, <1>16, <1>17, <1>18, <1>19 DEF Next, Queue, Serve, Operate

(* A delete waits for the insert that pins the folder. *)
LEMMA InsertPinsFolderStep ==
  ASSUME IndInv, TypeOK', [Next]_vars PROVE InsertPinsFolder'
  <1> USE TicketAssumption DEF IndInv, TypeOK, Ticket, Request, NoRequest, Holding, Unladen, Job, tableVars, Goto
  <1>1. ASSUME NEW f \in Folder, AddFolder(f) PROVE InsertPinsFolder'
    BY <1>1 DEF InsertPinsFolder, AddFolder
  <1>2. ASSUME NEW f \in Folder, DeleteFolder(f) PROVE InsertPinsFolder'
    BY <1>2 DEF InsertPinsFolder, DeleteFolder
  <1>3. ASSUME NEW c \in Client, NEW f \in Folder, QueueBegin(c, f) PROVE InsertPinsFolder'
    BY <1>3 DEF InsertPinsFolder, QueueBegin
  <1>4. ASSUME NEW c \in Client, QueueCheck(c) PROVE InsertPinsFolder'
    BY <1>4 DEF InsertPinsFolder, QueueCheck
  <1>5. ASSUME NEW c \in Client, QueueInsert(c) PROVE InsertPinsFolder'
    BY <1>5 DEF InsertPinsFolder, QueueInsert
  <1>6. ASSUME NEW c \in Client, QueueCommit(c) PROVE InsertPinsFolder'
    BY <1>6 DEF InsertPinsFolder, QueueCommit
  <1>7. ASSUME NEW c \in Client, QueueAbort(c) PROVE InsertPinsFolder'
    BY <1>7 DEF InsertPinsFolder, QueueAbort
  <1>8. ASSUME NEW i \in Instance, Loop(i) PROVE InsertPinsFolder'
    BY <1>8 DEF InsertPinsFolder, Loop
  <1>9. ASSUME NEW i \in Instance, Fetch(i) PROVE InsertPinsFolder'
    BY <1>9 DEF InsertPinsFolder, Fetch, Pending
  <1>10. ASSUME NEW i \in Instance, FetchError(i) PROVE InsertPinsFolder'
    BY <1>10 DEF InsertPinsFolder, FetchError
  <1>11. ASSUME NEW i \in Instance, StartJob(i) PROVE InsertPinsFolder'
    BY <1>11 DEF InsertPinsFolder, StartJob
  <1>12. ASSUME NEW i \in Instance, Wait(i) PROVE InsertPinsFolder'
    BY <1>12 DEF InsertPinsFolder, Wait
  <1>13. ASSUME NEW i \in Instance, Finish(i) PROVE InsertPinsFolder'
    BY <1>13 DEF InsertPinsFolder, Finish
  <1>14. ASSUME NEW i \in Instance, FinishError(i) PROVE InsertPinsFolder'
    BY <1>14 DEF InsertPinsFolder, FinishError
  <1>15. ASSUME NEW i \in Instance, Exit(i) PROVE InsertPinsFolder'
    BY <1>15 DEF InsertPinsFolder, Exit
  <1>16. ASSUME NEW i \in Instance, Signal(i) PROVE InsertPinsFolder'
    BY <1>16 DEF InsertPinsFolder, Signal
  <1>17. ASSUME NEW i \in Instance, Crash(i) PROVE InsertPinsFolder'
    BY <1>17 DEF InsertPinsFolder, Crash
  <1>18. ASSUME NEW i \in Instance, Boot(i) PROVE InsertPinsFolder'
    BY <1>18 DEF InsertPinsFolder, Boot
  <1>19. CASE UNCHANGED vars
    BY <1>19 DEF vars, InsertPinsFolder
  <1> QED BY <1>1, <1>2, <1>3, <1>4, <1>5, <1>6, <1>7, <1>8, <1>9, <1>10, <1>11, <1>12, <1>13, <1>14, <1>15, <1>16, <1>17, <1>18, <1>19 DEF Next, Queue, Serve, Operate

(* A committed insert had pinned its folder; a delete takes the jobs with it. *)
LEMMA JobsHaveFolderStep ==
  ASSUME IndInv, TypeOK', [Next]_vars PROVE JobsHaveFolder'
  <1> USE TicketAssumption DEF IndInv, TypeOK, Ticket, Request, NoRequest, Holding, Unladen, Job, tableVars, Goto
  <1>1. ASSUME NEW f \in Folder, AddFolder(f) PROVE JobsHaveFolder'
    BY <1>1 DEF JobsHaveFolder, InsertPinsFolder, AddFolder
  <1>2. ASSUME NEW f \in Folder, DeleteFolder(f) PROVE JobsHaveFolder'
    BY <1>2 DEF JobsHaveFolder, InsertPinsFolder, DeleteFolder
  <1>3. ASSUME NEW c \in Client, NEW f \in Folder, QueueBegin(c, f) PROVE JobsHaveFolder'
    BY <1>3 DEF JobsHaveFolder, InsertPinsFolder, QueueBegin
  <1>4. ASSUME NEW c \in Client, QueueCheck(c) PROVE JobsHaveFolder'
    BY <1>4 DEF JobsHaveFolder, InsertPinsFolder, QueueCheck
  <1>5. ASSUME NEW c \in Client, QueueInsert(c) PROVE JobsHaveFolder'
    BY <1>5 DEF JobsHaveFolder, InsertPinsFolder, QueueInsert
  <1>6. ASSUME NEW c \in Client, QueueCommit(c) PROVE JobsHaveFolder'
    BY <1>6 DEF JobsHaveFolder, InsertPinsFolder, QueueCommit
  <1>7. ASSUME NEW c \in Client, QueueAbort(c) PROVE JobsHaveFolder'
    BY <1>7 DEF JobsHaveFolder, InsertPinsFolder, QueueAbort
  <1>8. ASSUME NEW i \in Instance, Loop(i) PROVE JobsHaveFolder'
    BY <1>8 DEF JobsHaveFolder, InsertPinsFolder, Loop
  <1>9. ASSUME NEW i \in Instance, Fetch(i) PROVE JobsHaveFolder'
    BY <1>9 DEF JobsHaveFolder, InsertPinsFolder, Fetch, Pending
  <1>10. ASSUME NEW i \in Instance, FetchError(i) PROVE JobsHaveFolder'
    BY <1>10 DEF JobsHaveFolder, InsertPinsFolder, FetchError
  <1>11. ASSUME NEW i \in Instance, StartJob(i) PROVE JobsHaveFolder'
    BY <1>11 DEF JobsHaveFolder, InsertPinsFolder, StartJob
  <1>12. ASSUME NEW i \in Instance, Wait(i) PROVE JobsHaveFolder'
    BY <1>12 DEF JobsHaveFolder, InsertPinsFolder, Wait
  <1>13. ASSUME NEW i \in Instance, Finish(i) PROVE JobsHaveFolder'
    BY <1>13 DEF JobsHaveFolder, InsertPinsFolder, Finish
  <1>14. ASSUME NEW i \in Instance, FinishError(i) PROVE JobsHaveFolder'
    BY <1>14 DEF JobsHaveFolder, InsertPinsFolder, FinishError
  <1>15. ASSUME NEW i \in Instance, Exit(i) PROVE JobsHaveFolder'
    BY <1>15 DEF JobsHaveFolder, InsertPinsFolder, Exit
  <1>16. ASSUME NEW i \in Instance, Signal(i) PROVE JobsHaveFolder'
    BY <1>16 DEF JobsHaveFolder, InsertPinsFolder, Signal
  <1>17. ASSUME NEW i \in Instance, Crash(i) PROVE JobsHaveFolder'
    BY <1>17 DEF JobsHaveFolder, InsertPinsFolder, Crash
  <1>18. ASSUME NEW i \in Instance, Boot(i) PROVE JobsHaveFolder'
    BY <1>18 DEF JobsHaveFolder, InsertPinsFolder, Boot
  <1>19. CASE UNCHANGED vars
    BY <1>19 DEF vars, JobsHaveFolder, InsertPinsFolder
  <1> QED BY <1>1, <1>2, <1>3, <1>4, <1>5, <1>6, <1>7, <1>8, <1>9, <1>10, <1>11, <1>12, <1>13, <1>14, <1>15, <1>16, <1>17, <1>18, <1>19 DEF Next, Queue, Serve, Operate

(* startedat and finishedat are columns: they go with their row. *)
LEMMA StampsOnRowsStep ==
  ASSUME IndInv, TypeOK', [Next]_vars PROVE StampsOnRows'
  <1> USE TicketAssumption DEF IndInv, TypeOK, Ticket, Request, NoRequest, Holding, Unladen, Job, tableVars, Goto
  <1>1. ASSUME NEW f \in Folder, AddFolder(f) PROVE StampsOnRows'
    BY <1>1 DEF StampsOnRows, JobIds, AddFolder
  <1>2. ASSUME NEW f \in Folder, DeleteFolder(f) PROVE StampsOnRows'
    BY <1>2 DEF StampsOnRows, JobIds, DeleteFolder
  <1>3. ASSUME NEW c \in Client, NEW f \in Folder, QueueBegin(c, f) PROVE StampsOnRows'
    BY <1>3 DEF StampsOnRows, JobIds, QueueBegin
  <1>4. ASSUME NEW c \in Client, QueueCheck(c) PROVE StampsOnRows'
    BY <1>4 DEF StampsOnRows, JobIds, QueueCheck
  <1>5. ASSUME NEW c \in Client, QueueInsert(c) PROVE StampsOnRows'
    BY <1>5 DEF StampsOnRows, JobIds, QueueInsert
  <1>6. ASSUME NEW c \in Client, QueueCommit(c) PROVE StampsOnRows'
    BY <1>6 DEF StampsOnRows, JobIds, QueueCommit
  <1>7. ASSUME NEW c \in Client, QueueAbort(c) PROVE StampsOnRows'
    BY <1>7 DEF StampsOnRows, JobIds, QueueAbort
  <1>8. ASSUME NEW i \in Instance, Loop(i) PROVE StampsOnRows'
    BY <1>8 DEF StampsOnRows, JobIds, Loop
  <1>9. ASSUME NEW i \in Instance, Fetch(i) PROVE StampsOnRows'
    BY <1>9 DEF StampsOnRows, JobIds, Fetch, Pending
  <1>10. ASSUME NEW i \in Instance, FetchError(i) PROVE StampsOnRows'
    BY <1>10 DEF StampsOnRows, JobIds, FetchError
  <1>11. ASSUME NEW i \in Instance, StartJob(i) PROVE StampsOnRows'
    BY <1>11 DEF StampsOnRows, ClaimIsLive, JobIds, StartJob
  <1>12. ASSUME NEW i \in Instance, Wait(i) PROVE StampsOnRows'
    BY <1>12 DEF StampsOnRows, JobIds, Wait
  <1>13. ASSUME NEW i \in Instance, Finish(i) PROVE StampsOnRows'
    BY <1>13 DEF StampsOnRows, JobIds, Finish
  <1>14. ASSUME NEW i \in Instance, FinishError(i) PROVE StampsOnRows'
    BY <1>14 DEF StampsOnRows, JobIds, FinishError
  <1>15. ASSUME NEW i \in Instance, Exit(i) PROVE StampsOnRows'
    BY <1>15 DEF StampsOnRows, JobIds, Exit
  <1>16. ASSUME NEW i \in Instance, Signal(i) PROVE StampsOnRows'
    BY <1>16 DEF StampsOnRows, JobIds, Signal
  <1>17. ASSUME NEW i \in Instance, Crash(i) PROVE StampsOnRows'
    BY <1>17 DEF StampsOnRows, JobIds, Crash
  <1>18. ASSUME NEW i \in Instance, Boot(i) PROVE StampsOnRows'
    BY <1>18 DEF StampsOnRows, JobIds, Boot
  <1>19. CASE UNCHANGED vars
    BY <1>19 DEF vars, StampsOnRows, JobIds
  <1> QED BY <1>1, <1>2, <1>3, <1>4, <1>5, <1>6, <1>7, <1>8, <1>9, <1>10, <1>11, <1>12, <1>13, <1>14, <1>15, <1>16, <1>17, <1>18, <1>19 DEF Next, Queue, Serve, Operate

(* The row lock keeps deletes, finishes and other fetches off a claimed row. *)
LEMMA ClaimIsLiveStep ==
  ASSUME IndInv, TypeOK', [Next]_vars PROVE ClaimIsLive'
  <1> USE TicketAssumption DEF IndInv, TypeOK, Ticket, Request, NoRequest, Holding, Unladen, Job, tableVars, Goto
  <1>1. ASSUME NEW f \in Folder, AddFolder(f) PROVE ClaimIsLive'
    BY <1>1 DEF ClaimIsLive, JobIds, RowLocked, ClaimedBy, AddFolder
  <1>2. ASSUME NEW f \in Folder, DeleteFolder(f) PROVE ClaimIsLive'
    BY <1>2 DEF ClaimIsLive, JobIds, RowLocked, ClaimedBy, DeleteFolder
  <1>3. ASSUME NEW c \in Client, NEW f \in Folder, QueueBegin(c, f) PROVE ClaimIsLive'
    BY <1>3 DEF ClaimIsLive, JobIds, RowLocked, ClaimedBy, QueueBegin
  <1>4. ASSUME NEW c \in Client, QueueCheck(c) PROVE ClaimIsLive'
    BY <1>4 DEF ClaimIsLive, JobIds, RowLocked, ClaimedBy, QueueCheck
  <1>5. ASSUME NEW c \in Client, QueueInsert(c) PROVE ClaimIsLive'
    BY <1>5 DEF ClaimIsLive, JobIds, RowLocked, ClaimedBy, QueueInsert
  <1>6. ASSUME NEW c \in Client, QueueCommit(c) PROVE ClaimIsLive'
    BY <1>6 DEF ClaimIsLive, JobIds, RowLocked, ClaimedBy, QueueCommit
  <1>7. ASSUME NEW c \in Client, QueueAbort(c) PROVE ClaimIsLive'
    BY <1>7 DEF ClaimIsLive, JobIds, RowLocked, ClaimedBy, QueueAbort
  <1>8. ASSUME NEW i \in Instance, Loop(i) PROVE ClaimIsLive'
    BY <1>8 DEF ClaimIsLive, JobIds, RowLocked, ClaimedBy, Loop
  <1>9. ASSUME NEW i \in Instance, Fetch(i) PROVE ClaimIsLive'
    BY <1>9 DEF ClaimIsLive, JobIds, RowLocked, ClaimedBy, Fetch, Pending
  <1>10. ASSUME NEW i \in Instance, FetchError(i) PROVE ClaimIsLive'
    BY <1>10 DEF ClaimIsLive, JobIds, RowLocked, ClaimedBy, FetchError
  <1>11. ASSUME NEW i \in Instance, StartJob(i) PROVE ClaimIsLive'
    BY <1>11 DEF ClaimIsLive, JobIds, RowLocked, ClaimedBy, StartJob
  <1>12. ASSUME NEW i \in Instance, Wait(i) PROVE ClaimIsLive'
    BY <1>12 DEF ClaimIsLive, JobIds, RowLocked, ClaimedBy, Wait
  <1>13. ASSUME NEW i \in Instance, Finish(i) PROVE ClaimIsLive'
    BY <1>13 DEF ClaimIsLive, JobIds, RowLocked, ClaimedBy, Finish
  <1>14. ASSUME NEW i \in Instance, FinishError(i) PROVE ClaimIsLive'
    BY <1>14 DEF ClaimIsLive, JobIds, RowLocked, ClaimedBy, FinishError
  <1>15. ASSUME NEW i \in Instance, Exit(i) PROVE ClaimIsLive'
    BY <1>15 DEF ClaimIsLive, JobIds, RowLocked, ClaimedBy, Exit
  <1>16. ASSUME NEW i \in Instance, Signal(i) PROVE ClaimIsLive'
    BY <1>16 DEF ClaimIsLive, JobIds, RowLocked, ClaimedBy, Signal
  <1>17. ASSUME NEW i \in Instance, Crash(i) PROVE ClaimIsLive'
    BY <1>17 DEF ClaimIsLive, JobIds, RowLocked, ClaimedBy, Crash
  <1>18. ASSUME NEW i \in Instance, Boot(i) PROVE ClaimIsLive'
    BY <1>18 DEF ClaimIsLive, JobIds, RowLocked, ClaimedBy, Boot
  <1>19. CASE UNCHANGED vars
    BY <1>19 DEF vars, ClaimIsLive, JobIds, RowLocked, ClaimedBy
  <1> QED BY <1>1, <1>2, <1>3, <1>4, <1>5, <1>6, <1>7, <1>8, <1>9, <1>10, <1>11, <1>12, <1>13, <1>14, <1>15, <1>16, <1>17, <1>18, <1>19 DEF Next, Queue, Serve, Operate

(* A run begins with startedat; a deleted row's ticket never comes back. *)
LEMMA RunWasStartedStep ==
  ASSUME IndInv, TypeOK', [Next]_vars PROVE RunWasStarted'
  <1> USE TicketAssumption DEF IndInv, TypeOK, Ticket, Request, NoRequest, Holding, Unladen, Job, tableVars, Goto
  <1>1. ASSUME NEW f \in Folder, AddFolder(f) PROVE RunWasStarted'
    BY <1>1 DEF RunWasStarted, StampsOnRows, JobIds, RowLocked, ClaimedBy, ClaimIsLive, TicketsDistinct, HeldBy, RunBy, AddFolder
  <1>2. ASSUME NEW f \in Folder, DeleteFolder(f) PROVE RunWasStarted'
    BY <1>2 DEF RunWasStarted, StampsOnRows, JobIds, RowLocked, ClaimedBy, ClaimIsLive, TicketsDistinct, HeldBy, RunBy, DeleteFolder
  <1>3. ASSUME NEW c \in Client, NEW f \in Folder, QueueBegin(c, f) PROVE RunWasStarted'
    BY <1>3 DEF RunWasStarted, StampsOnRows, JobIds, RowLocked, ClaimedBy, ClaimIsLive, TicketsDistinct, HeldBy, RunBy, QueueBegin
  <1>4. ASSUME NEW c \in Client, QueueCheck(c) PROVE RunWasStarted'
    BY <1>4 DEF RunWasStarted, StampsOnRows, JobIds, RowLocked, ClaimedBy, ClaimIsLive, TicketsDistinct, HeldBy, RunBy, QueueCheck
  <1>5. ASSUME NEW c \in Client, QueueInsert(c) PROVE RunWasStarted'
    BY <1>5 DEF RunWasStarted, StampsOnRows, JobIds, RowLocked, ClaimedBy, ClaimIsLive, TicketsDistinct, HeldBy, RunBy, QueueInsert
  <1>6. ASSUME NEW c \in Client, QueueCommit(c) PROVE RunWasStarted'
    BY <1>6 DEF RunWasStarted, StampsOnRows, JobIds, RowLocked, ClaimedBy, ClaimIsLive, TicketsDistinct, HeldBy, RunBy, QueueCommit
  <1>7. ASSUME NEW c \in Client, QueueAbort(c) PROVE RunWasStarted'
    BY <1>7 DEF RunWasStarted, StampsOnRows, JobIds, RowLocked, ClaimedBy, ClaimIsLive, TicketsDistinct, HeldBy, RunBy, QueueAbort
  <1>8. ASSUME NEW i \in Instance, Loop(i) PROVE RunWasStarted'
    BY <1>8 DEF RunWasStarted, StampsOnRows, JobIds, RowLocked, ClaimedBy, ClaimIsLive, TicketsDistinct, HeldBy, RunBy, Loop
  <1>9. ASSUME NEW i \in Instance, Fetch(i) PROVE RunWasStarted'
    BY <1>9 DEF RunWasStarted, StampsOnRows, JobIds, RowLocked, ClaimedBy, ClaimIsLive, TicketsDistinct, HeldBy, RunBy, Fetch, Pending
  <1>10. ASSUME NEW i \in Instance, FetchError(i) PROVE RunWasStarted'
    BY <1>10 DEF RunWasStarted, StampsOnRows, JobIds, RowLocked, ClaimedBy, ClaimIsLive, TicketsDistinct, HeldBy, RunBy, FetchError
  <1>11. ASSUME NEW i \in Instance, StartJob(i) PROVE RunWasStarted'
    BY <1>11 DEF RunWasStarted, StampsOnRows, JobIds, RowLocked, ClaimedBy, ClaimIsLive, TicketsDistinct, HeldBy, RunBy, StartJob
  <1>12. ASSUME NEW i \in Instance, Wait(i) PROVE RunWasStarted'
    BY <1>12 DEF RunWasStarted, StampsOnRows, JobIds, RowLocked, ClaimedBy, ClaimIsLive, TicketsDistinct, HeldBy, RunBy, Wait
  <1>13. ASSUME NEW i \in Instance, Finish(i) PROVE RunWasStarted'
    BY <1>13 DEF RunWasStarted, StampsOnRows, JobIds, RowLocked, ClaimedBy, ClaimIsLive, TicketsDistinct, HeldBy, RunBy, Finish
  <1>14. ASSUME NEW i \in Instance, FinishError(i) PROVE RunWasStarted'
    BY <1>14 DEF RunWasStarted, StampsOnRows, JobIds, RowLocked, ClaimedBy, ClaimIsLive, TicketsDistinct, HeldBy, RunBy, FinishError
  <1>15. ASSUME NEW i \in Instance, Exit(i) PROVE RunWasStarted'
    BY <1>15 DEF RunWasStarted, StampsOnRows, JobIds, RowLocked, ClaimedBy, ClaimIsLive, TicketsDistinct, HeldBy, RunBy, Exit
  <1>16. ASSUME NEW i \in Instance, Signal(i) PROVE RunWasStarted'
    BY <1>16 DEF RunWasStarted, StampsOnRows, JobIds, RowLocked, ClaimedBy, ClaimIsLive, TicketsDistinct, HeldBy, RunBy, Signal
  <1>17. ASSUME NEW i \in Instance, Crash(i) PROVE RunWasStarted'
    BY <1>17 DEF RunWasStarted, StampsOnRows, JobIds, RowLocked, ClaimedBy, ClaimIsLive, TicketsDistinct, HeldBy, RunBy, Crash
  <1>18. ASSUME NEW i \in Instance, Boot(i) PROVE RunWasStarted'
    BY <1>18 DEF RunWasStarted, StampsOnRows, JobIds, RowLocked, ClaimedBy, ClaimIsLive, TicketsDistinct, HeldBy, RunBy, Boot
  <1>19. CASE UNCHANGED vars
    BY <1>19 DEF vars, RunWasStarted, StampsOnRows, JobIds, RowLocked, ClaimedBy, ClaimIsLive, TicketsDistinct, HeldBy, RunBy
  <1> QED BY <1>1, <1>2, <1>3, <1>4, <1>5, <1>6, <1>7, <1>8, <1>9, <1>10, <1>11, <1>12, <1>13, <1>14, <1>15, <1>16, <1>17, <1>18, <1>19 DEF Next, Queue, Serve, Operate
-----------------------------------------------------------------------------
(* Steps that only remove unfinished jobs or requests keep the budget. *)
LEMMA BudgetShrinks ==
  ASSUME RaceBudget, IsFiniteSet(jobs'),
         \A f \in Folder : /\ Unfinished(f)' \subseteq Unfinished(f)
                           /\ InFlight(f)' \subseteq InFlight(f)
  PROVE  RaceBudget'
  <1> SUFFICES ASSUME NEW f \in Folder
               PROVE  Cardinality(Unfinished(f)') + Cardinality(InFlight(f)') <= Cardinality(Client)
    BY DEF RaceBudget, Unfinished, InFlight
  <1>1. IsFiniteSet(Unfinished(f)) /\ IsFiniteSet(InFlight(f))
    BY ClientAssumption, FS_Subset DEF RaceBudget, Unfinished, InFlight
  <1>2. /\ IsFiniteSet(Unfinished(f)') /\ Cardinality(Unfinished(f)') <= Cardinality(Unfinished(f))
        /\ IsFiniteSet(InFlight(f)') /\ Cardinality(InFlight(f)') <= Cardinality(InFlight(f))
    BY <1>1, FS_Subset
  <1>3. /\ Cardinality(Unfinished(f)) \in Nat /\ Cardinality(Unfinished(f)') \in Nat
        /\ Cardinality(InFlight(f)) \in Nat /\ Cardinality(InFlight(f)') \in Nat
        /\ Cardinality(Client) \in Nat
    BY <1>1, <1>2, ClientAssumption, FS_CardinalityType
  <1> QED BY <1>2, <1>3 DEF RaceBudget

(* A check resets the budget, a commit moves one unit from requests to jobs. *)
LEMMA BudgetStep == IndInv /\ RaceBudget /\ [Next]_vars => RaceBudget'
  <1> SUFFICES ASSUME IndInv, RaceBudget, [Next]_vars PROVE RaceBudget'
    OBVIOUS
  <1> USE DEF IndInv, TypeOK, Request, NoRequest, Holding, Unladen, tableVars, Goto
  <1> DEFINE Shrinks == /\ IsFiniteSet(jobs')
                        /\ \A f \in Folder : /\ Unfinished(f)' \subseteq Unfinished(f)
                                              /\ InFlight(f)' \subseteq InFlight(f)
  <1>1. ASSUME UNCHANGED <<jobs, finished, req>> PROVE Shrinks
    BY <1>1 DEF RaceBudget, Unfinished, InFlight
  <1>2. ASSUME NEW f \in Folder, DeleteFolder(f) PROVE Shrinks
    <2>1. jobs' \subseteq jobs /\ req' = req
      BY <1>2 DEF DeleteFolder
    <2>2. \A r \in jobs' : r.id \notin finished' => r.id \notin finished
      BY <1>2 DEF DeleteFolder
    <2> QED BY <2>1, <2>2, FS_Subset DEF RaceBudget, Unfinished, InFlight
  <1>3. ASSUME NEW i \in Instance, Finish(i) PROVE Shrinks
    BY <1>3 DEF Finish, RaceBudget, Unfinished, InFlight
  <1>4. ASSUME NEW c \in Client, NEW f \in Folder, QueueBegin(c, f) PROVE Shrinks
    BY <1>4 DEF QueueBegin, RaceBudget, Unfinished, InFlight
  <1>5. ASSUME NEW c \in Client, QueueInsert(c) \/ QueueAbort(c) PROVE Shrinks
    BY <1>5 DEF QueueInsert, QueueAbort, RaceBudget, Unfinished, InFlight
  <1>6. ASSUME NEW c \in Client, QueueCheck(c) PROVE RaceBudget'
    <2> DEFINE f == req[c].folder
    <2>1. CASE f \in folders /\ Unfinished(f) = {}
      <3>1. jobs' = jobs /\ finished' = finished /\ \A d \in Client \ {c} : req'[d] = req[d]
        BY <1>6, <2>1 DEF QueueCheck
      <3>2. req'[c].folder = f /\ f \in Folder
        BY <1>6, <2>1 DEF QueueCheck
      <3>3. ASSUME NEW g \in Folder
            PROVE  Cardinality(Unfinished(g)') + Cardinality(InFlight(g)') <= Cardinality(Client)
        <4>1. CASE g = f
          <5>1. Unfinished(g)' = {}
            BY <2>1, <3>1, <4>1 DEF Unfinished
          <5>2. Cardinality(Unfinished(g)') = 0
            BY <5>1, FS_EmptySet
          <5>3. InFlight(g)' \subseteq Client
            BY DEF InFlight
          <5>4. /\ IsFiniteSet(InFlight(g)')
                /\ Cardinality(InFlight(g)') <= Cardinality(Client)
            BY <5>3, ClientAssumption, FS_Subset
          <5> QED BY <5>2, <5>4, ClientAssumption, FS_CardinalityType
        <4>2. CASE g # f
          <5>1. Unfinished(g)' = Unfinished(g) /\ InFlight(g)' = InFlight(g)
            BY <1>6, <3>1, <3>2, <4>2 DEF Unfinished, InFlight, QueueCheck
          <5> QED BY <5>1 DEF RaceBudget
        <4> QED BY <4>1, <4>2
      <3> QED BY <3>1, <3>3 DEF RaceBudget
    <2>2. CASE ~ (f \in folders /\ Unfinished(f) = {})
      <3>1. Shrinks
        BY <1>6, <2>2 DEF QueueCheck, RaceBudget, Unfinished, InFlight
      <3> QED BY <3>1, BudgetShrinks
    <2> QED BY <2>1, <2>2
  <1>7. ASSUME NEW c \in Client, QueueCommit(c) PROVE RaceBudget'
    <2> DEFINE f == req[c].folder
               row == [id |-> req[c].ticket, folder |-> f]
    <2>1. /\ jobs' = jobs \cup {row} /\ finished' = finished
          /\ req'[c] = NoRequest /\ \A d \in Client \ {c} : req'[d] = req[d]
          /\ row.folder = f
      BY <1>7 DEF QueueCommit
    <2> HIDE DEF row
    <2>2. IsFiniteSet(jobs')
      BY <2>1, FS_AddElement DEF RaceBudget
    <2>3. ASSUME NEW g \in Folder
          PROVE  Cardinality(Unfinished(g)') + Cardinality(InFlight(g)') <= Cardinality(Client)
      <3>0. IsFiniteSet(Unfinished(g)) /\ IsFiniteSet(InFlight(g))
        BY ClientAssumption, FS_Subset DEF RaceBudget, Unfinished, InFlight
      <3>1. CASE g = f
        <4>1. Unfinished(g)' \subseteq Unfinished(g) \cup {row}
          BY <2>1 DEF Unfinished
        <4>2. /\ IsFiniteSet(Unfinished(g) \cup {row})
              /\ Cardinality(Unfinished(g) \cup {row}) <= Cardinality(Unfinished(g)) + 1
          <5>1. Cardinality(Unfinished(g)) \in Nat
            BY <3>0, FS_CardinalityType
          <5> HIDE DEF Unfinished
          <5>2. /\ IsFiniteSet(Unfinished(g) \cup {row})
                /\ Cardinality(Unfinished(g) \cup {row}) =
                     IF row \in Unfinished(g) THEN Cardinality(Unfinished(g))
                                              ELSE Cardinality(Unfinished(g)) + 1
            BY <3>0, FS_AddElement, Zenon
          <5> QED BY <5>1, <5>2
        <4>3. /\ IsFiniteSet(Unfinished(g)')
              /\ Cardinality(Unfinished(g)') <= Cardinality(Unfinished(g) \cup {row})
          BY <4>1, <4>2, FS_Subset
        <4>4. c \in InFlight(g) /\ InFlight(g)' = InFlight(g) \ {c}
          BY <1>7, <2>1, <3>1 DEF QueueCommit, InFlight
        <4>5. Cardinality(InFlight(g)') = Cardinality(InFlight(g)) - 1
          BY <3>0, <4>4, FS_RemoveElement
        <4>6. /\ Cardinality(Unfinished(g)) \in Nat /\ Cardinality(Unfinished(g)') \in Nat
              /\ Cardinality(Unfinished(g) \cup {row}) \in Nat
              /\ Cardinality(InFlight(g)) \in Nat /\ Cardinality(Client) \in Nat
          BY <3>0, <4>2, <4>3, ClientAssumption, FS_CardinalityType
        <4> QED BY <4>2, <4>3, <4>5, <4>6 DEF RaceBudget
      <3>2. CASE g # f
        <4>1. Unfinished(g)' = Unfinished(g)
          BY <2>1, <3>2 DEF Unfinished
        <4>2. InFlight(g)' = InFlight(g)
          BY <1>7, <2>1, <3>2 DEF QueueCommit, InFlight
        <4> QED BY <4>1, <4>2 DEF RaceBudget
      <3> QED BY <3>1, <3>2
    <2> QED BY <2>2, <2>3 DEF RaceBudget
  <1>8. ASSUME NEW f \in Folder, AddFolder(f) PROVE UNCHANGED <<jobs, finished, req>>
    BY <1>8 DEF AddFolder
  <1>9. ASSUME NEW i \in Instance, Serve(i), ~Finish(i) PROVE UNCHANGED <<jobs, finished, req>>
    BY <1>9 DEF Serve, Loop, Fetch, FetchError, StartJob, Wait, FinishError, Exit
  <1>10. ASSUME NEW i \in Instance, Operate(i) PROVE UNCHANGED <<jobs, finished, req>>
    BY <1>10 DEF Operate, Signal, Crash, Boot
  <1>11. CASE UNCHANGED vars
    BY <1>1, <1>11, BudgetShrinks DEF vars
  <1> QED
    BY <1>1, <1>2, <1>3, <1>4, <1>5, <1>6, <1>7, <1>8, <1>9, <1>10, <1>11, BudgetShrinks
    DEF Next, Queue

-----------------------------------------------------------------------------
LEMMA IndInit == Init => IndInv /\ RaceBudget
  <1> SUFFICES ASSUME Init PROVE IndInv /\ RaceBudget
    OBVIOUS
  <1>1. IndInv
    BY TypeInit DEF Init, IndInv, NoRequest, TicketsDistinct, InsertPinsFolder, JobsHaveFolder,
                    StampsOnRows, ClaimIsLive, RunWasStarted, JobIds, HeldBy, ClaimedBy, RunBy
  <1>2. \A f \in Folder : Unfinished(f) = {} /\ InFlight(f) = {}
    BY DEF Init, NoRequest, Unfinished, InFlight
  <1>3. IsFiniteSet(jobs) /\ Cardinality({}) = 0
    BY FS_EmptySet DEF Init
  <1>4. Cardinality(Client) \in Nat
    BY ClientAssumption, FS_CardinalityType
  <1>5. RaceBudget
    BY <1>2, <1>3, <1>4 DEF RaceBudget
  <1> QED BY <1>1, <1>5

LEMMA IndStep == IndInv /\ [Next]_vars => IndInv'
  <1> SUFFICES ASSUME IndInv, [Next]_vars PROVE IndInv'
    OBVIOUS
  <1>1. TypeOK'
    BY TypeStep DEF IndInv
  <1> QED
    BY <1>1, TicketsDistinctStep, InsertPinsFolderStep, JobsHaveFolderStep, StampsOnRowsStep,
       ClaimIsLiveStep, RunWasStartedStep DEF IndInv

(* The inductive invariant holds in every reachable state. *)
THEOREM IndInvHolds == Spec => [](IndInv /\ RaceBudget)
  <1>1. IndInv /\ RaceBudget /\ [Next]_vars => (IndInv /\ RaceBudget)'
    BY IndStep, BudgetStep
  <1> QED BY IndInit, <1>1, PTL DEF Spec

(* Every job row belongs to an existing folder. *)
THEOREM JobsHaveFolderHolds == Spec => []JobsHaveFolder
  <1>1. IndInv => JobsHaveFolder
    BY DEF IndInv
  <1> QED BY <1>1, IndInvHolds, PTL

(* A claimed row is a live row, claimed by one instance. *)
THEOREM ClaimIsLiveHolds == Spec => []ClaimIsLive
  <1>1. IndInv => ClaimIsLive
    BY DEF IndInv
  <1> QED BY <1>1, IndInvHolds, PTL

(* Finished implies started, and a run in process is started. *)
THEOREM RunWasStartedHolds == Spec => []RunWasStarted
  <1>1. IndInv => RunWasStarted
    BY DEF IndInv
  <1> QED BY <1>1, IndInvHolds, PTL

LEMMA BudgetBounds == RaceBudget => ActiveBound
  <1> SUFFICES ASSUME RaceBudget, NEW f \in Folder
               PROVE  Cardinality(Unfinished(f)) <= Cardinality(Client)
    BY DEF ActiveBound
  <1>1. IsFiniteSet(Unfinished(f)) /\ IsFiniteSet(InFlight(f))
    BY ClientAssumption, FS_Subset DEF RaceBudget, Unfinished, InFlight
  <1>2. /\ Cardinality(Unfinished(f)) \in Nat /\ Cardinality(InFlight(f)) \in Nat
        /\ Cardinality(Client) \in Nat
    BY <1>1, ClientAssumption, FS_CardinalityType
  <1> QED BY <1>2 DEF RaceBudget

(* A folder has at most as many unfinished jobs as there are requests that *)
(* can race.                                                               *)
THEOREM ActiveBoundHolds == Spec => []ActiveBound
  BY BudgetBounds, IndInvHolds, PTL

(* What QueueFolderProcessing does guarantee: if queue requests never      *)
(* overlap, a folder has at most one unfinished job.                       *)
THEOREM OneAtATime ==
  ASSUME Cardinality(Client) = 1 PROVE Spec => []AtMostOneActive
  <1>1. RaceBudget => AtMostOneActive
    <2> SUFFICES ASSUME RaceBudget, NEW f \in Folder,
                        NEW r \in Unfinished(f), NEW s \in Unfinished(f), r # s
                 PROVE  FALSE
      BY DEF AtMostOneActive
    <2>1. IsFiniteSet(Unfinished(f))
      BY FS_Subset DEF RaceBudget, Unfinished
    <2>2. Cardinality(Unfinished(f)) <= 1
      BY BudgetBounds DEF ActiveBound
    <2>3. /\ IsFiniteSet({r}) /\ Cardinality({r}) = 1
      BY FS_Singleton
    <2>4. /\ IsFiniteSet({r} \cup {s}) /\ Cardinality({r} \cup {s}) = 2
      <3>1. s \notin {r}
        OBVIOUS
      <3>2. Cardinality({r} \cup {s}) = Cardinality({r}) + 1
        BY <2>3, <3>1, FS_AddElement
      <3> QED BY <2>3, <3>2, FS_AddElement
    <2>5. Cardinality({r} \cup {s}) <= Cardinality(Unfinished(f))
      BY <2>1, FS_Subset
    <2>6. Cardinality(Unfinished(f)) \in Nat
      BY <2>1, FS_CardinalityType
    <2> QED BY <2>2, <2>4, <2>5, <2>6
  <1> QED BY <1>1, IndInvHolds, PTL

-----------------------------------------------------------------------------
(* Liveness.  FairSpec's fairness with the guard of each step written out  *)
(* in the place of ENABLED.                                                *)

(* When the goroutine has a step to take: always, except when it has       *)
(* returned and nobody is waiting for it.  The update of a Finish may wait *)
(* for a row lock; that it may also fail leaves the goroutine a step.      *)
Ready(i) == srv[i].pc # "down" /\ (srv[i].pc = "done" => i \in stopping)

FairGuards(i) ==
    /\ []<>~Ready(i) \/ []<><<Serve(i)>>_vars
    /\ <>[](srv[i].pc # "fetch") \/ []<><<Fetch(i)>>_vars
    /\ <>[](srv[i].pc # "claimed") \/ []<><<StartJob(i)>>_vars

(* A step of the system is a step of this goroutine, a signal, a kill or a *)
(* boot of its process, or leaves both its place and its stopCh alone.     *)
LEMMA OneStep ==
  ASSUME TypeOK, NEW i \in Instance, [Next]_vars
  PROVE  \/ Serve(i)
         \/ Signal(i)
         \/ Crash(i)
         \/ Boot(i)
         \/ srv'[i] = srv[i] /\ (i \in stopping' <=> i \in stopping)
  <1> USE DEF TypeOK
  <1>1. ASSUME NEW f \in Folder, AddFolder(f) \/ DeleteFolder(f)
        PROVE  srv' = srv /\ stopping' = stopping
    BY <1>1 DEF AddFolder, DeleteFolder
  <1>2. ASSUME NEW c \in Client, Queue(c) PROVE srv' = srv /\ stopping' = stopping
    BY <1>2 DEF Queue, QueueBegin, QueueCheck, QueueInsert, QueueCommit, QueueAbort
  <1>3. ASSUME NEW k \in Instance \ {i}, Serve(k)
        PROVE  srv'[i] = srv[i] /\ stopping' = stopping
    BY <1>3 DEF Serve, Loop, Fetch, FetchError, StartJob, Wait, Finish, FinishError, Exit, Goto
  <1>4. ASSUME NEW k \in Instance \ {i}, Operate(k)
        PROVE  srv'[i] = srv[i] /\ (i \in stopping' <=> i \in stopping)
    BY <1>4 DEF Operate, Signal, Crash, Boot, Goto
  <1>5. CASE UNCHANGED vars
    BY <1>5 DEF vars
  <1> QED BY <1>1, <1>2, <1>3, <1>4, <1>5 DEF Next, Operate

(* The steps a goroutine told to stop has left at most, by where it is.    *)
Togo(pc) ==
    CASE pc = "fetch" -> 5
      [] pc = "claimed" -> 4
      [] pc = "wait" -> 3
      [] pc \in {"loop", "process"} -> 2
      [] pc = "done" -> 1
      [] pc = "down" -> 0

Within(i, n) == srv[i].pc = "down" \/ (i \in stopping /\ Togo(srv[i].pc) <= n)

LEMMA TogoType ==
  ASSUME TypeOK, NEW i \in Instance
  PROVE  /\ Togo(srv[i].pc) \in 0..5
         /\ Togo(srv[i].pc) = 0 <=> srv[i].pc = "down"
  <1>1. srv[i].pc \in {"loop", "fetch", "wait", "done", "down", "claimed", "process"}
    BY DEF TypeOK, Holding, Unladen
  <1> QED BY <1>1 DEF Togo

(* A step of a goroutine told to stop brings it nearer to its end.         *)
LEMMA ServeNearer ==
  ASSUME TypeOK, NEW i \in Instance, i \in stopping, Serve(i)
  PROVE  i \in stopping' /\ Togo(srv'[i].pc) < Togo(srv[i].pc)
  <1> USE DEF TypeOK, Togo
  <1>1. CASE Loop(i)
    BY <1>1 DEF Loop, Goto
  <1>2. CASE Fetch(i)
    BY <1>2 DEF Fetch, Goto
  <1>3. CASE FetchError(i)
    BY <1>3 DEF FetchError, Goto
  <1>4. CASE StartJob(i)
    <2>1. srv[i] \in Holding
      BY <1>4 DEF StartJob, Unladen
    <2> QED BY <1>4, <2>1 DEF StartJob, Holding
  <1>5. CASE Wait(i)
    BY <1>5 DEF Wait, Goto
  <1>6. CASE Finish(i) \/ FinishError(i)
    BY <1>6 DEF Finish, FinishError, Goto
  <1>7. CASE Exit(i)
    BY <1>7 DEF Exit, Goto
  <1> QED BY <1>1, <1>2, <1>3, <1>4, <1>5, <1>6, <1>7 DEF Serve

(* Told to stop and n steps from its end, a goroutine has a step to take,  *)
(* no step takes it back, and its own next step brings it to m = n - 1.    *)
Nearing(i, n, m) ==
    TypeOK /\ Within(i, n) /\ ~Within(i, m) =>
        /\ Ready(i)
        /\ [Next]_vars => Within(i, n)'
        /\ <<Serve(i)>>_vars => Within(i, m)'

LEMMA Nearer ==
  ASSUME NEW i \in Instance, NEW n \in 1..5, NEW m \in 0..4, n = m + 1
  PROVE  Nearing(i, n, m)
  <1>1. ASSUME TypeOK, Within(i, n), ~Within(i, m)
        PROVE  /\ Ready(i)
               /\ [Next]_vars => Within(i, n)'
               /\ <<Serve(i)>>_vars => Within(i, m)'
    <2>1. /\ srv[i].pc # "down"
          /\ i \in stopping
          /\ Togo(srv[i].pc) = n
      BY <1>1, TogoType DEF Within
    <2>2. ASSUME Serve(i) PROVE Within(i, m)' /\ Within(i, n)'
      <3>1. i \in stopping' /\ Togo(srv'[i].pc) < n
        BY <1>1, <2>1, <2>2, ServeNearer
      <3>2. TypeOK'
        BY <1>1, <2>2, TypeStep DEF Next
      <3>3. srv'[i].pc \in {"loop", "fetch", "wait", "done", "down", "claimed", "process"}
        BY <3>2 DEF TypeOK, Holding, Unladen
      <3>4. Togo(srv'[i].pc) \in 0..5
        BY <3>3 DEF Togo
      <3> QED BY <3>1, <3>4 DEF Within
    <2>3. ASSUME [Next]_vars PROVE Within(i, n)'
      <3>1. CASE Signal(i)
        BY <2>1, <3>1 DEF Signal
      <3>2. CASE Crash(i)
        BY <1>1, <3>2 DEF Crash, Goto, Within, TypeOK
      <3>3. CASE Boot(i)
        BY <2>1, <3>3 DEF Boot
      <3>4. CASE srv'[i] = srv[i] /\ (i \in stopping' <=> i \in stopping)
        BY <1>1, <3>4 DEF Within
      <3> QED BY <1>1, <2>2, <2>3, <3>1, <3>2, <3>3, <3>4, OneStep
    <2> QED BY <2>1, <2>2, <2>3 DEF Ready
  <1> QED BY <1>1 DEF Nearing

(* Processor.Stop returns, for every set of instances and whatever the     *)
(* requests, the kills and the other instances do: the fairness asked for  *)
(* is that of FairSpec.                                                    *)
THEOREM StopCompletesHolds ==
  Spec /\ (\A i \in Instance : FairGuards(i)) => StopCompletes
  <1> SUFFICES ASSUME NEW i \in Instance
               PROVE  Spec /\ FairGuards(i) => (i \in stopping ~> srv[i].pc = "down")
    BY DEF StopCompletes
  <1>1. TypeOK /\ i \in stopping => Within(i, 5)
    BY TogoType DEF Within
  <1>2. TypeOK /\ Within(i, 0) => srv[i].pc = "down"
    BY TogoType DEF Within
  <1>3. /\ Nearing(i, 5, 4) /\ Nearing(i, 4, 3) /\ Nearing(i, 3, 2)
        /\ Nearing(i, 2, 1) /\ Nearing(i, 1, 0)
    BY Nearer
  <1> QED BY <1>1, <1>2, <1>3, TypeCorrect, PTL DEF Spec, FairGuards, Nearing

(* Polling past a row: an instance polls, and row j is unfinished and held *)
(* by nobody.                                                              *)
Stuck(i, j) ==
    /\ Polling(i)
    /\ j \in JobIds \ finished
    /\ \A k \in Instance : j \notin HeldBy(k)

(* With an unfinished row that nobody holds in the table, the select that  *)
(* skips locked rows finds one to claim, and the claim becomes a run.      *)
LEMMA StuckSteps ==
  ASSUME TypeOK, NEW i \in Instance, NEW j \in Ticket, Stuck(i, j), [Next]_vars, Stuck(i, j)'
  PROVE  /\ Loop(i) => srv'[i].pc = "fetch"
         /\ Wait(i) => srv'[i].pc = "loop"
         /\ Fetch(i) => srv'[i].pc = "claimed"
         /\ ~StartJob(i)
         /\ Serve(i) \/ srv'[i] = srv[i]
  <1> USE DEF TypeOK, Stuck, Polling
  <1>1. ASSUME Fetch(i) PROVE srv'[i].pc = "claimed"
    <2>1. PICK r \in jobs : r.id = j
      BY DEF JobIds
    <2>2. PICK skipped \in SUBSET UNION {RunBy(k) : k \in Instance} :
            \/ /\ Pending(skipped) = {}
               /\ Goto(i, "wait")
            \/ \E s \in Pending(skipped) :
                 srv' = [srv EXCEPT ![i] = [pc |-> "claimed", job |-> s.id]]
      BY <1>1 DEF Fetch
    <2>3. r \in Pending(skipped)
      BY <2>1 DEF Pending, RowLocked, HeldBy
    <2> QED BY <2>2, <2>3
  <1>2. Loop(i) => srv'[i].pc = "fetch"
    BY DEF Loop, Goto
  <1>3. Wait(i) => srv'[i].pc = "loop"
    BY DEF Wait, Goto
  <1>4. ~StartJob(i)
    BY DEF StartJob, Holding, Unladen
  <1>5. Serve(i) \/ srv'[i] = srv[i]
    <2>1. ~Crash(i) /\ ~Boot(i)
      BY DEF Crash, Boot, Goto
    <2>2. Signal(i) => srv'[i] = srv[i]
      BY DEF Signal
    <2> QED BY <2>1, <2>2, OneStep
  <1> QED BY <1>1, <1>2, <1>3, <1>4, <1>5

(* The poll loop as the prover of temporal steps sees it: the places of a  *)
(* goroutine that polls past row j, and what one step makes of each.       *)
At(i, pc) == srv[i].pc = pc

PollMoves(i, j) ==
    TypeOK /\ Stuck(i, j) /\ [Next]_vars /\ Stuck(i, j)' =>
        /\ At(i, "loop") => At(i, "loop")' \/ At(i, "fetch")'
        /\ At(i, "wait") => At(i, "wait")' \/ At(i, "loop")'
        /\ At(i, "claimed") => At(i, "claimed")' \/ At(i, "wait")'
        /\ At(i, "loop") /\ <<Serve(i)>>_vars => At(i, "fetch")'
        /\ At(i, "wait") /\ <<Serve(i)>>_vars => At(i, "loop")'
        /\ At(i, "claimed") /\ <<Serve(i)>>_vars => At(i, "wait")'
        /\ <<Fetch(i)>>_vars => At(i, "claimed")'
        /\ ~<<StartJob(i)>>_vars

LEMMA PollMovesHold ==
  ASSUME NEW i \in Instance, NEW j \in Ticket
  PROVE  PollMoves(i, j)
  <1> SUFFICES ASSUME TypeOK, Stuck(i, j), [Next]_vars, Stuck(i, j)'
               PROVE  /\ At(i, "loop") => At(i, "loop")' \/ At(i, "fetch")'
                      /\ At(i, "wait") => At(i, "wait")' \/ At(i, "loop")'
                      /\ At(i, "claimed") => At(i, "claimed")' \/ At(i, "wait")'
                      /\ At(i, "loop") /\ Serve(i) => At(i, "fetch")'
                      /\ At(i, "wait") /\ Serve(i) => At(i, "loop")'
                      /\ At(i, "claimed") /\ Serve(i) => At(i, "wait")'
                      /\ Fetch(i) => At(i, "claimed")'
                      /\ ~StartJob(i)
    BY DEF PollMoves
  <1>1. CASE Serve(i)
    <2>1. At(i, "loop") => Loop(i)
      BY <1>1 DEF At, Serve, Fetch, FetchError, StartJob, Wait, Finish, FinishError, Exit
    <2>2. At(i, "wait") => Wait(i)
      BY <1>1 DEF At, Serve, Fetch, FetchError, StartJob, Loop, Finish, FinishError, Exit
    <2>3. At(i, "claimed") => FetchError(i) \/ StartJob(i)
      BY <1>1 DEF At, Serve, Fetch, Wait, Loop, Finish, FinishError, Exit
    <2>4. FetchError(i) => srv'[i].pc = "wait"
      BY DEF FetchError, Goto, TypeOK
    <2> QED BY <1>1, <2>1, <2>2, <2>3, <2>4, StuckSteps DEF At
  <1>2. CASE ~Serve(i)
    <2>1. srv'[i] = srv[i]
      BY <1>2, StuckSteps
    <2> QED BY <1>2, <2>1 DEF At, Serve
  <1> QED BY <1>1, <1>2

(* An instance that keeps polling does not poll past an unfinished row     *)
(* that nobody holds for ever, one left behind by a killed run included.   *)
THEOREM UnfinishedPickedUpHolds ==
  Spec /\ (\A i \in Instance : FairGuards(i)) => UnfinishedPickedUp
  <1> SUFFICES ASSUME NEW i \in Instance, NEW j \in Ticket
               PROVE  Spec /\ FairGuards(i) =>
                        ((Polling(i) /\ j \in JobIds \ finished)
                            ~> \/ ~Polling(i)
                               \/ j \notin JobIds \ finished
                               \/ \E k \in Instance : j \in HeldBy(k))
    BY DEF UnfinishedPickedUp
  <1>1. \/ Stuck(i, j)
        \/ ~Polling(i)
        \/ j \notin JobIds \ finished
        \/ \E k \in Instance : j \in HeldBy(k)
    BY DEF Stuck
  <1>2. Stuck(i, j) => Ready(i)
    BY DEF Stuck, Polling, Ready
  <1>3. Stuck(i, j) => At(i, "loop") \/ At(i, "fetch") \/ At(i, "wait") \/ At(i, "claimed")
    BY DEF Stuck, Polling, At
  <1>4. PollMoves(i, j)
    BY PollMovesHold
  <1>5. /\ At(i, "fetch") <=> ~(srv[i].pc # "fetch")
        /\ At(i, "claimed") <=> ~(srv[i].pc # "claimed")
    BY DEF At
  <1> QED BY <1>1, <1>2, <1>3, <1>4, <1>5, TypeCorrect, PTL DEF Spec, FairGuards, PollMoves
=============================================================================
