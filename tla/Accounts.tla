------------------------------- MODULE Accounts -------------------------------
(***************************************************************************)
(* Commanders' accounts: the table common.cmdrs, the sessions that hold a  *)
(* copy of a row of it, and everybody who writes that table: logins        *)
(* (callback.go, common.logincmdr), self-deletion (delete.go), grants of   *)
(* the admin flag (cmdrs.go, user.go), and the folder runs, whose UpsertCmdr *)
(* locks or inserts rows for as long as their transaction is open.         *)
(*                                                                         *)
(* A row is known by its name: names are unique, and nothing renames or    *)
(* removes a commander.  Which name and which customer id a login has is   *)
(* the callback's doing: whoever comes from Frontier gets one and the same *)
(* name (callback.go:71), and the id of the testing provider's users is a  *)
(* 32-bit checksum (callback.go:78-82).  So neither identifies a person,   *)
(* and a login may get another person's commander; nothing here says that  *)
(* it does not.                                                            *)
(*                                                                         *)
(* PostgreSQL's part: a statement that is its own transaction waits for    *)
(* whoever has written the row it needs, and reads what is committed then; *)
(* a REPEATABLE READ transaction fails on a row committed by another since *)
(* its snapshot; of transactions that wait in a circle one is cancelled.   *)
(***************************************************************************)
EXTENDS Naturals, Sequences

CONSTANTS
    Person,      \* who can log in at the identity provider
    Name, Id,    \* commander names, customer ids
    NameOf,      \* the name the callback takes for a person
    IdOf,        \* the customer id it takes
    Owner,       \* names the operator has marked isowner
    Admin,       \* names that have been made admins
    Browser,     \* one session and one request at a time each
    Run,         \* folder runs
    Surveys,     \* the commanders of a run's surveys, in the order it stores them
    Nobody,      \* customerid IS NULL
    Missing,     \* no row; no session
    MaxRequests  \* bound: requests made in all

User == [row : Name, owner : BOOLEAN, admin : BOOLEAN]
Row == [link : Id \cup {Nobody}, owner : BOOLEAN, admin : BOOLEAN]

ASSUME PersonAssumption ==
    /\ NameOf \in [Person -> Name] /\ IdOf \in [Person -> Id]
    /\ Nobody \notin Id
ASSUME OwnerAssumption == Owner \subseteq Name /\ Admin \subseteq Name
ASSUME BoundAssumption == MaxRequests \in Nat
ASSUME SurveysAssumption == Surveys \in [Run -> Seq(Name)]
ASSUME MissingAssumption == Missing \notin User \cup Row \cup Name

VARIABLES
    cmdrs,       \* [Name -> the committed row of common.cmdrs]
    session,     \* [Browser -> the user in its session]
    req,         \* [Browser -> the request the server works on]
    run,         \* [Run -> its transaction]
    erased,      \* history: names whose commander has deleted the account
    requests     \* requests made so far (bound)

vars == <<cmdrs, session, req, run, erased, requests>>

-----------------------------------------------------------------------------
Idle == [pc |-> "idle"]

(* A login in logincmdr, whether the name had a row when it began (history *)
(* only), a login about to be stored, a self-deletion, a change of isadmin. *)
Request ==
    [pc : {"link", "name", "insert"}, who : Person, known : BOOLEAN]
    \cup [pc : {"store"}, user : User]
    \cup [pc : {"erase", "leave"}, row : Name]
    \cup [pc : {"check", "update"}, row : Name, admin : BOOLEAN]

(* next: the survey it is about.  held: rows it has written, those not in  *)
(* the table being its own new ones.  changed: rows others have committed  *)
(* since its snapshot.                                                     *)
Txn == [pc : {"new", "open", "closed"}, next : Nat \ {0}, held : SUBSET Name,
        changed : SUBSET Name]
NewRun == [pc |-> "new", next |-> 1, held |-> {}, changed |-> {}]
Closed == [NewRun EXCEPT !.pc = "closed"]
Open(r) == run[r].pc = "open"

Rows == {n \in Name : cmdrs[n] # Missing}

(* A row of the view v_cmdrs, as the session keeps it.                     *)
UserOf(n) == [row |-> n, owner |-> cmdrs[n].owner,
              admin |-> cmdrs[n].owner \/ cmdrs[n].admin]

TypeOK ==
    /\ cmdrs \in [Name -> Row \cup {Missing}]
    /\ session \in [Browser -> User \cup {Missing}]
    /\ req \in [Browser -> Request \cup {Idle}]
    /\ run \in [Run -> Txn]
    /\ erased \subseteq Rows
    /\ requests \in 0 .. MaxRequests

(* Any quiet state: imported commanders have rows, some people, also some  *)
(* who do not come back, have logged in and are linked, and some sessions  *)
(* are still there.                                                        *)
Init ==
    /\ cmdrs \in [Name -> Row \cup {Missing}]
    /\ Owner \subseteq Rows
    /\ \A n \in Rows :
          /\ \A m \in Rows \ {n} : cmdrs[m].link = cmdrs[n].link => cmdrs[n].link = Nobody
          /\ (cmdrs[n].owner <=> n \in Owner) /\ (cmdrs[n].admin <=> n \in Admin)
    /\ session \in [Browser -> {Missing} \cup
          {UserOf(n) : n \in {m \in Rows : cmdrs[m].link # Nobody}}]
    /\ req = [b \in Browser |-> Idle]
    /\ run = [r \in Run |-> NewRun]
    /\ erased = {}
    /\ requests = 0

-----------------------------------------------------------------------------
(* Locks and snapshots.                                                    *)

Free(n) == \A r \in Run : n \notin run[r].held

(* Other transactions see that these rows have changed.                    *)
Seen(names) == [r \in Run |->
    IF Open(r) THEN [run[r] EXCEPT !.changed = @ \cup names] ELSE run[r]]

Write(n, row) ==
    /\ cmdrs' = [cmdrs EXCEPT ![n] = row]
    /\ run' = Seen({n})

Goto(b, r) == req' = [req EXCEPT ![b] = r]

(* The browser asks for something.                                         *)
Asks(b) ==
    /\ req[b] = Idle /\ requests < MaxRequests
    /\ requests' = requests + 1

-----------------------------------------------------------------------------
(* callbackHandler: the provider has told who it is.                       *)

Login(b, p) ==
    /\ Asks(b)
    /\ Goto(b, [pc |-> "link", who |-> p, known |-> NameOf[p] \in Rows])
    /\ UNCHANGED <<cmdrs, session, run, erased>>

LinkedTo(p) == {n \in Rows : cmdrs[n].link = IdOf[p]}

(* logincmdr, by the customer id ...                                       *)
LoginByLink(b) ==
    /\ req[b].pc = "link"
    /\ LET p == req[b].who IN
       \/ \E n \in LinkedTo(p) : Goto(b, [pc |-> "store", user |-> UserOf(n)])
       \/ LinkedTo(p) = {} /\ Goto(b, [req[b] EXCEPT !.pc = "name"])
    /\ UNCHANGED <<cmdrs, session, run, erased, requests>>

(* ... then by the name, which leaves the row as it is ...                 *)
LoginByName_Skipped(b) ==        \* mutant: no lookup by name
    /\ req[b].pc = "name"
    /\ Goto(b, [req[b] EXCEPT !.pc = "insert"])
    /\ UNCHANGED <<cmdrs, session, run, erased, requests>>

LoginByName_Relinks(b) ==        \* mutant: the row found by name is linked
    /\ req[b].pc = "name"
    /\ LET p == req[b].who IN
       \/ /\ NameOf[p] \in Rows /\ Free(NameOf[p])
          /\ Goto(b, [pc |-> "store", user |-> UserOf(NameOf[p])])
          /\ Write(NameOf[p], [cmdrs[NameOf[p]] EXCEPT !.link = IdOf[p]])
       \/ /\ NameOf[p] \notin Rows /\ Goto(b, [req[b] EXCEPT !.pc = "insert"])
          /\ UNCHANGED <<cmdrs, run>>
    /\ UNCHANGED <<session, erased, requests>>

LoginByName(b) ==
    /\ req[b].pc = "name"
    /\ LET p == req[b].who IN
       \/ /\ NameOf[p] \in Rows
          /\ Goto(b, [pc |-> "store", user |-> UserOf(NameOf[p])])
       \/ NameOf[p] \notin Rows /\ Goto(b, [req[b] EXCEPT !.pc = "insert"])
    /\ UNCHANGED <<cmdrs, session, run, erased, requests>>

(* ... and then a new row; one of the unique keys may be taken by now.     *)
LoginInsert(b) ==
    /\ req[b].pc = "insert"
    /\ LET p == req[b].who
           row == [link |-> IdOf[p], owner |-> FALSE, admin |-> FALSE]
       IN  /\ Free(NameOf[p])
           /\ \/ /\ NameOf[p] \notin Rows /\ LinkedTo(p) = {}
                 /\ Write(NameOf[p], row)
                 /\ Goto(b, [pc |-> "store", user |->
                        [row |-> NameOf[p], owner |-> FALSE, admin |-> FALSE]])
              \/ /\ NameOf[p] \in Rows \/ LinkedTo(p) # {}
                 /\ Goto(b, Idle) /\ UNCHANGED <<cmdrs, run>>
    /\ UNCHANGED <<session, erased, requests>>

(* The session is saved with the redirect.                                 *)
StoreSession(b) ==
    /\ req[b].pc = "store"
    /\ session' = [session EXCEPT ![b] = req[b].user]
    /\ Goto(b, Idle)
    /\ UNCHANGED <<cmdrs, run, erased, requests>>

-----------------------------------------------------------------------------
(* Requests of a session.                                                  *)

Logout(b) ==
    /\ Asks(b) /\ session[b] # Missing
    /\ session' = [session EXCEPT ![b] = Missing]
    /\ UNCHANGED <<cmdrs, req, run, erased>>

(* deleteMeHandler: the row first, then the session of this browser.       *)
DeleteMe(b) ==
    /\ Asks(b) /\ session[b] # Missing
    /\ Goto(b, [pc |-> "erase", row |-> session[b].row])
    /\ UNCHANGED <<cmdrs, session, run, erased>>

EraseLink_Deletes(b) ==          \* mutant: the row is deleted
    /\ req[b].pc = "erase" /\ Free(req[b].row)
    /\ Write(req[b].row, Missing)
    /\ Goto(b, [req[b] EXCEPT !.pc = "leave"])
    /\ erased' = erased \cup {req[b].row}
    /\ UNCHANGED <<session, requests>>

EraseLink(b) ==
    /\ req[b].pc = "erase" /\ Free(req[b].row)
    /\ Write(req[b].row, [cmdrs[req[b].row] EXCEPT !.link = Nobody])
    /\ Goto(b, [req[b] EXCEPT !.pc = "leave"])
    /\ erased' = erased \cup {req[b].row}
    /\ UNCHANGED <<session, requests>>

Leave(b) ==
    /\ req[b].pc = "leave"
    /\ session' = [session EXCEPT ![b] = Missing]
    /\ Goto(b, Idle)
    /\ UNCHANGED <<cmdrs, run, erased, requests>>

IsOwner(b) == session[b] # Missing /\ session[b].owner

(* setCmdrAdmin, with the session's own idea of who is an owner.  A grant  *)
(* looks for the customer id in a statement of its own, so one overtaken   *)
(* by a self-deletion makes an admin of a commander without a link.        *)
SetCmdrAdmin(b, n, admin) ==
    /\ Asks(b) /\ IsOwner(b) /\ n \in Rows
    /\ Goto(b, [pc |-> IF admin THEN "check" ELSE "update", row |-> n, admin |-> admin])
    /\ UNCHANGED <<cmdrs, session, run, erased>>

CheckLink(b) ==
    /\ req[b].pc = "check"
    /\ Goto(b, IF cmdrs[req[b].row].link = Nobody THEN Idle ELSE [req[b] EXCEPT !.pc = "update"])
    /\ UNCHANGED <<cmdrs, session, run, erased, requests>>

SetAdmin(b) ==
    /\ req[b].pc = "update" /\ Free(req[b].row)
    /\ Write(req[b].row, [cmdrs[req[b].row] EXCEPT !.admin = req[b].admin])
    /\ Goto(b, Idle)
    /\ UNCHANGED <<session, erased, requests>>

(* A statement fails, the session store does not answer, or the server     *)
(* stops: the request ends where it is.                                    *)
RequestDies(b) ==
    /\ req[b] # Idle
    /\ Goto(b, Idle)
    /\ UNCHANGED <<cmdrs, session, run, erased, requests>>

-----------------------------------------------------------------------------
(* The cmdrs rows of a run's long transaction.                             *)

OpenRun(r) ==
    /\ run[r].pc = "new"
    /\ run' = [run EXCEPT ![r].pc = "open"]
    /\ UNCHANGED <<cmdrs, session, req, erased, requests>>

(* The commander of the survey to store next, if the run is not through.   *)
Wants(r, n) == Open(r) /\ run[r].next <= Len(Surveys[r]) /\ n = Surveys[r][run[r].next]
Waits(r, q) == r # q /\ \E n \in run[q].held : Wants(r, n)
Advance(r, txn) == run' = [run EXCEPT ![r] = [txn EXCEPT !.next = @ + 1]]

(* Mutant: the long transaction is READ COMMITTED.                         *)
Stale_Never(r, n) == FALSE

Stale(r, n) == n \in run[r].changed \ run[r].held

(* UpsertCmdr: the row is inserted, or written as it is; a stale one makes *)
(* the statement fail, and the survey is lost.                             *)
UpsertCmdr(r) ==
    /\ \E n \in Name :
          /\ Wants(r, n) /\ \A q \in Run : ~Waits(r, q)
          /\ \/ Stale(r, n) /\ Advance(r, run[r])
             \/ ~Stale(r, n) /\ Advance(r, [run[r] EXCEPT !.held = @ \cup {n}])
    /\ UNCHANGED <<cmdrs, session, req, erased, requests>>

(* The deadlock detector cancels the upsert; the survey is lost.           *)
UpsertCancelled(r) ==
    /\ \E circle \in SUBSET Run :
          /\ r \in circle
          /\ \A q \in circle : \E s, t \in circle : Waits(q, s) /\ Waits(t, q)
    /\ Advance(r, run[r])
    /\ UNCHANGED <<cmdrs, session, req, erased, requests>>

(* Close, after the last survey or when the service stops: new commanders  *)
(* have a name and nothing else.                                           *)
CloseRun_Leaks(r) ==             \* mutant: a run with rows is not closed
    /\ Open(r) /\ run[r].held = {}
    /\ run' = [run EXCEPT ![r] = Closed]
    /\ UNCHANGED <<cmdrs, session, req, erased, requests>>

CloseRun(r) ==
    /\ Open(r) /\ \A q \in Run : ~Waits(r, q)
    /\ cmdrs' = [n \in Name |->
          IF n \in run[r].held \ Rows THEN [link |-> Nobody, owner |-> FALSE, admin |-> FALSE]
          ELSE cmdrs[n]]
    /\ run' = [Seen(run[r].held) EXCEPT ![r] = Closed]
    /\ UNCHANGED <<session, req, erased, requests>>

(* The process is killed or its connection is lost.                        *)
LoseRun(r) ==
    /\ Open(r)
    /\ run' = [run EXCEPT ![r] = Closed]
    /\ UNCHANGED <<cmdrs, session, req, erased, requests>>

-----------------------------------------------------------------------------
RequestStep(b) ==
    \/ LoginByLink(b) \/ LoginByName(b) \/ LoginInsert(b) \/ StoreSession(b)
    \/ EraseLink(b) \/ Leave(b) \/ CheckLink(b) \/ SetAdmin(b)

Next ==
    \/ \E b \in Browser :
          \/ \E p \in Person : Login(b, p)
          \/ Logout(b) \/ DeleteMe(b)
          \/ \E n \in Name, admin \in BOOLEAN : SetCmdrAdmin(b, n, admin)
          \/ RequestStep(b) \/ RequestDies(b)
    \/ \E r \in Run :
          OpenRun(r) \/ UpsertCmdr(r) \/ UpsertCancelled(r) \/ CloseRun(r) \/ LoseRun(r)

Spec == Init /\ [][Next]_vars

(* A statement that waits for a row goes on once the row is free, and a    *)
(* run, which has finitely many surveys to store, closes its transaction.  *)
FairSpec ==
    /\ Spec
    /\ \A b \in Browser : WF_vars(RequestStep(b))
    /\ \A r \in Run : WF_vars(UpsertCmdr(r) \/ UpsertCancelled(r) \/ CloseRun(r))

-----------------------------------------------------------------------------
(* Properties.                                                             *)

(* A login whose name had a row when it began finds one, by the customer   *)
(* id or by the name: only the first login with a name inserts, so only    *)
(* that can fail on a unique key, be it against another login with the     *)
(* same name or id, or against a run that stores the first survey of the   *)
(* same commander.                                                         *)
OnlyNewInserts == \A b \in Browser : req[b].pc = "insert" => ~req[b].known

(* common.deletecmdr: "remove all personal data for a commander".  Once    *)
(* removed, no customer id is stored with the commander again, by a login  *)
(* that was under way, by the next login, or by a run.                     *)
ErasureIsFinal == \A n \in erased : cmdrs[n].link = Nobody

(* A run never writes over a row that changed after its snapshot: grants   *)
(* and deletions made during a run survive its upserts.                    *)
NoLostUpdate == \A r \in Run : run[r].held \cap run[r].changed = {}

(* Every request is answered, even if it has to wait for a run that waits  *)
(* for another run.                                                        *)
RequestsAnswered == \A b \in Browser : req[b] # Idle ~> req[b] = Idle

(* Who deletes the account is told "you will no longer be able to log in"  *)
(* (settings.component.ts): a login that looks for the name after the      *)
(* deletion does not get the commander.                                    *)
ErasedStayOut == [][\A b \in Browser :
    req[b].pc = "name" /\ NameOf[req[b].who] \in erased => req'[b].pc # "store"]_vars
=============================================================================
