----------------------------- MODULE AccountsProofs -----------------------------
(***************************************************************************)
(* What holds of the accounts for any people, names, browsers and runs.    *)
(***************************************************************************)
EXTENDS Accounts, FiniteSetTheorems, TLAPS

-----------------------------------------------------------------------------
(* Requests and transactions by their stage.                               *)

LEMMA RequestKinds ==
  ASSUME NEW x \in Request \cup {Idle}
  PROVE  /\ x.pc \in {"link", "name", "insert"} =>
              x \in [pc : {"link", "name", "insert"}, who : Person, known : BOOLEAN]
         /\ x.pc = "store" => x \in [pc : {"store"}, user : User]
         /\ x.pc \in {"erase", "leave"} => x \in [pc : {"erase", "leave"}, row : Name]
         /\ x.pc \in {"check", "update"} =>
              x \in [pc : {"check", "update"}, row : Name, admin : BOOLEAN]
  BY DEF Request, Idle

(* Rows in use exist: of sessions, and of what requests are about.         *)
KnownRequest(x, rows) ==
  /\ x.pc = "store" => x.user.row \in rows
  /\ x.pc \in {"erase", "leave", "check", "update"} => x.row \in rows
KnownSession(s, rows) == s # Missing => s.row \in rows

RowsKnown == \A b \in Browser : KnownRequest(req[b], Rows) /\ KnownSession(session[b], Rows)

TypeInv == TypeOK /\ RowsKnown

LEMMA UserType ==
  ASSUME TypeOK, NEW n \in Rows
  PROVE  UserOf(n) \in User
<1>1. n \in Name /\ cmdrs[n] \in Row
  BY DEF TypeOK, Rows
<1>2. cmdrs[n].owner \in BOOLEAN /\ cmdrs[n].admin \in BOOLEAN
  BY <1>1 DEF Row
<1>3. (cmdrs[n].owner \/ cmdrs[n].admin) \in BOOLEAN
  OBVIOUS
<1>. QED
  BY <1>1, <1>2, <1>3 DEF UserOf, User

LEMMA TypeInit == Init => TypeInv
<1>. SUFFICES ASSUME Init PROVE TypeInv
  OBVIOUS
<1>1. ASSUME NEW b \in Browser, session[b] # Missing
      PROVE  session[b] \in User /\ session[b].row \in Rows
  <2>1. PICK n \in Rows : session[b] = UserOf(n)
    BY <1>1 DEF Init
  <2>2. n \in Name /\ cmdrs[n] \in Row
    BY DEF Init, Rows
  <2>3. cmdrs[n].owner \in BOOLEAN /\ cmdrs[n].admin \in BOOLEAN
    BY <2>2 DEF Row
  <2>4. (cmdrs[n].owner \/ cmdrs[n].admin) \in BOOLEAN
    OBVIOUS
  <2>. QED
    BY <2>1, <2>2, <2>3, <2>4 DEF UserOf, User
<1>2. session \in [Browser -> User \cup {Missing}]
  <2>1. DOMAIN session = Browser /\ session = [b \in Browser |-> session[b]]
    BY DEF Init
  <2>. QED
    BY <1>1, <2>1
<1>3. NewRun \in Txn
  BY DEF NewRun, Txn
<1>4. TypeOK
  BY <1>2, <1>3, BoundAssumption DEF Init, TypeOK, Idle
<1>5. RowsKnown
  BY <1>1 DEF Init, RowsKnown, KnownRequest, KnownSession, Idle
<1>. QED
  BY <1>4, <1>5 DEF TypeInv

LEMMA SeenType == TypeOK => \A names \in SUBSET Name : Seen(names) \in [Run -> Txn]
  BY DEF TypeOK, Seen, Open, Txn

(* A write keeps the types and the rows there are.                         *)
LEMMA WriteType ==
  ASSUME TypeOK, NEW n \in Name, NEW row \in Row, Write(n, row)
  PROVE  /\ cmdrs' \in [Name -> Row \cup {Missing}]
         /\ run' \in [Run -> Txn]
         /\ Rows' = Rows \cup {n}
<1>1. row # Missing
  BY MissingAssumption
<1>2. {n} \in SUBSET Name
  OBVIOUS
<1>3. run' \in [Run -> Txn]
  BY <1>2, SeenType DEF Write
<1>. QED
  BY <1>1, <1>3 DEF Write, TypeOK, Rows

LEMMA CloseType ==
  ASSUME TypeOK, NEW r \in Run, CloseRun(r)
  PROVE  /\ cmdrs' \in [Name -> Row \cup {Missing}]
         /\ run' \in [Run -> Txn]
         /\ Rows \subseteq Rows'
<1>1. [link |-> Nobody, owner |-> FALSE, admin |-> FALSE] \in Row
  BY DEF Row
<1>2. run[r].held \in SUBSET Name
  BY DEF TypeOK, Txn
<1>3. Seen(run[r].held) \in [Run -> Txn]
  BY <1>2, SeenType
<1>4. Closed \in Txn
  BY DEF Closed, NewRun, Txn
<1>5. run' \in [Run -> Txn]
  BY <1>3, <1>4 DEF CloseRun
<1>6. cmdrs' \in [Name -> Row \cup {Missing}]
  BY <1>1 DEF CloseRun, TypeOK
<1>7. Rows \subseteq Rows'
  BY <1>1, MissingAssumption DEF CloseRun, Rows
<1>. QED
  BY <1>5, <1>6, <1>7

(* What is left to show of a step that changes one request and takes no    *)
(* row away.                                                               *)
LEMMA RequestChange ==
  ASSUME TypeInv, NEW b \in Browser, NEW x \in Request \cup {Idle}, Goto(b, x),
         Rows \subseteq Rows', KnownRequest(x, Rows')
  PROVE  /\ req' \in [Browser -> Request \cup {Idle}]
         /\ \A c \in Browser : KnownRequest(req'[c], Rows')
<1>1. req' \in [Browser -> Request \cup {Idle}]
  BY DEF TypeInv, TypeOK, Goto
<1>2. ASSUME NEW c \in Browser PROVE KnownRequest(req'[c], Rows')
  <2>1. KnownRequest(req[c], Rows)
    BY DEF TypeInv, RowsKnown
  <2>2. req'[c] = IF c = b THEN x ELSE req[c]
    BY DEF TypeInv, TypeOK, Goto
  <2>. QED
    BY <2>1, <2>2 DEF KnownRequest
<1>. QED
  BY <1>1, <1>2

(* The same if it does not touch the sessions and the table either.        *)
LEMMA OnlyRequestChanges ==
  ASSUME TypeInv, NEW b \in Browser, NEW x \in Request \cup {Idle}, Goto(b, x),
         KnownRequest(x, Rows), UNCHANGED <<cmdrs, session, run, erased>>,
         requests' \in 0 .. MaxRequests
  PROVE  TypeInv'
<1>1. Rows' = Rows
  BY DEF Rows
<1>2. /\ req' \in [Browser -> Request \cup {Idle}]
      /\ \A c \in Browser : KnownRequest(req'[c], Rows')
  BY <1>1, RequestChange
<1>. QED
  BY <1>1, <1>2 DEF TypeInv, TypeOK, RowsKnown, KnownSession

LEMMA IdleKnown == Idle \in Request \cup {Idle} /\ \A rows : KnownRequest(Idle, rows)
  BY DEF Idle, KnownRequest

LEMMA LoginSteps ==
  ASSUME TypeInv, NEW b \in Browser,
         \/ \E p \in Person : Login(b, p)
         \/ LoginByLink(b) \/ LoginByName(b) \/ StoreSession(b)
  PROVE  TypeInv'
<1>. USE DEF TypeInv
<1>0. requests \in 0 .. MaxRequests /\ req[b] \in Request \cup {Idle}
  BY DEF TypeOK
<1>1. ASSUME NEW p \in Person, Login(b, p) PROVE TypeInv'
  <2>. DEFINE x == [pc |-> "link", who |-> p, known |-> NameOf[p] \in Rows]
  <2>0. (NameOf[p] \in Rows) \in BOOLEAN
    OBVIOUS
  <2>1. x \in Request /\ KnownRequest(x, Rows)
    BY <2>0 DEF Request, KnownRequest
  <2>2. requests' \in 0 .. MaxRequests
    BY <1>0, <1>1, BoundAssumption DEF Login, Asks
  <2>. QED
    BY <1>1, <2>1, <2>2, OnlyRequestChanges DEF Login
<1>2. CASE LoginByLink(b)
  <2>2. PICK x : /\ Goto(b, x)
                 /\ \/ \E n \in LinkedTo(req[b].who) : x = [pc |-> "store", user |-> UserOf(n)]
                    \/ x = [req[b] EXCEPT !.pc = "name"]
    BY <1>2 DEF LoginByLink
  <2>3. x \in Request /\ KnownRequest(x, Rows)
    <3>1. ASSUME NEW n \in LinkedTo(req[b].who),
                 x = [pc |-> "store", user |-> UserOf(n)]
          PROVE  x \in Request /\ KnownRequest(x, Rows)
      <4>1. n \in Rows /\ UserOf(n).row = n
        BY DEF LinkedTo, UserOf
      <4>2. UserOf(n) \in User
        BY <4>1, UserType
      <4>. QED
        BY <3>1, <4>1, <4>2 DEF Request, KnownRequest
    <3>2. CASE x = [req[b] EXCEPT !.pc = "name"]
      BY <1>0, <1>2, <3>2, RequestKinds DEF LoginByLink, Request, KnownRequest
    <3>. QED
      BY <2>2, <3>1, <3>2
  <2>. QED
    BY <1>0, <1>2, <2>2, <2>3, OnlyRequestChanges DEF LoginByLink
<1>3. CASE LoginByName(b)
  <2>. DEFINE n == NameOf[req[b].who]
  <2>2. PICK x : /\ Goto(b, x)
                 /\ \/ n \in Rows /\ x = [pc |-> "store", user |-> UserOf(n)]
                    \/ x = [req[b] EXCEPT !.pc = "insert"]
    BY <1>3 DEF LoginByName
  <2>3. x \in Request /\ KnownRequest(x, Rows)
    <3>1. CASE n \in Rows /\ x = [pc |-> "store", user |-> UserOf(n)]
      <4>1. UserOf(n).row = n
        BY DEF UserOf
      <4>2. UserOf(n) \in User
        BY <3>1, UserType
      <4>. QED
        BY <3>1, <4>1, <4>2 DEF Request, KnownRequest
    <3>2. CASE x = [req[b] EXCEPT !.pc = "insert"]
      BY <1>0, <1>3, <3>2, RequestKinds DEF LoginByName, Request, KnownRequest
    <3>. QED
      BY <2>2, <3>1, <3>2
  <2>. QED
    BY <1>0, <1>3, <2>2, <2>3, OnlyRequestChanges DEF LoginByName
<1>4. CASE StoreSession(b)
  <2>1. req[b].user \in User /\ req[b].user.row \in Rows
    BY <1>0, <1>4, RequestKinds DEF StoreSession, RowsKnown, KnownRequest
  <2>2. Rows' = Rows
    BY <1>4 DEF StoreSession, Rows
  <2>3. /\ req' \in [Browser -> Request \cup {Idle}]
        /\ \A c \in Browser : KnownRequest(req'[c], Rows')
    BY <1>4, <2>2, IdleKnown, RequestChange DEF StoreSession
  <2>4. session' = [session EXCEPT ![b] = req[b].user]
    BY <1>4 DEF StoreSession
  <2>. QED
    BY <1>4, <2>1, <2>2, <2>3, <2>4 DEF StoreSession, TypeOK, RowsKnown, KnownSession
<1>. QED
  BY <1>1, <1>2, <1>3, <1>4

LEMMA InsertStep ==
  ASSUME TypeInv, NEW b \in Browser, LoginInsert(b)
  PROVE  TypeInv'
<1>. USE DEF TypeInv
<1>. DEFINE p == req[b].who
            row == [link |-> IdOf[p], owner |-> FALSE, admin |-> FALSE]
            user == [row |-> NameOf[p], owner |-> FALSE, admin |-> FALSE]
            x == [pc |-> "store", user |-> user]
<1>0. requests' \in 0 .. MaxRequests /\ req[b] \in Request \cup {Idle} /\ session' = session
  BY DEF TypeOK, LoginInsert
<1>1. IdOf[p] \in Id /\ NameOf[p] \in Name
  BY <1>0, RequestKinds, PersonAssumption DEF LoginInsert
<1>2. CASE Write(NameOf[p], row) /\ Goto(b, x)
  <2>1. row \in Row /\ user \in User
    BY <1>1 DEF Row, User
  <2>2. /\ cmdrs' \in [Name -> Row \cup {Missing}] /\ run' \in [Run -> Txn]
        /\ Rows' = Rows \cup {NameOf[p]}
    BY <1>1, <1>2, <2>1, WriteType
  <2>3. x \in Request /\ KnownRequest(x, Rows')
    BY <2>1, <2>2 DEF Request, KnownRequest
  <2>4. /\ req' \in [Browser -> Request \cup {Idle}]
        /\ \A c \in Browser : KnownRequest(req'[c], Rows')
    BY <1>2, <2>2, <2>3, RequestChange
  <2>. QED
    BY <1>0, <2>2, <2>4 DEF LoginInsert, TypeOK, RowsKnown, KnownSession
<1>3. CASE Goto(b, Idle) /\ UNCHANGED <<cmdrs, run>>
  BY <1>0, <1>3, IdleKnown, OnlyRequestChanges DEF LoginInsert
<1>. QED
  BY <1>2, <1>3 DEF LoginInsert

(* Requests that write a row of the table which exists.                    *)
LEMMA RowWritten ==
  ASSUME TypeInv, NEW b \in Browser, NEW row \in Row, NEW x \in Request \cup {Idle},
         req[b].pc \in {"erase", "update"}, Write(req[b].row, row), Goto(b, x),
         KnownRequest(x, Rows), UNCHANGED <<session, requests>>,
         erased' \in {erased, erased \cup {req[b].row}}
  PROVE  TypeInv'
<1>. USE DEF TypeInv
<1>1. req[b].row \in Rows /\ req[b].row \in Name
  BY DEF RowsKnown, KnownRequest, Rows
<1>2. /\ cmdrs' \in [Name -> Row \cup {Missing}] /\ run' \in [Run -> Txn]
      /\ Rows' = Rows
  BY <1>1, WriteType
<1>3. /\ req' \in [Browser -> Request \cup {Idle}]
      /\ \A c \in Browser : KnownRequest(req'[c], Rows')
  BY <1>2, RequestChange
<1>. QED
  BY <1>1, <1>2, <1>3 DEF TypeOK, RowsKnown, KnownSession

LEMMA SessionSteps ==
  ASSUME TypeInv, NEW b \in Browser,
         \/ Logout(b) \/ DeleteMe(b) \/ EraseLink(b) \/ Leave(b)
         \/ \E n \in Name, admin \in BOOLEAN : SetCmdrAdmin(b, n, admin)
         \/ CheckLink(b) \/ SetAdmin(b) \/ RequestDies(b)
  PROVE  TypeInv'
<1>. USE DEF TypeInv
<1>0. requests \in 0 .. MaxRequests /\ req[b] \in Request \cup {Idle}
  BY DEF TypeOK
<1>1. CASE Logout(b)
  <2>1. requests' \in 0 .. MaxRequests /\ Rows' = Rows
    BY <1>0, <1>1, BoundAssumption DEF Logout, Asks, Rows
  <2>. QED
    BY <1>1, <2>1 DEF Logout, TypeOK, RowsKnown, KnownSession
<1>2. CASE DeleteMe(b)
  <2>. DEFINE x == [pc |-> "erase", row |-> session[b].row]
  <2>1. session[b].row \in Rows /\ session[b].row \in Name
    BY <1>2 DEF DeleteMe, RowsKnown, KnownSession, Rows
  <2>2. x \in Request /\ KnownRequest(x, Rows)
    BY <2>1 DEF Request, KnownRequest
  <2>3. requests' \in 0 .. MaxRequests
    BY <1>0, <1>2, BoundAssumption DEF DeleteMe, Asks
  <2>. QED
    BY <1>2, <2>2, <2>3, OnlyRequestChanges DEF DeleteMe
<1>3. CASE EraseLink(b)
  <2>. DEFINE row == [cmdrs[req[b].row] EXCEPT !.link = Nobody]
              x == [req[b] EXCEPT !.pc = "leave"]
  <2>1. req[b] \in [pc : {"erase", "leave"}, row : Name] /\ req[b].row \in Rows
    BY <1>0, <1>3, RequestKinds DEF EraseLink, RowsKnown, KnownRequest
  <2>2. row \in Row
    BY <2>1 DEF TypeOK, Rows, Row
  <2>3. x \in Request /\ KnownRequest(x, Rows)
    BY <2>1 DEF Request, KnownRequest
  <2>. QED
    BY <1>3, <2>2, <2>3, RowWritten DEF EraseLink
<1>4. CASE Leave(b)
  <2>1. Rows' = Rows
    BY <1>4 DEF Leave, Rows
  <2>2. /\ req' \in [Browser -> Request \cup {Idle}]
        /\ \A c \in Browser : KnownRequest(req'[c], Rows')
    BY <1>4, <2>1, IdleKnown, RequestChange DEF Leave
  <2>. QED
    BY <1>4, <2>1, <2>2 DEF Leave, TypeOK, RowsKnown, KnownSession
<1>5. ASSUME NEW n \in Name, NEW admin \in BOOLEAN, SetCmdrAdmin(b, n, admin) PROVE TypeInv'
  <2>. DEFINE x == [pc |-> IF admin THEN "check" ELSE "update", row |-> n, admin |-> admin]
  <2>1. x \in Request /\ KnownRequest(x, Rows)
    BY <1>5 DEF SetCmdrAdmin, Request, KnownRequest
  <2>2. requests' \in 0 .. MaxRequests
    BY <1>0, <1>5, BoundAssumption DEF SetCmdrAdmin, Asks
  <2>. QED
    BY <1>5, <2>1, <2>2, OnlyRequestChanges DEF SetCmdrAdmin
<1>6. CASE CheckLink(b)
  <2>. DEFINE x == [req[b] EXCEPT !.pc = "update"]
  <2>1. /\ req[b] \in [pc : {"check", "update"}, row : Name, admin : BOOLEAN]
        /\ req[b].row \in Rows
    BY <1>0, <1>6, RequestKinds DEF CheckLink, RowsKnown, KnownRequest
  <2>2. x \in Request /\ KnownRequest(x, Rows)
    BY <2>1 DEF Request, KnownRequest
  <2>3. Goto(b, Idle) \/ Goto(b, x)
    BY <1>6 DEF CheckLink
  <2>. QED
    BY <1>0, <1>6, <2>2, <2>3, IdleKnown, OnlyRequestChanges DEF CheckLink
<1>7. CASE SetAdmin(b)
  <2>. DEFINE row == [cmdrs[req[b].row] EXCEPT !.admin = req[b].admin]
  <2>1. /\ req[b] \in [pc : {"check", "update"}, row : Name, admin : BOOLEAN]
        /\ req[b].row \in Rows
    BY <1>0, <1>7, RequestKinds DEF SetAdmin, RowsKnown, KnownRequest
  <2>2. row \in Row
    BY <2>1 DEF TypeOK, Rows, Row
  <2>. QED
    BY <1>7, <2>2, IdleKnown, RowWritten DEF SetAdmin
<1>8. CASE RequestDies(b)
  BY <1>0, <1>8, IdleKnown, OnlyRequestChanges DEF RequestDies
<1>. QED
  BY <1>1, <1>2, <1>3, <1>4, <1>5, <1>6, <1>7, <1>8

LEMMA RunSteps ==
  ASSUME TypeInv, NEW r \in Run,
         OpenRun(r) \/ UpsertCmdr(r) \/ UpsertCancelled(r) \/ CloseRun(r) \/ LoseRun(r)
  PROVE  TypeInv'
<1>. USE DEF TypeInv
<1>0. run \in [Run -> Txn] /\ run[r] \in Txn
  BY DEF TypeOK
<1>1. ASSUME run' \in [Run -> Txn], UNCHANGED <<cmdrs, session, req, erased, requests>>
      PROVE  TypeInv'
  <2>1. Rows' = Rows
    BY <1>1 DEF Rows
  <2>. QED
    BY <1>1, <2>1 DEF TypeOK, RowsKnown
<1>2. CASE OpenRun(r)
  <2>1. [run[r] EXCEPT !.pc = "open"] \in Txn
    BY <1>0 DEF Txn
  <2>2. run' = [run EXCEPT ![r] = [run[r] EXCEPT !.pc = "open"]]
    BY <1>2 DEF OpenRun
  <2>. QED
    BY <1>0, <1>1, <1>2, <2>1, <2>2 DEF OpenRun
<1>3. ASSUME NEW txn \in Txn, Advance(r, txn) PROVE run' \in [Run -> Txn]
  <2>1. [txn EXCEPT !.next = @ + 1] \in Txn
    <3>1. txn.next + 1 \in Nat \ {0}
      BY DEF Txn
    <3>. QED
      BY <3>1 DEF Txn
  <2>. QED
    BY <1>0, <1>3, <2>1 DEF Advance
<1>4. CASE UpsertCmdr(r)
  <2>1. ASSUME NEW n \in Name PROVE [run[r] EXCEPT !.held = @ \cup {n}] \in Txn
    BY <1>0 DEF Txn
  <2>. QED
    BY <1>0, <1>1, <1>3, <1>4, <2>1 DEF UpsertCmdr
<1>5. CASE UpsertCancelled(r)
  BY <1>0, <1>1, <1>3, <1>5 DEF UpsertCancelled
<1>6. CASE CloseRun(r)
  <2>1. /\ cmdrs' \in [Name -> Row \cup {Missing}] /\ run' \in [Run -> Txn]
        /\ Rows \subseteq Rows'
    BY <1>6, CloseType
  <2>. QED
    BY <1>6, <2>1 DEF CloseRun, TypeOK, RowsKnown, KnownRequest, KnownSession
<1>7. CASE LoseRun(r)
  <2>1. Closed \in Txn
    BY DEF Closed, NewRun, Txn
  <2>. QED
    BY <1>0, <1>1, <1>7, <2>1 DEF LoseRun
<1>. QED
  BY <1>2, <1>4, <1>5, <1>6, <1>7

LEMMA TypeStep == TypeInv /\ [Next]_vars => TypeInv'
<1>1. CASE UNCHANGED vars
  BY <1>1 DEF TypeInv, TypeOK, RowsKnown, KnownRequest, KnownSession, Rows, vars
<1>2. ASSUME TypeInv, Next PROVE TypeInv'
  BY <1>2, LoginSteps, InsertStep, SessionSteps, RunSteps DEF Next, RequestStep
<1>. QED
  BY <1>1, <1>2

(* Type correctness: rows keep their types, and a row that a session or a  *)
(* request is about exists.                                                *)
THEOREM TypeCorrect == Spec => []TypeOK
<1>1. TypeInv => TypeOK
  BY DEF TypeInv
<1>. QED
  BY <1>1, TypeInit, TypeStep, PTL DEF Spec

LEMMA TypeInvHolds == Spec => []TypeInv
  BY TypeInit, TypeStep, PTL DEF Spec

-----------------------------------------------------------------------------
(* Runs.                                                                   *)

(* A row is written by one run at a time.                                  *)
HeldOnce == \A r, q \in Run : r # q => run[r].held \cap run[q].held = {}

LockInv == HeldOnce /\ NoLostUpdate

LEMMA LockInit == Init => LockInv
  BY DEF Init, LockInv, HeldOnce, NoLostUpdate, NewRun

(* What a commit shows to the runs.                                        *)
LEMMA SeenKeepsLocks ==
  ASSUME TypeInv, LockInv, NEW names, run' = Seen(names),
         \A r \in Run : run[r].held \cap names = {}
  PROVE  LockInv'
<1>1. ASSUME NEW r \in Run
      PROVE  run'[r].held = run[r].held /\ run'[r].changed \subseteq run[r].changed \cup names
  BY DEF Seen, TypeInv, TypeOK, Txn
<1>. QED
  BY <1>1 DEF LockInv, HeldOnce, NoLostUpdate

LEMMA LockStep == TypeInv /\ LockInv /\ [Next]_vars => LockInv'
<1>. SUFFICES ASSUME TypeInv, LockInv, [Next]_vars PROVE LockInv'
  OBVIOUS
<1>0. run \in [Run -> Txn]
  BY DEF TypeInv, TypeOK
<1>1. CASE UNCHANGED run
  BY <1>1 DEF LockInv, HeldOnce, NoLostUpdate
<1>2. ASSUME NEW n, NEW row, Free(n), Write(n, row) PROVE LockInv'
  BY <1>2, SeenKeepsLocks DEF Free, Write
<1>3. ASSUME NEW r \in Run, NEW txn,
             run' = [run EXCEPT ![r] = txn],
             txn.held = {} \/ (txn.held = run[r].held /\ txn.changed = run[r].changed)
      PROVE  LockInv'
  BY <1>0, <1>3 DEF LockInv, HeldOnce, NoLostUpdate
<1>4. ASSUME NEW r \in Run, Advance(r, run[r]) PROVE LockInv'
  BY <1>0, <1>3, <1>4 DEF Advance, Txn
<1>5. ASSUME NEW r \in Run, OpenRun(r) PROVE LockInv'
  <2>. DEFINE txn == [run[r] EXCEPT !.pc = "open"]
  <2>1. run' = [run EXCEPT ![r] = txn]
    BY <1>5 DEF OpenRun
  <2>2. txn.held = run[r].held /\ txn.changed = run[r].changed
    BY <1>0 DEF Txn
  <2>. QED
    BY <1>3, <2>1, <2>2
<1>6. ASSUME NEW r \in Run, UpsertCmdr(r) PROVE LockInv'
  <2>1. PICK n \in Name :
          /\ Wants(r, n) /\ \A q \in Run : ~Waits(r, q)
          /\ \/ Advance(r, run[r])
             \/ ~Stale(r, n) /\ Advance(r, [run[r] EXCEPT !.held = @ \cup {n}])
    BY <1>6 DEF UpsertCmdr
  <2>2. CASE ~Stale(r, n) /\ Advance(r, [run[r] EXCEPT !.held = @ \cup {n}])
    <3>1. ASSUME NEW q \in Run
          PROVE  /\ run'[q].held = IF q = r THEN run[r].held \cup {n} ELSE run[q].held
                 /\ run'[q].changed = run[q].changed
      BY <1>0, <2>2 DEF Advance, Txn
    <3>2. \A q \in Run : q # r => n \notin run[q].held
      BY <2>1 DEF Waits
    <3>3. n \notin run[r].changed
      BY <2>2 DEF Stale, LockInv, NoLostUpdate
    <3>. QED
      BY <3>1, <3>2, <3>3 DEF LockInv, HeldOnce, NoLostUpdate
  <2>. QED
    BY <1>4, <2>1, <2>2
<1>7. ASSUME NEW r \in Run, CloseRun(r) PROVE LockInv'
  <2>1. ASSUME NEW q \in Run, q # r
        PROVE  /\ run'[q].held = run[q].held
               /\ run'[q].changed \subseteq run[q].changed \cup run[r].held
    BY <1>0, <1>7, <2>1 DEF CloseRun, Seen, Txn
  <2>2. run'[r].held = {} /\ run'[r].changed = {}
    BY <1>0, <1>7 DEF CloseRun, Seen, Closed, NewRun
  <2>. QED
    BY <2>1, <2>2 DEF LockInv, HeldOnce, NoLostUpdate
<1>8. ASSUME NEW r \in Run, LoseRun(r) PROVE LockInv'
  <2>1. Closed.held = {}
    BY DEF Closed, NewRun
  <2>. QED
    BY <1>3, <1>8, <2>1 DEF LoseRun
<1>9. ASSUME NEW b \in Browser, LoginInsert(b) \/ EraseLink(b) \/ SetAdmin(b) PROVE LockInv'
  BY <1>1, <1>2, <1>9 DEF LoginInsert, EraseLink, SetAdmin
<1>10. ASSUME NEW r \in Run, UpsertCancelled(r) PROVE LockInv'
  BY <1>4, <1>10 DEF UpsertCancelled
<1>11. ASSUME NEW b \in Browser, LoginByLink(b) \/ LoginByName(b) \/ StoreSession(b) \/ Leave(b)
                 \/ CheckLink(b) \/ Logout(b) \/ DeleteMe(b) \/ RequestDies(b)
                 \/ (\E p \in Person : Login(b, p))
                 \/ (\E n \in Name, admin \in BOOLEAN : SetCmdrAdmin(b, n, admin))
       PROVE  UNCHANGED run
  BY <1>11 DEF LoginByLink, LoginByName, StoreSession, Leave, CheckLink, Logout, DeleteMe,
               RequestDies, Login, SetCmdrAdmin
<1>12. CASE UNCHANGED vars
  BY <1>1, <1>12 DEF vars
<1>. QED
  BY <1>1, <1>5, <1>6, <1>7, <1>8, <1>9, <1>10, <1>11, <1>12 DEF Next, RequestStep

(* UpsertCmdr under REPEATABLE READ: no run writes over a row that changed *)
(* after its snapshot, whatever the runs and the requests do.              *)
THEOREM NoLostUpdateHolds == Spec => []NoLostUpdate
<1>1. LockInv => NoLostUpdate
  BY DEF LockInv
<1>. QED
  BY <1>1, LockInit, LockStep, TypeInvHolds, PTL DEF Spec

-----------------------------------------------------------------------------
(* The rows of the table over time.                                        *)

(* What a step may do to a row: it stays, and its customer id is only ever *)
(* removed.                                                                *)
RowEvolves(n) ==
  /\ n \in Rows'
  /\ \/ cmdrs'[n].link = cmdrs[n].link
     \/ cmdrs'[n].link = Nobody /\ n \in erased'

RowsEvolve ==
  /\ \A n \in erased' \ erased : cmdrs'[n].link = Nobody
  /\ \A n \in Rows : RowEvolves(n)

LEMMA RowStep == TypeInv /\ [Next]_vars => RowsEvolve
<1>. SUFFICES ASSUME TypeInv, [Next]_vars PROVE RowsEvolve
  OBVIOUS
<1>0. /\ cmdrs \in [Name -> Row \cup {Missing}]
      /\ \A n \in Rows : n \in Name /\ cmdrs[n] \in Row
  BY DEF TypeInv, TypeOK, Rows
<1>1. CASE UNCHANGED <<cmdrs, erased>>
  BY <1>1 DEF RowsEvolve, RowEvolves, Rows
<1>2. ASSUME NEW b \in Browser, LoginInsert(b) PROVE RowsEvolve
  <2>. DEFINE p == req[b].who
              row == [link |-> IdOf[p], owner |-> FALSE, admin |-> FALSE]
  <2>1. IdOf[p] \in Id /\ NameOf[p] \in Name
    BY <1>2, RequestKinds, PersonAssumption DEF LoginInsert, TypeInv, TypeOK
  <2>2. row \in Row
    BY <2>1 DEF Row
  <2>3. CASE NameOf[p] \notin Rows /\ Write(NameOf[p], row)
    <3>1. Rows' = Rows \cup {NameOf[p]}
      BY <2>1, <2>2, <2>3, WriteType DEF TypeInv
    <3>2. cmdrs' = [cmdrs EXCEPT ![NameOf[p]] = row]
      BY <2>3 DEF Write
    <3>. QED
      BY <1>0, <1>2, <2>1, <2>3, <3>1, <3>2 DEF LoginInsert, RowsEvolve, RowEvolves
  <2>. QED
    BY <1>1, <1>2, <2>3 DEF LoginInsert
<1>3. ASSUME NEW b \in Browser, EraseLink(b) PROVE RowsEvolve
  <2>. DEFINE n == req[b].row
              row == [cmdrs[n] EXCEPT !.link = Nobody]
  <2>1. n \in Rows /\ cmdrs[n] \in Row /\ n \in Name
    BY <1>0, <1>3 DEF EraseLink, TypeInv, RowsKnown, KnownRequest
  <2>2. row \in Row /\ row.link = Nobody
    BY <2>1 DEF Row
  <2>3. cmdrs' = [cmdrs EXCEPT ![n] = row] /\ Write(n, row) /\ erased' = erased \cup {n}
    BY <1>3 DEF EraseLink, Write
  <2>4. Rows' = Rows
    BY <2>1, <2>2, <2>3, WriteType DEF TypeInv
  <2>. QED
    BY <1>0, <2>1, <2>2, <2>3, <2>4 DEF RowsEvolve, RowEvolves
<1>4. ASSUME NEW b \in Browser, SetAdmin(b) PROVE RowsEvolve
  <2>. DEFINE n == req[b].row
              row == [cmdrs[n] EXCEPT !.admin = req[b].admin]
  <2>1. n \in Rows /\ cmdrs[n] \in Row /\ n \in Name
    BY <1>0, <1>4 DEF SetAdmin, TypeInv, RowsKnown, KnownRequest
  <2>2. req[b].admin \in BOOLEAN
    BY <1>4, RequestKinds DEF SetAdmin, TypeInv, TypeOK
  <2>3. row \in Row /\ row.link = cmdrs[n].link
    BY <2>1, <2>2 DEF Row
  <2>4. cmdrs' = [cmdrs EXCEPT ![n] = row] /\ Write(n, row) /\ erased' = erased
    BY <1>4 DEF SetAdmin, Write
  <2>5. Rows' = Rows
    <3>. HIDE DEF n, row
    <3>1. Rows' = Rows \cup {n}
      BY <2>1, <2>3, <2>4, WriteType DEF TypeInv
    <3>. QED
      BY <2>1, <3>1
  <2>. QED
    BY <1>0, <1>4, <2>1, <2>3, <2>4, <2>5 DEF RowsEvolve, RowEvolves, SetAdmin
<1>5. ASSUME NEW r \in Run, CloseRun(r) PROVE RowsEvolve
  <2>. DEFINE row == [link |-> Nobody, owner |-> FALSE, admin |-> FALSE]
  <2>1. \A n \in Name : cmdrs'[n] = IF n \in run[r].held \ Rows THEN row ELSE cmdrs[n]
    BY <1>5 DEF CloseRun
  <2>2. Rows \subseteq Rows' /\ erased' = erased
    BY <1>5, CloseType DEF TypeInv, CloseRun
  <2>3. \A n \in Rows : cmdrs'[n] = cmdrs[n]
    BY <2>1 DEF Rows
  <2>. QED
    BY <2>2, <2>3 DEF RowsEvolve, RowEvolves
<1>6. ASSUME NEW b \in Browser,
                 \/ LoginByLink(b) \/ LoginByName(b) \/ StoreSession(b) \/ Leave(b)
                 \/ CheckLink(b) \/ Logout(b) \/ DeleteMe(b) \/ RequestDies(b)
                 \/ (\E p \in Person : Login(b, p))
                 \/ (\E n \in Name, admin \in BOOLEAN : SetCmdrAdmin(b, n, admin))
      PROVE  UNCHANGED <<cmdrs, erased>>
  BY <1>6 DEF LoginByLink, LoginByName, StoreSession, Leave, CheckLink, Logout, DeleteMe,
              RequestDies, Login, SetCmdrAdmin
<1>7. ASSUME NEW r \in Run,
                 OpenRun(r) \/ UpsertCmdr(r) \/ UpsertCancelled(r) \/ LoseRun(r)
      PROVE  UNCHANGED <<cmdrs, erased>>
  BY <1>7 DEF OpenRun, UpsertCmdr, UpsertCancelled, LoseRun
<1>8. CASE UNCHANGED vars
  BY <1>1, <1>8 DEF vars
<1>. QED
  BY <1>1, <1>2, <1>3, <1>4, <1>5, <1>6, <1>7, <1>8 DEF Next, RequestStep

-----------------------------------------------------------------------------
(* Accounts.                                                               *)

(* What a login under way knows of the row with its name.                  *)
RequestInv(x) ==
  /\ x.pc \in {"link", "name", "insert"} => (x.known => NameOf[x.who] \in Rows)
  /\ x.pc = "insert" => ~x.known

AccountInv == ErasureIsFinal /\ \A b \in Browser : RequestInv(req[b])

LEMMA AccountInit == Init => AccountInv
  BY DEF Init, AccountInv, ErasureIsFinal, RequestInv, Idle

(* What was true of a request stays so.                                    *)
LEMMA KnownStays ==
  ASSUME RowsEvolve, NEW x, RequestInv(x)
  PROVE  RequestInv(x)'
  BY DEF RowsEvolve, RowEvolves, RequestInv

LEMMA ErasureStep ==
  ASSUME TypeInv, AccountInv, RowsEvolve
  PROVE  ErasureIsFinal'
<1>1. ASSUME NEW n \in erased', n \in erased PROVE cmdrs'[n].link = Nobody
  <2>1. cmdrs[n].link = Nobody
    BY <1>1 DEF AccountInv, ErasureIsFinal
  <2>2. n \in Rows
    BY <1>1 DEF TypeInv, TypeOK
  <2>. QED
    BY <2>1, <2>2 DEF RowsEvolve, RowEvolves
<1>. QED
  BY <1>1 DEF RowsEvolve, ErasureIsFinal

(* The requests after a step of one of them.                               *)
LEMMA OneRequestChanges ==
  ASSUME TypeInv, AccountInv, RowsEvolve, NEW b \in Browser, NEW x, Goto(b, x), RequestInv(x)
  PROVE  (\A c \in Browser : RequestInv(req[c]))'
<1>. SUFFICES ASSUME NEW c \in Browser PROVE RequestInv(req[c])'
  OBVIOUS
<1>1. PICK y : y = req'[c] /\ RequestInv(y)
  BY DEF Goto, TypeInv, TypeOK, AccountInv
<1>2. RequestInv(y)'
  BY <1>1, KnownStays
<1>. QED
  BY <1>1, <1>2 DEF RequestInv

(* What a new request knows, action by action.                             *)
LEMMA NewRequests ==
  ASSUME TypeInv, AccountInv, RowsEvolve, NEW b \in Browser,
         \/ \E p \in Person : Login(b, p)
         \/ DeleteMe(b) \/ Leave(b) \/ RequestDies(b) \/ RequestStep(b)
         \/ \E n \in Name, admin \in BOOLEAN : SetCmdrAdmin(b, n, admin)
  PROVE  (\A c \in Browser : RequestInv(req[c]))'
<1>0. req[b] \in Request \cup {Idle} /\ RequestInv(req[b])
  BY DEF TypeInv, TypeOK, AccountInv
<1>. SUFFICES \E x : Goto(b, x) /\ RequestInv(x)
  BY OneRequestChanges
<1>1. ASSUME NEW x, x.pc \in {"idle", "store", "erase", "leave", "check", "update"}
      PROVE  RequestInv(x)
  BY <1>1 DEF RequestInv
<1>2. ASSUME NEW p \in Person, Login(b, p) PROVE \E x : Goto(b, x) /\ RequestInv(x)
  <2>. DEFINE x == [pc |-> "link", who |-> p, known |-> NameOf[p] \in Rows]
  <2>1. Goto(b, x)
    BY <1>2 DEF Login
  <2>2. RequestInv(x)
    BY DEF RequestInv
  <2>. QED
    BY <2>1, <2>2
<1>3. CASE LoginByLink(b)
  <2>1. req[b] \in [pc : {"link", "name", "insert"}, who : Person, known : BOOLEAN]
    BY <1>0, <1>3, RequestKinds DEF LoginByLink
  <2>2. RequestInv([req[b] EXCEPT !.pc = "name"])
    BY <1>0, <1>3, <2>1 DEF RequestInv, LoginByLink
  <2>3. ASSUME NEW n \in LinkedTo(req[b].who)
        PROVE  RequestInv([pc |-> "store", user |-> UserOf(n)])
    BY <1>1
  <2>. QED
    BY <1>3, <2>2, <2>3 DEF LoginByLink
<1>4. CASE LoginByName(b)
  <2>1. req[b] \in [pc : {"link", "name", "insert"}, who : Person, known : BOOLEAN]
    BY <1>0, <1>4, RequestKinds DEF LoginByName
  <2>2. ASSUME NameOf[req[b].who] \notin Rows
        PROVE  RequestInv([req[b] EXCEPT !.pc = "insert"])
    BY <1>0, <1>4, <2>1, <2>2 DEF RequestInv, LoginByName
  <2>3. RequestInv([pc |-> "store", user |-> UserOf(NameOf[req[b].who])])
    BY <1>1
  <2>. QED
    BY <1>4, <2>2, <2>3 DEF LoginByName
<1>5. CASE LoginInsert(b)
  <2>. DEFINE x == [pc |-> "store", user |->
                       [row |-> NameOf[req[b].who], owner |-> FALSE, admin |-> FALSE]]
  <2>1. Goto(b, Idle) \/ Goto(b, x)
    BY <1>5 DEF LoginInsert
  <2>2. RequestInv(x) /\ RequestInv(Idle)
    BY <1>1 DEF Idle
  <2>. QED
    BY <2>1, <2>2
<1>6. CASE CheckLink(b) \/ EraseLink(b)
  <2>1. req[b] \in [pc : {"check", "update"}, row : Name, admin : BOOLEAN]
                   \cup [pc : {"erase", "leave"}, row : Name]
    BY <1>0, <1>6, RequestKinds DEF CheckLink, EraseLink
  <2>2. \E x : Goto(b, x) /\ x.pc \in {"idle", "update", "leave"}
    BY <1>6, <2>1 DEF CheckLink, EraseLink, Idle
  <2>. QED
    BY <1>1, <2>2
<1>7. ASSUME NEW n \in Name, NEW admin \in BOOLEAN, SetCmdrAdmin(b, n, admin)
      PROVE  \E x : Goto(b, x) /\ RequestInv(x)
  <2>1. \E x : Goto(b, x) /\ x.pc \in {"check", "update"}
    BY <1>7 DEF SetCmdrAdmin
  <2>. QED
    BY <1>1, <2>1
<1>8. CASE DeleteMe(b)
  BY <1>1, <1>8 DEF DeleteMe
<1>9. CASE StoreSession(b) \/ Leave(b) \/ SetAdmin(b) \/ RequestDies(b)
  BY <1>1, <1>9 DEF StoreSession, Leave, SetAdmin, RequestDies, Idle
<1>. QED
  BY <1>2, <1>3, <1>4, <1>5, <1>6, <1>7, <1>8, <1>9 DEF RequestStep

LEMMA AccountStep == TypeInv /\ AccountInv /\ [Next]_vars => AccountInv'
<1>. SUFFICES ASSUME TypeInv, AccountInv, [Next]_vars PROVE AccountInv'
  OBVIOUS
<1>1. RowsEvolve
  BY RowStep
<1>2. ErasureIsFinal'
  BY <1>1, ErasureStep
<1>3. (\A c \in Browser : RequestInv(req[c]))'
  <2>1. CASE UNCHANGED req
    <3>. SUFFICES ASSUME NEW c \in Browser PROVE RequestInv(req[c])'
      OBVIOUS
    <3>1. PICK y : y = req[c] /\ RequestInv(y)
      BY DEF AccountInv
    <3>2. RequestInv(y)' /\ req'[c] = y
      BY <1>1, <2>1, <3>1, KnownStays
    <3>. QED
      BY <3>2 DEF RequestInv
  <2>2. ASSUME NEW b \in Browser, Logout(b) PROVE UNCHANGED req
    BY <2>2 DEF Logout
  <2>3. ASSUME NEW r \in Run,
                   OpenRun(r) \/ UpsertCmdr(r) \/ UpsertCancelled(r) \/ CloseRun(r) \/ LoseRun(r)
        PROVE  UNCHANGED req
    BY <2>3 DEF OpenRun, UpsertCmdr, UpsertCancelled, CloseRun, LoseRun
  <2>4. CASE UNCHANGED vars
    BY <2>1, <2>4 DEF vars
  <2>. QED
    BY <1>1, <2>1, <2>2, <2>3, <2>4, NewRequests DEF Next
<1>. QED
  BY <1>2, <1>3 DEF AccountInv

LEMMA AccountInvHolds == Spec => []AccountInv
  BY AccountInit, AccountStep, TypeInvHolds, PTL DEF Spec

(* common.logincmdr inserts only for a name that had no row when the login *)
(* began, whatever other logins and the runs insert meanwhile.             *)
THEOREM OnlyNewInsertsHolds == Spec => []OnlyNewInserts
<1>1. AccountInv => OnlyNewInserts
  BY DEF AccountInv, RequestInv, OnlyNewInserts
<1>. QED
  BY <1>1, AccountInvHolds, PTL

(* A removed customer id is not stored again.                              *)
THEOREM ErasureIsFinalHolds == Spec => []ErasureIsFinal
<1>1. AccountInv => ErasureIsFinal
  BY DEF AccountInv
<1>. QED
  BY <1>1, AccountInvHolds, PTL

-----------------------------------------------------------------------------
(* Runs and requests that wait.  CanGoOn is the guard of a run's own steps *)
(* (UpsertCmdr, UpsertCancelled, CloseRun), CanServe that of RequestStep;  *)
(* TLC finds both to agree with ENABLED, for three runs.                   *)

OpenRuns == {r \in Run : Open(r)}

InCircle(r) == \E circle \in SUBSET Run :
    r \in circle /\ \A q \in circle : \E s, t \in circle : Waits(q, s) /\ Waits(t, q)
CanGoOn(r) == Open(r) /\ ((\A q \in Run : ~Waits(r, q)) \/ InCircle(r))

RowNeeded(x) == IF x.pc = "insert" THEN NameOf[x.who] ELSE x.row
CanServe(b) ==
    req[b] # Idle /\ (req[b].pc \in {"insert", "erase", "update"} => Free(RowNeeded(req[b])))

(* A request waits for an open run and for nothing else, and of any open   *)
(* runs one can go on or waits for a run that is not among them: there is  *)
(* no chain of waits that the deadlock detector does not break.            *)
NoGridlock ==
    /\ \A b \in Browser : req[b] # Idle =>
          CanServe(b) \/ \E r \in Run : Open(r) /\ RowNeeded(req[b]) \in run[r].held
    /\ \A group \in (SUBSET OpenRuns) \ {{}} : \E r \in group :
          CanGoOn(r) \/ \E q \in Run \ group : Waits(r, q)

RunStep(r) == UpsertCmdr(r) \/ UpsertCancelled(r) \/ CloseRun(r)

(* What is left to do.                                                     *)
RequestLeft(x) ==
    CASE x.pc = "link" -> 4
      [] x.pc = "name" -> 3
      [] x.pc \in {"insert", "erase", "check"} -> 2
      [] x.pc \in {"store", "leave", "update"} -> 1
      [] OTHER -> 0
RunLeft(r, txn) ==
    CASE txn.pc = "new" -> Len(Surveys[r]) + 2
      [] txn.pc = "open" -> Len(Surveys[r]) + 2 - txn.next
      [] OTHER -> 0

(* Every step of a request or of a run leaves less to do, and nothing that *)
(* others do leaves more.                                                  *)
RequestAdvances(b) ==
    /\ RequestStep(b) => RequestLeft(req'[b]) < RequestLeft(req[b])
    /\ req[b] # Idle => RequestLeft(req'[b]) <= RequestLeft(req[b])
RunAdvances(r) ==
    /\ RunLeft(r, run[r]) \in Nat /\ RunLeft(r, run'[r]) <= RunLeft(r, run[r])
    /\ RunStep(r) => RunLeft(r, run'[r]) < RunLeft(r, run[r])
WaitsShrink == (\A b \in Browser : RequestAdvances(b)) /\ (\A r \in Run : RunAdvances(r))

(* Only an open run has rows; finitely many are open.                      *)
RunInv ==
    /\ \A r \in Run : /\ run[r].held # {} => Open(r)
                      /\ run[r].pc = "new" => run[r].next = 1
                      /\ run[r].next <= Len(Surveys[r]) + 1
    /\ IsFiniteSet(OpenRuns)

(* What a step does to a run: it is opened, it stores or loses a survey,   *)
(* it ends, or others' commits are noted.                                  *)
Opened(r) == /\ run[r].pc = "new" /\ run'[r].pc = "open"
             /\ run'[r].next = run[r].next /\ run'[r].held = run[r].held
Stored(r) == /\ Open(r) /\ run'[r].pc = "open" /\ run[r].next <= Len(Surveys[r])
             /\ run'[r].next = run[r].next + 1
Ended(r) == Open(r) /\ run'[r] = Closed
Noted(r) == /\ run'[r].pc = run[r].pc
            /\ run'[r].next = run[r].next /\ run'[r].held = run[r].held

LEMMA SeenNotes ==
  ASSUME run \in [Run -> Txn], NEW names, NEW r \in Run
  PROVE  /\ Seen(names)[r].pc = run[r].pc /\ Seen(names)[r].next = run[r].next
         /\ Seen(names)[r].held = run[r].held
BY DEF Seen, Txn

LEMMA SurveyStep ==
  ASSUME TypeInv, NEW r \in Run, UpsertCmdr(r) \/ UpsertCancelled(r)
  PROVE  Stored(r) /\ \A q \in Run : q # r => run'[q] = run[q]
<1>0. run \in [Run -> Txn] /\ run[r] \in Txn
  BY DEF TypeInv, TypeOK
<1>1. Open(r) /\ run[r].next <= Len(Surveys[r])
  BY DEF UpsertCmdr, UpsertCancelled, Waits, Wants
<1>2. ASSUME NEW txn, Advance(r, txn), txn = run[r] \/ \E n \in Name : txn = [run[r] EXCEPT !.held = @ \cup {n}]
      PROVE  Stored(r) /\ \A q \in Run : q # r => run'[q] = run[q]
  <2>1. txn.pc = run[r].pc /\ txn.next = run[r].next /\ txn \in Txn
    BY <1>0, <1>2 DEF Txn
  <2>2. run'[r] = [txn EXCEPT !.next = @ + 1] /\ \A q \in Run : q # r => run'[q] = run[q]
    BY <1>0, <1>2 DEF Advance
  <2>. QED
    BY <1>1, <2>1, <2>2 DEF Stored, Open, Txn
<1>. QED
  BY <1>2 DEF UpsertCmdr, UpsertCancelled

LEMMA CloseStep ==
  ASSUME TypeInv, NEW r \in Run, CloseRun(r)
  PROVE  Ended(r) /\ \A q \in Run : q # r => Noted(q)
<1>0. run \in [Run -> Txn]
  BY DEF TypeInv, TypeOK
<1>1. run' = [Seen(run[r].held) EXCEPT ![r] = Closed] /\ Open(r)
  BY DEF CloseRun
<1>2. Seen(run[r].held) = [q \in Run |-> Seen(run[r].held)[q]]
  BY DEF Seen
<1>3. run'[r] = Closed /\ \A q \in Run : q # r => run'[q] = Seen(run[r].held)[q]
  BY <1>1, <1>2
<1>. QED
  BY <1>0, <1>1, <1>3, SeenNotes DEF Ended, Noted

LEMMA RunsEvolve ==
  ASSUME TypeInv, [Next]_vars
  PROVE  \/ \A q \in Run : Noted(q)
         \/ \E r \in Run : /\ Opened(r) \/ Stored(r) \/ Ended(r)
                           /\ \A q \in Run : q # r => Noted(q)
<1>. DEFINE Goal == \/ \A q \in Run : Noted(q)
                    \/ \E r \in Run : /\ Opened(r) \/ Stored(r) \/ Ended(r)
                                      /\ \A q \in Run : q # r => Noted(q)
<1>0. run \in [Run -> Txn]
  BY DEF TypeInv, TypeOK
<1>1. ASSUME UNCHANGED run PROVE Goal
  BY <1>1 DEF Noted
<1>2. ASSUME NEW n, NEW row, Write(n, row) PROVE Goal
  BY <1>0, <1>2, SeenNotes DEF Write, Noted
<1>3. ASSUME NEW r \in Run, OpenRun(r) PROVE Goal
  <2>1. run'[r] = [run[r] EXCEPT !.pc = "open"] /\ \A q \in Run : q # r => run'[q] = run[q]
    BY <1>0, <1>3 DEF OpenRun
  <2>2. Opened(r)
    BY <1>0, <1>3, <2>1 DEF OpenRun, Opened, Txn
  <2>. QED
    BY <2>1, <2>2 DEF Noted
<1>4. ASSUME NEW r \in Run, UpsertCmdr(r) \/ UpsertCancelled(r) PROVE Goal
  BY <1>4, SurveyStep DEF Noted
<1>5. ASSUME NEW r \in Run, CloseRun(r) PROVE Goal
  BY <1>5, CloseStep
<1>6. ASSUME NEW r \in Run, LoseRun(r) PROVE Goal
  BY <1>0, <1>6 DEF LoseRun, Ended, Noted
<1>7. ASSUME NEW b \in Browser, LoginInsert(b) \/ EraseLink(b) \/ SetAdmin(b) PROVE Goal
  BY <1>1, <1>2, <1>7 DEF LoginInsert, EraseLink, SetAdmin
<1>8. ASSUME NEW b \in Browser, LoginByLink(b) \/ LoginByName(b) \/ StoreSession(b) \/ Leave(b)
                 \/ CheckLink(b) \/ Logout(b) \/ DeleteMe(b) \/ RequestDies(b)
                 \/ (\E p \in Person : Login(b, p))
                 \/ (\E n \in Name, admin \in BOOLEAN : SetCmdrAdmin(b, n, admin))
       PROVE  UNCHANGED run
  BY <1>8 DEF LoginByLink, LoginByName, StoreSession, Leave, CheckLink, Logout, DeleteMe,
              RequestDies, Login, SetCmdrAdmin
<1>9. ASSUME UNCHANGED vars PROVE Goal
  BY <1>1, <1>9 DEF vars
<1>. HIDE DEF Goal
<1>10. Goal
  BY <1>1, <1>3, <1>4, <1>5, <1>6, <1>7, <1>8, <1>9 DEF Next, RequestStep
<1>. QED
  BY <1>10 DEF Goal

LEMMA RunInit == Init => RunInv
<1>. SUFFICES ASSUME Init PROVE RunInv
  OBVIOUS
<1>1. OpenRuns = {}
  BY DEF Init, OpenRuns, Open, NewRun
<1>2. \A r \in Run : Len(Surveys[r]) \in Nat
  BY SurveysAssumption
<1>. QED
  BY <1>1, <1>2, FS_EmptySet DEF Init, RunInv, NewRun, Open

LEMMA RunInvStep == TypeInv /\ RunInv /\ [Next]_vars => RunInv'
<1>. SUFFICES ASSUME TypeInv, RunInv, [Next]_vars PROVE RunInv'
  OBVIOUS
<1>0. \A r \in Run : Len(Surveys[r]) \in Nat /\ run[r].next \in Nat
  BY SurveysAssumption DEF TypeInv, TypeOK, Txn
<1>1. ASSUME NEW r \in Run, Noted(r) \/ Opened(r) \/ Stored(r) \/ Ended(r)
      PROVE  /\ run'[r].held # {} => Open(r)'
             /\ run'[r].pc = "new" => run'[r].next = 1
             /\ run'[r].next <= Len(Surveys[r]) + 1
  BY <1>0, <1>1 DEF RunInv, Noted, Opened, Stored, Ended, Open, Closed, NewRun
<1>2. IsFiniteSet(OpenRuns')
  <2>1. PICK r : \A q \in Run : q # r => Noted(q)
    BY RunsEvolve
  <2>2. OpenRuns' \subseteq OpenRuns \cup {r}
    BY <2>1 DEF OpenRuns, Open, Noted
  <2>3. IsFiniteSet(OpenRuns \cup {r})
    BY FS_AddElement DEF RunInv
  <2>. QED
    BY <2>2, <2>3, FS_Subset
<1>. QED
  BY <1>1, <1>2, RunsEvolve DEF RunInv

LEMMA RunInvHolds == Spec => []RunInv
BY RunInit, RunInvStep, TypeInvHolds, PTL DEF Spec

(* Of runs that all wait for one another, a smallest group that waits for  *)
(* nobody else is a circle.                                                *)
LEMMA StuckRunsCircle ==
  ASSUME NEW group \in (SUBSET Run) \ {{}}, IsFiniteSet(group),
         \A r \in group : \E q \in Run : Waits(r, q),
         \A r \in group : \A q \in Run : Waits(r, q) => q \in group
  PROVE  \E r \in group : InCircle(r)
<1>. DEFINE Held(c) == \A r \in c : \A q \in Run : Waits(r, q) => q \in c
            groups == {c \in SUBSET group : c # {} /\ Held(c)}
<1>1. group \in groups
  OBVIOUS
<1>2. IsWellFoundedOn(StrictSubsetOrdering(group), SUBSET group)
  BY FS_StrictSubsetOrderingWellFounded, FS_FiniteSubsetsOfFinite
<1>3. PICK c \in groups : \A d \in groups : <<d, c>> \notin StrictSubsetOrdering(group)
  <2>1. groups \subseteq SUBSET group /\ groups # {}
    BY <1>1
  <2>. HIDE DEF groups
  <2>. QED
    BY <1>2, <2>1, WFMin
<1>. DEFINE d == {q \in c : \E r \in c : Waits(r, q)}
<1>4. d \in groups
  <2>1. PICK r \in c : TRUE
    OBVIOUS
  <2>2. d # {}
    BY <2>1
  <2>. QED
    BY <2>2
<1>5. d = c
  BY <1>3, <1>4 DEF StrictSubsetOrdering
<1>6. \A q \in c : \E s, t \in c : Waits(q, s) /\ Waits(t, q)
  BY <1>5
<1>7. c \in SUBSET Run /\ c # {} /\ c \subseteq group
  OBVIOUS
<1>. QED
  BY <1>6, <1>7 DEF InCircle

LEMMA Gridlock == RunInv => NoGridlock
<1>. SUFFICES ASSUME RunInv PROVE NoGridlock
  OBVIOUS
<1>1. ASSUME NEW b \in Browser, req[b] # Idle, ~CanServe(b)
      PROVE  \E r \in Run : Open(r) /\ RowNeeded(req[b]) \in run[r].held
  BY <1>1 DEF CanServe, Free, RunInv
<1>2. ASSUME NEW group \in (SUBSET OpenRuns) \ {{}},
             \A r \in group : ~CanGoOn(r) /\ \A q \in Run \ group : ~Waits(r, q)
      PROVE  FALSE
  <2>1. group \in (SUBSET Run) \ {{}} /\ \A r \in group : Open(r)
    BY DEF OpenRuns
  <2>2. IsFiniteSet(group)
    BY FS_Subset DEF RunInv
  <2>3. \A r \in group : \E q \in Run : Waits(r, q)
    BY <1>2, <2>1 DEF CanGoOn
  <2>4. \E r \in group : InCircle(r)
    BY <1>2, <2>1, <2>2, <2>3, StuckRunsCircle
  <2>. QED
    BY <1>2, <2>1, <2>4 DEF CanGoOn
<1>. QED
  BY <1>1, <1>2 DEF NoGridlock

(* common.upsertcmdr and the writes of logins, deletions and grants: who   *)
(* waits for a row waits for an open run, and whatever rows the runs hold, *)
(* some run of every group of them goes on, by itself or because the       *)
(* database cancels its upsert.                                            *)
THEOREM NoGridlockHolds == Spec => []NoGridlock
BY RunInvHolds, Gridlock, PTL

LEMMA RequestSteps ==
  ASSUME TypeInv, NEW b \in Browser, RequestStep(b)
  PROVE  RequestLeft(req'[b]) < RequestLeft(req[b])
<1>0. req[b] \in Request \cup {Idle} /\ \A x : Goto(b, x) => req'[b] = x
  BY DEF TypeInv, TypeOK, Goto
<1>1. Idle.pc = "idle" /\ RequestLeft(Idle) = 0
  BY DEF Idle, RequestLeft
<1>2. CASE LoginByLink(b)
  <2>1. ASSUME NEW u, Goto(b, [pc |-> "store", user |-> u])
        PROVE  RequestLeft(req'[b]) < RequestLeft(req[b])
    <3>1. req'[b].pc = "store"
      BY <1>0, <2>1
    <3>. QED
      BY <1>2, <3>1 DEF LoginByLink, RequestLeft
  <2>2. CASE Goto(b, [req[b] EXCEPT !.pc = "name"])
    <3>1. req'[b].pc = "name"
      BY <1>0, <1>2, <2>2, RequestKinds DEF LoginByLink
    <3>. QED
      BY <1>2, <3>1 DEF LoginByLink, RequestLeft
  <2>. QED
    BY <1>2, <2>1, <2>2 DEF LoginByLink
<1>3. CASE LoginByName(b)
  <2>1. req[b].pc = "name" /\ req'[b].pc \in {"store", "insert"}
    BY <1>0, <1>3, RequestKinds DEF LoginByName
  <2>. QED
    BY <2>1 DEF RequestLeft
<1>4. CASE LoginInsert(b)
  <2>1. req[b].pc = "insert" /\ req'[b].pc \in {"store", "idle"}
    BY <1>0, <1>1, <1>4 DEF LoginInsert
  <2>. QED
    BY <2>1 DEF RequestLeft
<1>5. CASE StoreSession(b) \/ Leave(b) \/ SetAdmin(b)
  BY <1>0, <1>1, <1>5 DEF StoreSession, Leave, SetAdmin, RequestLeft
<1>6. CASE EraseLink(b)
  <2>1. req[b].pc = "erase" /\ req'[b].pc = "leave"
    BY <1>0, <1>6, RequestKinds DEF EraseLink
  <2>. QED
    BY <2>1 DEF RequestLeft
<1>7. CASE CheckLink(b)
  <2>1. req[b].pc = "check" /\ req'[b].pc \in {"update", "idle"}
    BY <1>0, <1>1, <1>7, RequestKinds DEF CheckLink
  <2>. QED
    BY <2>1 DEF RequestLeft
<1>. QED
  BY <1>2, <1>3, <1>4, <1>5, <1>6, <1>7 DEF RequestStep

LEMMA RequestsShrink ==
  ASSUME TypeInv, [Next]_vars, NEW b \in Browser
  PROVE  RequestAdvances(b)
<1>1. ASSUME NEW x \in Request \cup {Idle} PROVE RequestLeft(x) \in 0 .. 4
  BY DEF RequestLeft
<1>2. req \in [Browser -> Request \cup {Idle}] /\ req[b] \in Request \cup {Idle}
  BY DEF TypeInv, TypeOK
<1>3. CASE req'[b] = req[b]
  BY <1>1, <1>2, <1>3, RequestSteps DEF RequestAdvances
<1>4. CASE RequestStep(b)
  <2>1. req'[b] \in Request \cup {Idle}
    BY TypeStep DEF TypeInv, TypeOK
  <2>. QED
    BY <1>1, <1>2, <1>4, <2>1, RequestSteps DEF RequestAdvances
<1>5. CASE RequestDies(b) /\ ~RequestStep(b)
  <2>1. req'[b] = Idle /\ RequestLeft(Idle) = 0
    BY <1>2, <1>5 DEF RequestDies, Goto, Idle, RequestLeft
  <2>. QED
    BY <1>1, <1>2, <1>5, <2>1 DEF RequestAdvances
<1>6. ASSUME req'[b] # req[b] PROVE RequestStep(b) \/ RequestDies(b) \/ req[b] = Idle
  <2>1. ASSUME NEW c \in Browser, NEW x, c # b, Goto(c, x) PROVE FALSE
    BY <1>2, <1>6, <2>1 DEF Goto
  <2>2. ASSUME NEW c \in Browser, RequestStep(c) \/ RequestDies(c)
        PROVE  c = b
    BY <2>1, <2>2 DEF RequestStep, RequestDies, LoginByLink, LoginByName, LoginInsert, StoreSession,
                      EraseLink, Leave, CheckLink, SetAdmin
  <2>3. ASSUME NEW c \in Browser,
               \/ \E p \in Person : Login(c, p)
               \/ Logout(c) \/ DeleteMe(c)
               \/ \E n \in Name, admin \in BOOLEAN : SetCmdrAdmin(c, n, admin)
        PROVE  req[b] = Idle
    BY <1>6, <2>1, <2>3 DEF Login, Logout, DeleteMe, SetCmdrAdmin, Asks
  <2>4. ASSUME NEW r \in Run,
               OpenRun(r) \/ UpsertCmdr(r) \/ UpsertCancelled(r) \/ CloseRun(r) \/ LoseRun(r)
        PROVE  FALSE
    BY <1>6, <2>4 DEF OpenRun, UpsertCmdr, UpsertCancelled, CloseRun, LoseRun
  <2>5. CASE UNCHANGED vars
    BY <1>6, <2>5 DEF vars
  <2>. QED
    BY <2>2, <2>3, <2>4, <2>5 DEF Next
<1>7. CASE req[b] = Idle /\ ~RequestStep(b)
  BY <1>7 DEF RequestAdvances
<1>. QED
  BY <1>3, <1>4, <1>5, <1>6, <1>7

LEMMA RunsShrink ==
  ASSUME TypeInv, RunInv, [Next]_vars, NEW r \in Run
  PROVE  RunAdvances(r)
<1>1. /\ Len(Surveys[r]) \in Nat /\ run[r].next \in Nat \ {0} /\ run[r].next <= Len(Surveys[r]) + 1
      /\ run[r].pc = "new" => run[r].next = 1
      /\ run[r].pc \in {"new", "open", "closed"}
  BY SurveysAssumption DEF TypeInv, TypeOK, Txn, RunInv
<1>2. RunLeft(r, run[r]) \in Nat
  BY <1>1 DEF RunLeft
<1>3. CASE Noted(r)
  <2>1. RunLeft(r, run'[r]) = RunLeft(r, run[r])
    BY <1>3 DEF Noted, RunLeft
  <2>2. RunStep(r) => Stored(r) \/ Ended(r)
    BY SurveyStep, CloseStep DEF RunStep
  <2>3. ~Stored(r) /\ ~Ended(r)
    BY <1>1, <1>3 DEF Noted, Stored, Ended, Open, Closed, NewRun
  <2>. QED
    BY <1>2, <2>1, <2>2, <2>3 DEF RunAdvances
<1>4. ASSUME RunLeft(r, run'[r]) < RunLeft(r, run[r]), RunLeft(r, run'[r]) \in Nat
      PROVE  RunAdvances(r)
  BY <1>2, <1>4 DEF RunAdvances
<1>5. CASE Opened(r)
  <2>1. /\ RunLeft(r, run[r]) = Len(Surveys[r]) + 2
        /\ RunLeft(r, run'[r]) = Len(Surveys[r]) + 1
    BY <1>1, <1>5 DEF Opened, RunLeft
  <2>. QED
    BY <1>1, <1>4, <2>1
<1>6. CASE Stored(r)
  <2>1. /\ RunLeft(r, run[r]) = Len(Surveys[r]) + 2 - run[r].next
        /\ RunLeft(r, run'[r]) = Len(Surveys[r]) + 2 - (run[r].next + 1)
    BY <1>1, <1>6 DEF Stored, Open, RunLeft
  <2>. QED
    BY <1>1, <1>4, <1>6, <2>1 DEF Stored
<1>7. CASE Ended(r)
  <2>1. /\ RunLeft(r, run[r]) = Len(Surveys[r]) + 2 - run[r].next
        /\ RunLeft(r, run'[r]) = 0
    BY <1>1, <1>7 DEF Ended, Open, Closed, NewRun, RunLeft
  <2>. QED
    BY <1>1, <1>4, <2>1
<1>. QED
  BY <1>3, <1>5, <1>6, <1>7, RunsEvolve

(* The safety half of RequestsAnswered: with NoGridlock, a request that is *)
(* stepped whenever it can be, among runs that are, has at most four steps *)
(* before it, and a run that holds its row one for each survey and one to  *)
(* close.                                                                  *)
THEOREM WaitsShrinkHolds == Spec => [][WaitsShrink]_vars
<1>1. TypeInv /\ RunInv /\ [Next]_vars => WaitsShrink
  BY RequestsShrink, RunsShrink DEF WaitsShrink
<1>. QED
  BY <1>1, TypeInvHolds, RunInvHolds, PTL DEF Spec

-----------------------------------------------------------------------------
(* Logins after a self-deletion.                                           *)

(* A login comes to a row that has been erased by the lookup of the name   *)
(* and in no other way.                                                    *)
ErasedByNameOnly == [][\A b \in Browser :
    /\ req[b].pc # "store" /\ req'[b].pc = "store"
    /\ req'[b].user.row \in erased'
    => LoginByName(b) /\ req'[b].user.row = NameOf[req[b].who]]_vars

LEMMA StoreSteps ==
  ASSUME TypeInv, [Next]_vars, NEW b \in Browser, req[b].pc # "store", req'[b].pc = "store"
  PROVE  LoginByLink(b) \/ LoginByName(b) \/ LoginInsert(b)
<1>0. /\ req[b] \in Request \cup {Idle} /\ \A x : Goto(b, x) => req'[b] = x
      /\ \A c \in Browser : \A x : Goto(c, x) /\ c # b => req'[b] = req[b]
  BY DEF TypeInv, TypeOK, Goto
<1>1. Idle.pc = "idle"
  BY DEF Idle
<1>2. CASE (\E p \in Person : Login(b, p)) \/ DeleteMe(b)
           \/ (\E n \in Name, admin \in BOOLEAN : SetCmdrAdmin(b, n, admin))
  <2>1. CASE \E p \in Person : Login(b, p)
    BY <1>0, <2>1 DEF Login
  <2>2. CASE DeleteMe(b)
    BY <1>0, <2>2 DEF DeleteMe
  <2>3. CASE \E n \in Name, admin \in BOOLEAN : SetCmdrAdmin(b, n, admin)
    <3>1. \E x : Goto(b, x) /\ x.pc \in {"check", "update"}
      BY <2>3 DEF SetCmdrAdmin
    <3>. QED
      BY <1>0, <3>1
  <2>. QED
    BY <1>2, <2>1, <2>2, <2>3
<1>3. CASE StoreSession(b) \/ Leave(b) \/ SetAdmin(b) \/ RequestDies(b)
  BY <1>0, <1>1, <1>3 DEF StoreSession, Leave, SetAdmin, RequestDies
<1>4. CASE EraseLink(b) \/ CheckLink(b)
  <2>1. req'[b].pc \in {"leave", "update", "idle"}
    BY <1>0, <1>1, <1>4, RequestKinds DEF EraseLink, CheckLink
  <2>. QED
    BY <2>1
<1>5. ASSUME NEW c \in Browser, c # b,
             \/ (\E p \in Person : Login(c, p)) \/ DeleteMe(c) \/ RequestStep(c) \/ RequestDies(c)
             \/ (\E n \in Name, admin \in BOOLEAN : SetCmdrAdmin(c, n, admin))
      PROVE  FALSE
  <2>1. \E x : Goto(c, x)
    BY <1>5 DEF Login, DeleteMe, RequestDies, SetCmdrAdmin, RequestStep, LoginByLink, LoginByName,
                LoginInsert, StoreSession, EraseLink, Leave, CheckLink, SetAdmin
  <2>. QED
    BY <1>0, <1>5, <2>1
<1>6. ASSUME NEW c \in Browser, Logout(c) PROVE FALSE
  BY <1>6 DEF Logout
<1>7. ASSUME NEW r \in Run, \/ OpenRun(r) \/ UpsertCmdr(r) \/ UpsertCancelled(r)
                             \/ CloseRun(r) \/ LoseRun(r)
      PROVE  FALSE
  BY <1>7 DEF OpenRun, UpsertCmdr, UpsertCancelled, CloseRun, LoseRun
<1>8. ~UNCHANGED vars
  BY DEF vars
<1>. QED
  BY <1>2, <1>3, <1>4, <1>5, <1>6, <1>7, <1>8 DEF Next, RequestStep

(* How far the finding of the run accounts_erased reaches: the customer id *)
(* never leads to an erased commander, not even in a login that began      *)
(* before the deletion, and no login makes one anew; only logincmdr's      *)
(* second lookup, which asks for the name alone, does                      *)
(* (common_funcs.sql:2-32).                                                *)
THEOREM ErasedByNameOnlyHolds == Spec => ErasedByNameOnly
<1>1. TypeInv /\ AccountInv /\ [Next]_vars => [\A b \in Browser :
          /\ req[b].pc # "store" /\ req'[b].pc = "store"
          /\ req'[b].user.row \in erased'
          => LoginByName(b) /\ req'[b].user.row = NameOf[req[b].who]]_vars
  <2>. SUFFICES ASSUME TypeInv, AccountInv, [Next]_vars, NEW b \in Browser,
                       req[b].pc # "store", req'[b].pc = "store", req'[b].user.row \in erased'
                PROVE  LoginByName(b) /\ req'[b].user.row = NameOf[req[b].who]
    OBVIOUS
  <2>0. req[b] \in Request \cup {Idle} /\ \A x : Goto(b, x) => req'[b] = x
    BY DEF TypeInv, TypeOK, Goto
  <2>1. CASE LoginByLink(b)
    <3>1. req[b].who \in Person
      BY <2>0, <2>1, RequestKinds DEF LoginByLink
    <3>2. PICK n \in LinkedTo(req[b].who) : Goto(b, [pc |-> "store", user |-> UserOf(n)])
      BY <2>0, <2>1, RequestKinds DEF LoginByLink
    <3>3. req'[b].user.row = n /\ n \in Name /\ cmdrs[n].link = IdOf[req[b].who]
      BY <2>0, <3>2 DEF UserOf, LinkedTo, Rows
    <3>4. n \notin erased
      BY <3>1, <3>3, PersonAssumption DEF AccountInv, ErasureIsFinal
    <3>. QED
      BY <2>1, <3>3, <3>4 DEF LoginByLink
  <2>2. CASE LoginByName(b)
    <3>1. Goto(b, [pc |-> "store", user |-> UserOf(NameOf[req[b].who])])
      BY <2>0, <2>2, RequestKinds DEF LoginByName
    <3>. QED
      BY <2>0, <2>2, <3>1 DEF UserOf
  <2>3. CASE LoginInsert(b)
    <3>1. /\ NameOf[req[b].who] \notin Rows
          /\ Goto(b, [pc |-> "store", user |-> [row |-> NameOf[req[b].who],
                                              owner |-> FALSE, admin |-> FALSE]])
      BY <2>0, <2>3 DEF LoginInsert, Idle
    <3>2. req'[b].user.row = NameOf[req[b].who] /\ erased' = erased /\ erased \subseteq Rows
      BY <2>0, <2>3, <3>1 DEF LoginInsert, TypeInv, TypeOK
    <3>. QED
      BY <3>1, <3>2
  <2>. QED
    BY <2>1, <2>2, <2>3, StoreSteps
<1>. QED
  BY <1>1, TypeInvHolds, AccountInvHolds, PTL DEF Spec, ErasedByNameOnly
=============================================================================
