----------------------------- MODULE VariantDialog -----------------------------
(***************************************************************************)
(* Sheet variants and their header checks: the requests that change them   *)
(* (variants.go, vsds.go), each one transaction, and the dialog of the     *)
(* administrator's browser (vsds-projects.component.ts), which turns one   *)
(* Save into a request for the variant and then, in parallel, a request    *)
(* for every check that was added or removed.  A request may fail, its     *)
(* answer may get lost, and the first error makes the browser abort the    *)
(* others, which the server may carry out all the same.                    *)
(*                                                                         *)
(* The dialog works on a copy made when the page was loaded; opening it    *)
(* and loading are one step here, the copy grows old while it is open.     *)
(* Columns, names and the values of checks are left out: a check is where  *)
(* it looks.                                                               *)
(***************************************************************************)
EXTENDS Naturals, FiniteSets

CONSTANTS
    Admin,        \* administrators, each with the page open in one tab
    Cell,         \* cells a check can be about
    MaxVariants,  \* bound: variants ever stored
    MaxChecks,    \* bound: checks ever stored
    MaxSaves      \* bound: times Save is pressed

ASSUME BoundAssumption ==
    MaxVariants \in Nat \ {0} /\ MaxChecks \in Nat \ {0} /\ MaxSaves \in Nat

VARIABLES
    variants,  \* ids in vsds.spreadsheetvariants
    checks,    \* rows of vsds.spreadsheetvariant_checks
    made,      \* the highest ids given so far
    dialog,    \* [Admin -> the dialog of the page]
    live,      \* requests whose answer a dialog waits for
    aborted,   \* requests the browser has given up
    saves,     \* how often Save was pressed (bound)
    dismissed, \* history: ids removed in a dialog that was saved
    gone       \* history: checks removed one by one, and by whom

tables == <<variants, checks, made, gone>>
vars == <<variants, checks, made, dialog, live, aborted, saves, dismissed, gone>>

-----------------------------------------------------------------------------
Variant == 1 .. MaxVariants
New == 0        \* the id of what is not stored yet

(* save is history: the Save a check was sent for, 0 before the first.     *)
Check == [id : 1 .. MaxChecks, variant : Variant, cell : Cell, save : 0 .. MaxSaves]
Entry == [id : 0 .. MaxChecks, cell : Cell]

(* shown: dialogChecks.  History: the last Save, and sent, what was shown  *)
(* when the requests for its checks went out.                              *)
Dialog == [pc : {"closed", "open", "saving", "checks"}, variant : Variant \cup {New},
           original : SUBSET (1 .. MaxChecks), shown : SUBSET Entry,
           save : 0 .. MaxSaves, sent : SUBSET Entry]
Closed == [pc |-> "closed", variant |-> New, original |-> {}, shown |-> {},
           save |-> 0, sent |-> {}]

Call == [who : Admin, op : {"addvariant"}]
    \cup [who : Admin, op : {"update"}, variant : Variant]
    \cup [who : Admin, op : {"addcheck"}, save : 1 .. MaxSaves, variant : Variant, cell : Cell]
    \cup [who : Admin, op : {"delcheck"}, save : 1 .. MaxSaves, variant : Variant,
          id : 1 .. MaxChecks]

ChecksOf(v) == {c \in checks : c.variant = v}
LiveOf(a) == {c \in live : c.who = a}

(* No two checks on a cell, and no check without its variant.              *)
TypeOK ==
    /\ variants \subseteq Variant
    /\ checks \subseteq Check
    /\ \A c, d \in checks : (c.variant = d.variant /\ c.cell = d.cell) \/ c.id = d.id => c = d
    /\ \A c \in checks : c.variant \in variants
    /\ made \in [variant : 0 .. MaxVariants, check : 0 .. MaxChecks]
    /\ dialog \in [Admin -> Dialog]
    /\ live \subseteq Call /\ aborted \subseteq Call
    /\ saves \in 0 .. MaxSaves
    /\ dismissed \subseteq 1 .. MaxChecks

(* One variant with one check.                                             *)
Init ==
    /\ variants = {1}
    /\ \E cell \in Cell :
          checks = {[id |-> 1, variant |-> 1, cell |-> cell, save |-> 0]}
    /\ made = [variant |-> 1, check |-> 1]
    /\ dialog = [a \in Admin |-> Closed]
    /\ live = {} /\ aborted = {}
    /\ saves = 0
    /\ dismissed = {}
    /\ gone = {}

-----------------------------------------------------------------------------
(* The server.  Each request as it takes effect, and whether it succeeds.  *)

AddVariant(c, ok) ==
    /\ c.op = "addvariant" /\ ok /\ made.variant < MaxVariants
    /\ variants' = variants \cup {made.variant + 1}
    /\ made' = [made EXCEPT !.variant = @ + 1]
    /\ UNCHANGED <<checks, gone>>

UpdateVariant(c, ok) ==
    /\ c.op = "update"
    /\ ok <=> c.variant \in variants
    /\ UNCHANGED tables

AddVariantCheck_Anywhere(c, ok) ==   \* mutant: the cell need not be free
    /\ c.op = "addcheck" /\ made.check < MaxChecks
    /\ ok <=> c.variant \in variants
    /\ IF ok
       THEN /\ made' = [made EXCEPT !.check = @ + 1]
            /\ checks' = checks \cup {[id |-> made.check + 1, variant |-> c.variant,
                                       cell |-> c.cell, save |-> c.save]}
       ELSE UNCHANGED <<made, checks>>
    /\ UNCHANGED <<variants, gone>>

AddVariantCheck(c, ok) ==
    /\ c.op = "addcheck" /\ made.check < MaxChecks
    /\ ok <=> c.variant \in variants /\ \A k \in ChecksOf(c.variant) : k.cell # c.cell
    /\ IF ok
       THEN /\ made' = [made EXCEPT !.check = @ + 1]
            /\ checks' = checks \cup {[id |-> made.check + 1, variant |-> c.variant,
                                       cell |-> c.cell, save |-> c.save]}
       ELSE UNCHANGED <<made, checks>>
    /\ UNCHANGED <<variants, gone>>

(* The rows deletevariantcheck is about.                                   *)
Deleted_AnyOf(c) == ChecksOf(c.variant)          \* mutant: the id is not looked at
Deleted(c) == {k \in ChecksOf(c.variant) : k.id = c.id}

DeleteVariantCheck(c, ok) ==
    /\ c.op = "delcheck"
    /\ ok <=> Deleted(c) # {}
    /\ checks' = checks \ Deleted(c)
    /\ gone' = gone \cup {[variant |-> k.variant, cell |-> k.cell, save |-> c.save] : k \in Deleted(c)}
    /\ UNCHANGED <<variants, made>>

Handle(c, ok) ==
    AddVariant(c, ok) \/ UpdateVariant(c, ok) \/ AddVariantCheck(c, ok) \/ DeleteVariantCheck(c, ok)

(* The bin on the page; the checks go with their variant.                  *)
DeleteVariant(a, v) ==
    /\ dialog[a].pc = "closed" /\ v \in variants
    /\ variants' = variants \ {v}
    /\ checks' = checks \ ChecksOf(v)
    /\ UNCHANGED <<made, dialog, live, aborted, saves, dismissed, gone>>

-----------------------------------------------------------------------------
(* The dialog.                                                             *)

Show(a, d) ==
    /\ dialog' = [dialog EXCEPT ![a] = d]
    /\ UNCHANGED <<tables, live, aborted, dismissed>>

OpenNewDialog(a) ==
    /\ dialog[a].pc = "closed" /\ saves < MaxSaves
    /\ Show(a, [Closed EXCEPT !.pc = "open"])
    /\ UNCHANGED saves

OpenEditDialog(a, v) ==
    /\ dialog[a].pc = "closed" /\ v \in variants /\ saves < MaxSaves
    /\ Show(a, [pc |-> "open", variant |-> v, original |-> {c.id : c \in ChecksOf(v)},
                shown |-> {[id |-> c.id, cell |-> c.cell] : c \in ChecksOf(v)},
                save |-> 0, sent |-> {}])
    /\ UNCHANGED saves

CloseDialog(a) ==
    /\ dialog[a].pc = "open"
    /\ Show(a, Closed)
    /\ UNCHANGED saves

(* The list can be edited while a save is under way.                       *)
AddDialogCheck(a, cell) ==
    /\ dialog[a].pc # "closed" /\ \A e \in dialog[a].shown : e.cell # cell
    /\ Show(a, [dialog[a] EXCEPT !.shown = @ \cup {[id |-> New, cell |-> cell]}])
    /\ UNCHANGED saves

RemoveDialogCheck(a, e) ==
    /\ e \in dialog[a].shown
    /\ Show(a, [dialog[a] EXCEPT !.shown = @ \ {e}])
    /\ UNCHANGED saves

SaveDialog(a) ==
    /\ dialog[a].pc = "open" /\ saves < MaxSaves
    /\ saves' = saves + 1
    /\ dialog' = [dialog EXCEPT ![a].pc = "saving", ![a].save = saves']
    /\ live' = live \cup
          {IF dialog[a].variant = New THEN [who |-> a, op |-> "addvariant"]
           ELSE [who |-> a, op |-> "update", variant |-> dialog[a].variant]}
    /\ UNCHANGED <<tables, aborted, dismissed>>

Dismissed(a) == dialog[a].original \ {e.id : e \in dialog[a].shown}

ToAdd(a, v) == {[who |-> a, op |-> "addcheck", save |-> dialog[a].save, variant |-> v, cell |-> e.cell] :
                e \in {f \in dialog[a].shown : f.id = New}}

ToDelete(a, v) == {[who |-> a, op |-> "delcheck", save |-> dialog[a].save, variant |-> v, id |-> i] :
                   i \in Dismissed(a)}

(* Mutant: forkJoin of no requests is left to end the save.                *)
DoCheckOps_NoneToJoin(a, c, v) ==
    LET ops == ToAdd(a, v) \cup ToDelete(a, v) IN
    /\ dialog' = [dialog EXCEPT ![a].pc = "checks", ![a].sent = dialog[a].shown]
    /\ live' = (live \ {c}) \cup ops
    /\ dismissed' = dismissed \cup Dismissed(a)

(* doCheckOps, with the variant the answer names; finishSave if there is   *)
(* nothing to do.                                                          *)
DoCheckOps(a, c, v) ==
    LET ops == ToAdd(a, v) \cup ToDelete(a, v) IN
    /\ dialog' = [dialog EXCEPT ![a] =
          IF ops = {} THEN Closed ELSE [@ EXCEPT !.pc = "checks", !.sent = dialog[a].shown]]
    /\ live' = (live \ {c}) \cup ops
    /\ dismissed' = dismissed \cup Dismissed(a)

VariantSaved(a, c) ==
    /\ dialog[a].pc = "saving"
    /\ DoCheckOps(a, c, IF c.op = "addvariant" THEN made'.variant ELSE c.variant)

(* forkJoin: the last answer ends the save.                                *)
CheckSaved(a, c) ==
    /\ dialog[a].pc = "checks"
    /\ live' = live \ {c}
    /\ dialog' = [dialog EXCEPT ![a] = IF LiveOf(a) = {c} THEN Closed ELSE @]
    /\ UNCHANGED dismissed

Succeeds(a, c) ==
    /\ c \in LiveOf(a) /\ Handle(c, TRUE)
    /\ VariantSaved(a, c) \/ CheckSaved(a, c)
    /\ UNCHANGED <<aborted, saves>>

(* An error is shown, the list stays as it is, and the answers to the      *)
(* other requests will not be heard.                                       *)
Error_Ignored(a, c) ==               \* mutant: the others decide
    /\ live' = live \ {c}
    /\ dialog' = [dialog EXCEPT ![a] =
          IF @.pc = "checks" /\ LiveOf(a) = {c} THEN Closed
          ELSE IF @.pc = "checks" THEN @ ELSE [@ EXCEPT !.pc = "open"]]
    /\ UNCHANGED <<aborted, saves, dismissed>>

Error(a, c) ==
    /\ live' = live \ LiveOf(a)
    /\ aborted' = aborted \cup (LiveOf(a) \ {c})
    /\ dialog' = [dialog EXCEPT ![a].pc = "open", ![a].sent = {}]
    /\ UNCHANGED <<saves, dismissed>>

(* Refused, or not carried out, or carried out and the answer is lost.     *)
Fails(a, c) ==
    /\ c \in LiveOf(a)
    /\ Handle(c, FALSE) \/ Handle(c, TRUE) \/ UNCHANGED tables
    /\ Error(a, c)

(* An aborted request reaches the server late or not at all.               *)
Late(c) ==
    /\ aborted' = aborted \ {c}
    /\ (\E ok \in BOOLEAN : Handle(c, ok)) \/ UNCHANGED tables
    /\ UNCHANGED <<dialog, live, saves, dismissed>>

Answer(a) == \E c \in live : Succeeds(a, c) \/ Fails(a, c)

Next ==
    \/ \E a \in Admin :
          \/ OpenNewDialog(a) \/ CloseDialog(a) \/ SaveDialog(a) \/ Answer(a)
          \/ \E v \in variants : OpenEditDialog(a, v) \/ DeleteVariant(a, v)
          \/ \E cell \in Cell : AddDialogCheck(a, cell)
          \/ \E e \in dialog[a].shown : RemoveDialogCheck(a, e)
    \/ \E c \in aborted : Late(c)

Spec == Init /\ [][Next]_vars

-----------------------------------------------------------------------------
(* Properties.                                                             *)

(* A stored check goes away with its variant, or because an administrator  *)
(* removed that very check from a dialog and saved: a save does not touch  *)
(* checks its dialog never showed, and one that comes late does not touch  *)
(* a check that has taken the removed one's cell.                          *)
RemovedOnPurpose == [][\A c \in checks \ checks' :
    c.variant \notin variants' \/ c.id \in dismissed]_vars

(* "doCheckOps() reconciles checks" (frontend/memory/MEMORY.md): when the  *)
(* dialog closes on success, the variant has every check it showed and has *)
(* lost what was removed in it, but for what other requests have done: of  *)
(* other administrators, or left over from an earlier Save that failed.    *)
Reconciled(a, v) ==
    LET d == dialog[a]
        now == {c \in checks' : c.variant = v}
    IN  /\ \A e \in d.sent :
              \/ \E c \in now : c.cell = e.cell
              \/ \E g \in gone' : g.variant = v /\ g.cell = e.cell /\ g.save # d.save
        /\ \A c \in now :
              \/ \E e \in d.sent : e.cell = c.cell
              \/ c.id \notin d.original /\ c.save # d.save
SaveReconciles == [][\A a \in Admin : \A c \in LiveOf(a) :
    dialog[a].pc = "checks" /\ dialog'[a].pc = "closed" /\ c.variant \in variants'
        => Reconciled(a, c.variant)]_vars

(* The dialog is busy exactly while an answer is on its way: it cannot     *)
(* spin for ever, nor be closed or saved again under a running save.       *)
BusyAwaitsAnswer == \A a \in Admin :
    dialog[a].pc \in {"saving", "checks"} <=> LiveOf(a) # {}
=============================================================================
