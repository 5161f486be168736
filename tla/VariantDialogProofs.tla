-------------------------- MODULE VariantDialogProofs --------------------------
(***************************************************************************)
(* The variant dialog for any number of administrators, cells, variants    *)
(* and checks.                                                             *)
(***************************************************************************)
EXTENDS VariantDialog, TLAPS

-----------------------------------------------------------------------------
(* The tables.                                                             *)

(* Ids are given in ascending order, so that none comes twice.             *)
TablesInv ==
  /\ made \in [variant : 0 .. MaxVariants, check : 0 .. MaxChecks]
  /\ variants \subseteq 1 .. made.variant
  /\ checks \subseteq Check
  /\ \A c \in checks : c.id <= made.check /\ c.variant \in variants
  /\ \A c, d \in checks : (c.variant = d.variant /\ c.cell = d.cell) \/ c.id = d.id => c = d

LEMMA CallKinds ==
  ASSUME NEW c \in Call
  PROVE  /\ c.who \in Admin
         /\ c.op = "update" => c.variant \in Variant
         /\ c.op = "addcheck" => /\ c.save \in 1 .. MaxSaves
                                 /\ c.variant \in Variant /\ c.cell \in Cell
         /\ c.op = "delcheck" => /\ c.save \in 1 .. MaxSaves
                                 /\ c.variant \in Variant /\ c.id \in 1 .. MaxChecks
  BY DEF Call

LEMMA VariantIds == TablesInv => variants \subseteq Variant
  BY BoundAssumption DEF TablesInv, Variant

LEMMA TablesInit == Init => TablesInv
<1>. SUFFICES ASSUME Init PROVE TablesInv
  OBVIOUS
<1>1. PICK cell \in Cell : checks = {[id |-> 1, variant |-> 1, cell |-> cell, save |-> 0]}
  BY DEF Init
<1>2. made = [variant |-> 1, check |-> 1] /\ variants = {1}
  BY DEF Init
<1>3. [id |-> 1, variant |-> 1, cell |-> cell, save |-> 0] \in Check
  BY BoundAssumption DEF Check, Variant
<1>. QED
  BY <1>1, <1>2, <1>3, BoundAssumption DEF TablesInv

(* Whatever becomes of a request, the tables stay consistent.              *)
LEMMA TablesStep ==
  ASSUME TablesInv, NEW c \in Call, NEW ok \in BOOLEAN, Handle(c, ok)
  PROVE  TablesInv'
<1>. USE DEF TablesInv
<1>1. CASE AddVariant(c, ok)
  <2>1. made' = [made EXCEPT !.variant = @ + 1] /\ variants' = variants \cup {made.variant + 1}
    BY <1>1 DEF AddVariant
  <2>2. /\ made.variant + 1 \in 0 .. MaxVariants
        /\ made' \in [variant : 0 .. MaxVariants, check : 0 .. MaxChecks]
        /\ made'.variant = made.variant + 1 /\ made'.check = made.check
    BY <1>1, <2>1, BoundAssumption DEF AddVariant
  <2>. QED
    BY <1>1, <2>1, <2>2 DEF AddVariant
<1>2. CASE UpdateVariant(c, ok)
  BY <1>2 DEF UpdateVariant, tables
<1>3. CASE AddVariantCheck(c, ok)
  <2>1. CASE ~ok
    BY <1>3, <2>1 DEF AddVariantCheck
  <2>2. CASE ok
    <3>. DEFINE new == [id |-> made.check + 1, variant |-> c.variant, cell |-> c.cell, save |-> c.save]
    <3>1. made' = [made EXCEPT !.check = @ + 1] /\ checks' = checks \cup {new} /\ variants' = variants
      BY <1>3, <2>2 DEF AddVariantCheck
    <3>2. c.variant \in variants /\ \A k \in checks : k.variant = c.variant => k.cell # c.cell
      BY <1>3, <2>2 DEF AddVariantCheck, ChecksOf
    <3>3. /\ made.check + 1 \in 1 .. MaxChecks
          /\ made' \in [variant : 0 .. MaxVariants, check : 0 .. MaxChecks]
          /\ made'.variant = made.variant /\ made'.check = made.check + 1
      BY <1>3, <3>1, BoundAssumption DEF AddVariantCheck
    <3>4. new \in Check
      BY <1>3, <3>3, CallKinds DEF AddVariantCheck, Check
    <3>5. \A k \in checks : k.id < made.check + 1
      BY DEF Check
    <3>6. \A k \in checks : k.id # new.id /\ ~(k.variant = new.variant /\ k.cell = new.cell)
      BY <3>2, <3>5 DEF Check
    <3>7. new.variant \in variants /\ new.id <= made'.check
      BY <3>2, <3>3
    <3>8. \A k \in checks : k.id <= made'.check
      BY <3>3, <3>5 DEF Check
    <3>. HIDE DEF new
    <3>. QED
      BY <3>1, <3>3, <3>4, <3>6, <3>7, <3>8
  <2>. QED
    BY <2>1, <2>2
<1>4. CASE DeleteVariantCheck(c, ok)
  BY <1>4 DEF DeleteVariantCheck
<1>. QED
  BY <1>1, <1>2, <1>3, <1>4 DEF Handle

LEMMA DeleteVariantStep ==
  ASSUME TablesInv, NEW a \in Admin, NEW v \in variants, DeleteVariant(a, v)
  PROVE  TablesInv'
  BY DEF TablesInv, DeleteVariant, ChecksOf

-----------------------------------------------------------------------------
(* The dialogs and the requests under way.                                 *)

DialogInv ==
  /\ dialog \in [Admin -> Dialog]
  /\ live \subseteq Call /\ aborted \subseteq Call
  /\ saves \in 0 .. MaxSaves
  /\ dismissed \subseteq 1 .. MaxChecks
  /\ \A a \in Admin : dialog[a].pc \in {"saving", "checks"} => dialog[a].save \in 1 .. MaxSaves

LEMMA ClosedType == Closed \in Dialog
  BY BoundAssumption DEF Closed, Dialog, New, Variant

LEMMA DialogInit == Init => DialogInv
  BY ClosedType, BoundAssumption DEF Init, DialogInv, Closed

(* A dialog that stays open, or closes.                                    *)
LEMMA ShowStep ==
  ASSUME DialogInv, NEW a \in Admin, NEW d \in Dialog, Show(a, d), UNCHANGED saves,
         d.pc \in {"saving", "checks"} => d.save \in 1 .. MaxSaves
  PROVE  DialogInv'
  BY DEF DialogInv, Show

LEMMA EditSteps ==
  ASSUME TablesInv, DialogInv, NEW a \in Admin,
         \/ OpenNewDialog(a) \/ CloseDialog(a)
         \/ \E v \in variants : OpenEditDialog(a, v)
         \/ \E cell \in Cell : AddDialogCheck(a, cell)
         \/ \E e \in dialog[a].shown : RemoveDialogCheck(a, e)
  PROVE  DialogInv'
<1>0. /\ dialog[a] \in Dialog
      /\ dialog[a].pc \in {"saving", "checks"} => dialog[a].save \in 1 .. MaxSaves
  BY DEF DialogInv
<1>1. CASE OpenNewDialog(a)
  <2>. DEFINE d == [Closed EXCEPT !.pc = "open"]
  <2>1. d \in Dialog /\ d.pc = "open"
    BY ClosedType DEF Dialog
  <2>. HIDE DEF d
  <2>. QED
    BY <1>1, <2>1, ShowStep DEF OpenNewDialog, d
<1>2. CASE CloseDialog(a)
  BY <1>2, ClosedType, ShowStep DEF CloseDialog, Closed
<1>3. ASSUME NEW v \in variants, OpenEditDialog(a, v) PROVE DialogInv'
  <2>. DEFINE d == [pc |-> "open", variant |-> v, original |-> {c.id : c \in ChecksOf(v)},
                    shown |-> {[id |-> c.id, cell |-> c.cell] : c \in ChecksOf(v)},
                    save |-> 0, sent |-> {}]
  <2>1. \A c \in ChecksOf(v) : c.id \in 1 .. MaxChecks /\ [id |-> c.id, cell |-> c.cell] \in Entry
    BY DEF ChecksOf, TablesInv, Check, Entry
  <2>2. v \in Variant
    BY VariantIds
  <2>3. d \in Dialog /\ d.pc = "open"
    <3>1. {c.id : c \in ChecksOf(v)} \in SUBSET (1 .. MaxChecks)
      BY <2>1
    <3>2. {[id |-> c.id, cell |-> c.cell] : c \in ChecksOf(v)} \in SUBSET Entry
      BY <2>1
    <3>3. 0 \in 0 .. MaxSaves /\ {} \in SUBSET Entry
      BY BoundAssumption
    <3>. QED
      BY <2>2, <3>1, <3>2, <3>3 DEF Dialog
  <2>4. Show(a, d) /\ UNCHANGED saves
    BY <1>3 DEF OpenEditDialog
  <2>. HIDE DEF d
  <2>. QED
    BY <2>3, <2>4, ShowStep
<1>4. ASSUME NEW cell \in Cell, AddDialogCheck(a, cell) PROVE DialogInv'
  <2>. DEFINE d == [dialog[a] EXCEPT !.shown = @ \cup {[id |-> New, cell |-> cell]}]
  <2>1. [id |-> New, cell |-> cell] \in Entry
    BY BoundAssumption DEF Entry, New
  <2>2. d \in Dialog /\ d.pc = dialog[a].pc /\ d.save = dialog[a].save
    BY <1>0, <2>1 DEF Dialog
  <2>3. Show(a, d) /\ UNCHANGED saves
    BY <1>4 DEF AddDialogCheck
  <2>. HIDE DEF d
  <2>. QED
    BY <1>0, <2>2, <2>3, ShowStep
<1>5. ASSUME NEW e \in dialog[a].shown, RemoveDialogCheck(a, e) PROVE DialogInv'
  <2>. DEFINE d == [dialog[a] EXCEPT !.shown = @ \ {e}]
  <2>1. d \in Dialog /\ d.pc = dialog[a].pc /\ d.save = dialog[a].save
    BY <1>0 DEF Dialog
  <2>2. Show(a, d) /\ UNCHANGED saves
    BY <1>5 DEF RemoveDialogCheck
  <2>. HIDE DEF d
  <2>. QED
    BY <1>0, <2>1, <2>2, ShowStep
<1>. QED
  BY <1>1, <1>2, <1>3, <1>4, <1>5

LEMMA SaveStep ==
  ASSUME DialogInv, NEW a \in Admin, SaveDialog(a)
  PROVE  DialogInv'
<1>. DEFINE d == [dialog[a] EXCEPT !.pc = "saving", !.save = saves']
            c == IF dialog[a].variant = New THEN [who |-> a, op |-> "addvariant"]
                 ELSE [who |-> a, op |-> "update", variant |-> dialog[a].variant]
<1>1. saves' \in 1 .. MaxSaves
  BY BoundAssumption DEF DialogInv, SaveDialog
<1>2. dialog[a] \in Dialog
  BY DEF DialogInv
<1>3. saves' \in 0 .. MaxSaves
  BY <1>1, BoundAssumption
<1>4. d \in Dialog /\ d.save = saves'
  <2>1. PICK s \in 0 .. MaxSaves : s = saves'
    BY <1>3
  <2>. QED
    BY <1>2, <2>1 DEF Dialog
<1>5. dialog' = [dialog EXCEPT ![a] = d]
  BY <1>2 DEF SaveDialog, DialogInv
<1>6. c \in Call
  <2>1. dialog[a].variant \in Variant \cup {New}
    BY <1>2 DEF Dialog
  <2>. QED
    BY <2>1 DEF Call
<1>7. live' = live \cup {c} /\ UNCHANGED <<aborted, dismissed>>
  BY DEF SaveDialog
<1>. HIDE DEF c, d
<1>. QED
  BY <1>1, <1>3, <1>4, <1>5, <1>6, <1>7 DEF DialogInv

(* The requests doCheckOps sends.                                          *)
LEMMA CheckOps ==
  ASSUME DialogInv, NEW a \in Admin, dialog[a].pc = "saving", NEW v \in Variant
  PROVE  /\ ToAdd(a, v) \cup ToDelete(a, v) \subseteq Call
         /\ \A c \in ToAdd(a, v) \cup ToDelete(a, v) : c.who = a
         /\ \A c \in ToAdd(a, v) : c.op = "addcheck"
         /\ \A c \in ToDelete(a, v) : c.op = "delcheck" /\ c.id \in Dismissed(a)
         /\ Dismissed(a) \subseteq 1 .. MaxChecks
<1>1. dialog[a] \in Dialog /\ dialog[a].save \in 1 .. MaxSaves
  BY DEF DialogInv
<1>2. Dismissed(a) \subseteq 1 .. MaxChecks
  BY <1>1 DEF Dismissed, Dialog
<1>3. \A e \in dialog[a].shown : e.cell \in Cell
  BY <1>1 DEF Dialog, Entry
<1>4. ToAdd(a, v) \subseteq Call
  BY <1>1, <1>3 DEF ToAdd, Call
<1>5. ToDelete(a, v) \subseteq Call
  BY <1>1, <1>2 DEF ToDelete, Call
<1>. QED
  BY <1>2, <1>4, <1>5 DEF ToAdd, ToDelete

LEMMA SucceedsStep ==
  ASSUME TablesInv, DialogInv, NEW a \in Admin, NEW c \in live, Succeeds(a, c)
  PROVE  DialogInv'
<1>0. c \in Call /\ dialog[a] \in Dialog
  BY DEF DialogInv
<1>1. CASE VariantSaved(a, c)
  <2>. DEFINE v == IF c.op = "addvariant" THEN made'.variant ELSE c.variant
              ops == ToAdd(a, v) \cup ToDelete(a, v)
              d == IF ops = {} THEN Closed
                   ELSE [dialog[a] EXCEPT !.pc = "checks", !.sent = dialog[a].shown]
  <2>1. v \in Variant
    <3>1. CASE c.op = "addvariant"
      <4>1. AddVariant(c, TRUE)
        BY <3>1 DEF Succeeds, Handle, UpdateVariant, AddVariantCheck, DeleteVariantCheck
      <4>. QED
        BY <3>1, <4>1, BoundAssumption DEF AddVariant, TablesInv, Variant
    <3>2. CASE c.op # "addvariant"
      <4>1. c.op \in {"update", "addcheck", "delcheck"}
        BY <3>2 DEF Succeeds, Handle, AddVariant, UpdateVariant, AddVariantCheck, DeleteVariantCheck
      <4>. QED
        BY <1>0, <3>2, <4>1, CallKinds
    <3>. QED
      BY <3>1, <3>2
  <2>2. /\ dialog[a].pc = "saving" /\ dialog' = [dialog EXCEPT ![a] = d]
        /\ live' = (live \ {c}) \cup ops /\ dismissed' = dismissed \cup Dismissed(a)
        /\ UNCHANGED <<aborted, saves>>
    BY <1>1 DEF VariantSaved, DoCheckOps, Succeeds, DialogInv
  <2>. HIDE DEF v
  <2>3. ops \subseteq Call /\ Dismissed(a) \subseteq 1 .. MaxChecks
    BY <2>1, <2>2, CheckOps
  <2>4. d \in Dialog /\ (d.pc \in {"saving", "checks"} => d.save = dialog[a].save)
    BY <1>0, ClosedType DEF Dialog, Closed
  <2>. HIDE DEF ops, d
  <2>. QED
    BY <2>2, <2>3, <2>4 DEF DialogInv
<1>2. CASE CheckSaved(a, c)
  BY <1>0, <1>2, ClosedType DEF CheckSaved, Succeeds, DialogInv, Closed
<1>. QED
  BY <1>1, <1>2 DEF Succeeds

LEMMA FailsStep ==
  ASSUME DialogInv, NEW a \in Admin, NEW c \in live, Fails(a, c)
  PROVE  DialogInv'
<1>. DEFINE d == [dialog[a] EXCEPT !.pc = "open", !.sent = {}]
<1>1. d \in Dialog /\ d.pc = "open"
  BY DEF DialogInv, Dialog
<1>2. dialog' = [dialog EXCEPT ![a] = d]
  BY DEF Fails, Error, DialogInv
<1>3. live' \subseteq Call /\ aborted' \subseteq Call /\ UNCHANGED <<saves, dismissed>>
  BY DEF Fails, Error, DialogInv, LiveOf
<1>. HIDE DEF d
<1>. QED
  BY <1>1, <1>2, <1>3 DEF DialogInv

LEMMA DialogStep == TablesInv /\ DialogInv /\ [Next]_vars => TablesInv' /\ DialogInv'
<1>. SUFFICES ASSUME TablesInv, DialogInv, [Next]_vars PROVE TablesInv' /\ DialogInv'
  OBVIOUS
<1>1. ASSUME UNCHANGED tables PROVE TablesInv'
  BY <1>1 DEF tables, TablesInv
<1>2. ASSUME NEW a \in Admin,
             \/ OpenNewDialog(a) \/ CloseDialog(a)
             \/ \E v \in variants : OpenEditDialog(a, v)
             \/ \E cell \in Cell : AddDialogCheck(a, cell)
             \/ \E e \in dialog[a].shown : RemoveDialogCheck(a, e)
      PROVE  TablesInv' /\ DialogInv'
  <2>1. UNCHANGED tables
    BY <1>2 DEF OpenNewDialog, CloseDialog, OpenEditDialog, AddDialogCheck, RemoveDialogCheck, Show
  <2>. QED
    BY <1>1, <1>2, <2>1, EditSteps
<1>3. ASSUME NEW a \in Admin, SaveDialog(a) PROVE TablesInv' /\ DialogInv'
  BY <1>1, <1>3, SaveStep DEF SaveDialog
<1>4. ASSUME NEW a \in Admin, NEW v \in variants, DeleteVariant(a, v)
      PROVE  TablesInv' /\ DialogInv'
  BY <1>4, DeleteVariantStep DEF DeleteVariant, DialogInv
<1>5. ASSUME NEW a \in Admin, NEW c \in live, Succeeds(a, c) PROVE TablesInv' /\ DialogInv'
  BY <1>5, SucceedsStep, TablesStep DEF Succeeds, DialogInv
<1>6. ASSUME NEW a \in Admin, NEW c \in live, Fails(a, c) PROVE TablesInv' /\ DialogInv'
  BY <1>1, <1>6, FailsStep, TablesStep DEF Fails, DialogInv
<1>7. ASSUME NEW c \in aborted, Late(c) PROVE TablesInv' /\ DialogInv'
  BY <1>1, <1>7, TablesStep DEF Late, DialogInv
<1>8. CASE UNCHANGED vars
  BY <1>1, <1>8 DEF vars, tables, DialogInv
<1>. QED
  BY <1>2, <1>3, <1>4, <1>5, <1>6, <1>7, <1>8 DEF Next, Answer

LEMMA InvHolds == Spec => [](TablesInv /\ DialogInv)
  BY TablesInit, DialogInit, DialogStep, PTL DEF Spec

(* Type correctness, with the constraints of the two tables: no two checks *)
(* on a cell of a variant, and no check without its variant.               *)
THEOREM TypeCorrect == Spec => []TypeOK
<1>1. TablesInv /\ DialogInv => TypeOK
  BY VariantIds DEF TablesInv, DialogInv, TypeOK
<1>. QED
  BY <1>1, InvHolds, PTL
-----------------------------------------------------------------------------
(* The dialog and what it waits for.                                       *)

BusyInv ==
  \A a \in Admin :
    /\ dialog[a].pc \in {"saving", "checks"} <=> LiveOf(a) # {}
    /\ dialog[a].pc = "saving" => \A c, d \in LiveOf(a) : c = d

LEMMA BusyInit == Init => BusyInv
  BY DEF Init, BusyInv, LiveOf, Closed

(* A step of one dialog leaves the requests of the others alone.           *)
LEMMA BusyLocal ==
  ASSUME DialogInv, BusyInv, NEW a \in Admin,
         \A b \in Admin \ {a} : dialog'[b] = dialog[b],
         \A c : c.who # a => (c \in live' <=> c \in live),
         dialog'[a].pc \in {"saving", "checks"} <=> LiveOf(a)' # {},
         dialog'[a].pc = "saving" => \A c, d \in LiveOf(a)' : c = d
  PROVE  BusyInv'
<1>1. ASSUME NEW b \in Admin, b # a PROVE LiveOf(b)' = LiveOf(b)
  BY <1>1 DEF LiveOf
<1>. QED
  BY <1>1 DEF BusyInv

LEMMA BusyStep == TablesInv /\ DialogInv /\ BusyInv /\ [Next]_vars => BusyInv'
<1>. SUFFICES ASSUME TablesInv, DialogInv, BusyInv, [Next]_vars PROVE BusyInv'
  OBVIOUS
<1>1. ASSUME UNCHANGED <<dialog, live>> PROVE BusyInv'
  BY <1>1 DEF BusyInv, LiveOf
<1>2. ASSUME NEW a \in Admin, NEW d, Show(a, d),
             d.pc = dialog[a].pc \/ {d.pc, dialog[a].pc} \subseteq {"open", "closed"}
      PROVE  BusyInv'
  <2>1. dialog'[a] = d /\ \A b \in Admin \ {a} : dialog'[b] = dialog[b]
    BY <1>2 DEF Show, DialogInv
  <2>2. live' = live /\ LiveOf(a)' = LiveOf(a)
    BY <1>2 DEF Show, LiveOf
  <2>3. /\ dialog'[a].pc \in {"saving", "checks"} <=> dialog[a].pc \in {"saving", "checks"}
        /\ dialog'[a].pc = "saving" => dialog[a].pc = "saving"
    BY <1>2, <2>1
  <2>. QED
    BY <2>1, <2>2, <2>3, BusyLocal DEF BusyInv
<1>3. ASSUME NEW a \in Admin,
             \/ OpenNewDialog(a) \/ CloseDialog(a)
             \/ \E v \in variants : OpenEditDialog(a, v)
             \/ \E cell \in Cell : AddDialogCheck(a, cell)
             \/ \E e \in dialog[a].shown : RemoveDialogCheck(a, e)
      PROVE  BusyInv'
  <2>0. dialog[a] \in Dialog
    BY DEF DialogInv
  <2>1. CASE OpenNewDialog(a)
    <3>1. [Closed EXCEPT !.pc = "open"].pc = "open"
      BY DEF Closed
    <3>. QED
      BY <1>2, <2>1, <3>1 DEF OpenNewDialog
  <2>2. CASE CloseDialog(a)
    BY <1>2, <2>2 DEF CloseDialog, Closed
  <2>3. ASSUME NEW v \in variants, OpenEditDialog(a, v) PROVE BusyInv'
    BY <1>2, <2>3 DEF OpenEditDialog
  <2>4. ASSUME NEW cell \in Cell, AddDialogCheck(a, cell) PROVE BusyInv'
    <3>. DEFINE d == [dialog[a] EXCEPT !.shown = @ \cup {[id |-> New, cell |-> cell]}]
    <3>1. d.pc = dialog[a].pc /\ Show(a, d)
      BY <2>0, <2>4 DEF Dialog, AddDialogCheck
    <3>. HIDE DEF d
    <3>. QED
      BY <1>2, <3>1
  <2>5. ASSUME NEW e \in dialog[a].shown, RemoveDialogCheck(a, e) PROVE BusyInv'
    <3>. DEFINE d == [dialog[a] EXCEPT !.shown = @ \ {e}]
    <3>1. d.pc = dialog[a].pc /\ Show(a, d)
      BY <2>0, <2>5 DEF Dialog, RemoveDialogCheck
    <3>. HIDE DEF d
    <3>. QED
      BY <1>2, <3>1
  <2>. QED
    BY <1>3, <2>1, <2>2, <2>3, <2>4, <2>5
<1>4. ASSUME NEW a \in Admin, SaveDialog(a) PROVE BusyInv'
  <2>1. PICK c : /\ c.who = a /\ live' = live \cup {c}
    <3>1. CASE dialog[a].variant = New
      <4>1. live' = live \cup {[who |-> a, op |-> "addvariant"]}
        BY <1>4, <3>1 DEF SaveDialog
      <4>. QED
        BY <4>1
    <3>2. CASE dialog[a].variant # New
      <4>1. live' = live \cup {[who |-> a, op |-> "update", variant |-> dialog[a].variant]}
        BY <1>4, <3>2 DEF SaveDialog
      <4>. QED
        BY <4>1
    <3>. QED
      BY <3>1, <3>2
  <2>2. LiveOf(a) = {}
    BY <1>4 DEF SaveDialog, BusyInv
  <2>3. LiveOf(a)' = {c}
    BY <2>1, <2>2 DEF LiveOf
  <2>4. /\ dialog'[a].pc = "saving"
        /\ \A b \in Admin \ {a} : dialog'[b] = dialog[b]
    BY <1>4 DEF SaveDialog, DialogInv, Dialog
  <2>. QED
    BY <2>1, <2>3, <2>4, BusyLocal
<1>5. ASSUME NEW a \in Admin, NEW c \in live, Succeeds(a, c) PROVE BusyInv'
  <2>0. c \in LiveOf(a) /\ c.who = a
    BY <1>5 DEF Succeeds, LiveOf
  <2>1. CASE VariantSaved(a, c)
    <3>. DEFINE v == IF c.op = "addvariant" THEN made'.variant ELSE c.variant
                ops == ToAdd(a, v) \cup ToDelete(a, v)
    <3>1. /\ dialog[a].pc = "saving"
          /\ dialog' = [dialog EXCEPT ![a] = IF ops = {} THEN Closed
                             ELSE [@ EXCEPT !.pc = "checks", !.sent = dialog[a].shown]]
          /\ live' = (live \ {c}) \cup ops
      BY <2>1 DEF VariantSaved, DoCheckOps
    <3>2. \A k \in ops : k.who = a
      BY DEF ToAdd, ToDelete
    <3>3. LiveOf(a) = {c}
      BY <2>0, <3>1 DEF BusyInv
    <3>. HIDE DEF ops, v
    <3>4. LiveOf(a)' = ops
      BY <3>1, <3>2, <3>3 DEF LiveOf
    <3>5. /\ \A b \in Admin \ {a} : dialog'[b] = dialog[b]
          /\ dialog'[a].pc = IF ops = {} THEN "closed" ELSE "checks"
      BY <3>1 DEF DialogInv, Dialog, Closed
    <3>. QED
      BY <2>0, <3>1, <3>2, <3>4, <3>5, BusyLocal
  <2>2. CASE CheckSaved(a, c)
    <3>1. /\ dialog[a].pc = "checks" /\ live' = live \ {c}
          /\ dialog' = [dialog EXCEPT ![a] = IF LiveOf(a) = {c} THEN Closed ELSE @]
      BY <2>2 DEF CheckSaved
    <3>2. LiveOf(a)' = LiveOf(a) \ {c}
      BY <3>1 DEF LiveOf
    <3>3. /\ \A b \in Admin \ {a} : dialog'[b] = dialog[b]
          /\ dialog'[a].pc = IF LiveOf(a) = {c} THEN "closed" ELSE "checks"
      BY <3>1 DEF DialogInv, Closed
    <3>. QED
      BY <2>0, <3>1, <3>2, <3>3, BusyLocal
  <2>. QED
    BY <1>5, <2>1, <2>2 DEF Succeeds
<1>6. ASSUME NEW a \in Admin, NEW c \in live, Fails(a, c) PROVE BusyInv'
  <2>1. live' = live \ LiveOf(a) /\ LiveOf(a)' = {}
    BY <1>6 DEF Fails, Error, LiveOf
  <2>2. dialog'[a].pc = "open" /\ \A b \in Admin \ {a} : dialog'[b] = dialog[b]
    BY <1>6 DEF Fails, Error, DialogInv, Dialog
  <2>3. \A d : d.who # a => d \notin LiveOf(a)
    BY DEF LiveOf
  <2>. QED
    BY <2>1, <2>2, <2>3, BusyLocal
<1>7. ASSUME NEW c \in aborted, Late(c) PROVE BusyInv'
  BY <1>1, <1>7 DEF Late
<1>8. ASSUME NEW a \in Admin, NEW v \in variants, DeleteVariant(a, v) PROVE BusyInv'
  BY <1>1, <1>8 DEF DeleteVariant
<1>9. CASE UNCHANGED vars
  BY <1>1, <1>9 DEF vars
<1>. QED
  BY <1>3, <1>4, <1>5, <1>6, <1>7, <1>8, <1>9 DEF Next, Answer

(* The dialog is busy exactly while it waits for an answer, with any       *)
(* number of checks to save and whichever of the requests fail.            *)
THEOREM BusyAwaitsAnswerHolds == Spec => []BusyAwaitsAnswer
<1>1. BusyInv => BusyAwaitsAnswer
  BY DEF BusyInv, BusyAwaitsAnswer
<1>. QED
  BY <1>1, BusyInit, BusyStep, InvHolds, PTL DEF Spec
-----------------------------------------------------------------------------
(* Removed checks.                                                         *)

(* A request to delete a check is sent by a save that dismissed it, and    *)
(* that is still so when the request comes late.                           *)
PurposeInv == \A c \in live \cup aborted : c.op = "delcheck" => c.id \in dismissed

LEMMA PurposeInit == Init => PurposeInv
  BY DEF Init, PurposeInv

LEMMA PurposeStep == TablesInv /\ DialogInv /\ PurposeInv /\ [Next]_vars => PurposeInv'
<1>. SUFFICES ASSUME TablesInv, DialogInv, PurposeInv, [Next]_vars PROVE PurposeInv'
  OBVIOUS
<1>1. ASSUME live' \cup aborted' \subseteq live \cup aborted, dismissed \subseteq dismissed'
      PROVE  PurposeInv'
  BY <1>1 DEF PurposeInv
<1>2. ASSUME NEW a \in Admin,
             \/ OpenNewDialog(a) \/ CloseDialog(a)
             \/ \E v \in variants : OpenEditDialog(a, v) \/ DeleteVariant(a, v)
             \/ \E cell \in Cell : AddDialogCheck(a, cell)
             \/ \E e \in dialog[a].shown : RemoveDialogCheck(a, e)
      PROVE  UNCHANGED <<live, aborted, dismissed>>
  BY <1>2 DEF OpenNewDialog, CloseDialog, OpenEditDialog, AddDialogCheck, RemoveDialogCheck,
              Show, DeleteVariant
<1>3. ASSUME NEW a \in Admin, SaveDialog(a) PROVE PurposeInv'
  <2>. DEFINE c == IF dialog[a].variant = New THEN [who |-> a, op |-> "addvariant"]
                   ELSE [who |-> a, op |-> "update", variant |-> dialog[a].variant]
  <2>1. live' = live \cup {c} /\ UNCHANGED <<aborted, dismissed>>
    BY <1>3 DEF SaveDialog
  <2>2. c.op # "delcheck"
    OBVIOUS
  <2>. HIDE DEF c
  <2>. QED
    BY <2>1, <2>2 DEF PurposeInv
<1>4. ASSUME NEW a \in Admin, NEW c \in live, Succeeds(a, c) PROVE PurposeInv'
  <2>1. CASE VariantSaved(a, c)
    <3>. DEFINE v == IF c.op = "addvariant" THEN made'.variant ELSE c.variant
    <3>1. /\ live' = (live \ {c}) \cup (ToAdd(a, v) \cup ToDelete(a, v))
          /\ dismissed' = dismissed \cup Dismissed(a) /\ UNCHANGED aborted
      BY <1>4, <2>1 DEF VariantSaved, DoCheckOps, Succeeds
    <3>2. \A k \in ToAdd(a, v) : k.op # "delcheck"
      BY DEF ToAdd
    <3>3. \A k \in ToDelete(a, v) : k.id \in Dismissed(a)
      BY DEF ToDelete
    <3>. HIDE DEF v
    <3>. QED
      BY <3>1, <3>2, <3>3 DEF PurposeInv
  <2>2. CASE CheckSaved(a, c)
    BY <1>1, <1>4, <2>2 DEF CheckSaved, Succeeds
  <2>. QED
    BY <1>4, <2>1, <2>2 DEF Succeeds
<1>5. ASSUME NEW a \in Admin, NEW c \in live, Fails(a, c) PROVE PurposeInv'
  BY <1>1, <1>5 DEF Fails, Error, LiveOf
<1>6. ASSUME NEW c \in aborted, Late(c) PROVE PurposeInv'
  BY <1>1, <1>6 DEF Late
<1>7. CASE UNCHANGED vars
  BY <1>1, <1>7 DEF vars
<1>. QED
  BY <1>1, <1>2, <1>3, <1>4, <1>5, <1>6, <1>7 DEF Next, Answer

(* Which checks a step may remove.                                         *)
OnPurpose == \A c \in checks \ checks' : c.variant \notin variants' \/ c.id \in dismissed

LEMMA HandleOnPurpose ==
  ASSUME PurposeInv, NEW k \in live \cup aborted, NEW ok \in BOOLEAN, Handle(k, ok)
  PROVE  OnPurpose
<1>1. CASE AddVariant(k, ok) \/ UpdateVariant(k, ok) \/ AddVariantCheck(k, ok)
  <2>1. checks \subseteq checks'
    BY <1>1 DEF AddVariant, UpdateVariant, AddVariantCheck, tables
  <2>. QED
    BY <2>1 DEF OnPurpose
<1>2. CASE DeleteVariantCheck(k, ok)
  <2>1. k.id \in dismissed /\ \A c \in checks \ checks' : c.id = k.id
    BY <1>2 DEF DeleteVariantCheck, Deleted, PurposeInv
  <2>. QED
    BY <2>1 DEF OnPurpose
<1>. QED
  BY <1>1, <1>2 DEF Handle

LEMMA StepsOnPurpose == PurposeInv /\ [Next]_vars => OnPurpose
<1>. SUFFICES ASSUME PurposeInv, [Next]_vars PROVE OnPurpose
  OBVIOUS
<1>1. CASE UNCHANGED checks
  BY <1>1 DEF OnPurpose
<1>2. ASSUME NEW a \in Admin,
             \/ OpenNewDialog(a) \/ CloseDialog(a) \/ SaveDialog(a)
             \/ \E v \in variants : OpenEditDialog(a, v)
             \/ \E cell \in Cell : AddDialogCheck(a, cell)
             \/ \E e \in dialog[a].shown : RemoveDialogCheck(a, e)
      PROVE  UNCHANGED checks
  BY <1>2 DEF OpenNewDialog, CloseDialog, SaveDialog, OpenEditDialog, AddDialogCheck,
              RemoveDialogCheck, Show, tables
<1>3. ASSUME NEW a \in Admin, NEW v \in variants, DeleteVariant(a, v) PROVE OnPurpose
  BY <1>3 DEF DeleteVariant, ChecksOf, OnPurpose
<1>4. ASSUME NEW a \in Admin, NEW c \in live, Succeeds(a, c) \/ Fails(a, c) PROVE OnPurpose
  BY <1>1, <1>4, HandleOnPurpose DEF Succeeds, Fails, tables
<1>5. ASSUME NEW c \in aborted, Late(c) PROVE OnPurpose
  BY <1>1, <1>5, HandleOnPurpose DEF Late, tables
<1>6. CASE UNCHANGED vars
  BY <1>1, <1>6 DEF vars, tables
<1>. QED
  BY <1>1, <1>2, <1>3, <1>4, <1>5, <1>6 DEF Next, Answer

(* deletevariantcheck: no save removes a check that was not removed from   *)
(* its dialog, however late its requests arrive.                           *)
THEOREM RemovedOnPurposeHolds == Spec => RemovedOnPurpose
<1>1. Spec => []PurposeInv
  BY PurposeInit, PurposeStep, InvHolds, PTL DEF Spec
<1>2. PurposeInv /\ [Next]_vars => [OnPurpose]_vars
  BY StepsOnPurpose
<1>. QED
  BY <1>1, <1>2, PTL DEF Spec, RemovedOnPurpose, OnPurpose
-----------------------------------------------------------------------------
(* The saves.                                                              *)
Busy(d) == d.pc \in {"saving", "checks"}
Ours(d) == IF Busy(d) THEN {d.save} ELSE {}
AboutCheck(c) == c.op \in {"addcheck", "delcheck"}

(* A number stands for one Save: the requests of a dialog that is busy     *)
(* have its number, nothing else has, and nothing at all before they go    *)
(* out.                                                                    *)
SavesInv ==
  /\ \A k \in checks : k.save \in 0 .. saves
  /\ \A g \in gone : g.save \in 0 .. saves
  /\ \A c \in live \cup aborted : AboutCheck(c) => c.save \in 0 .. saves
  /\ \A a, b \in Admin : a # b => Ours(dialog[a]) \cap Ours(dialog[b]) = {}
  /\ \A a \in Admin : Ours(dialog[a]) \subseteq 0 .. saves
  /\ \A c \in live : AboutCheck(c) =>
        dialog[c.who].pc = "checks" /\ c.save = dialog[c.who].save
  /\ \A c \in aborted : AboutCheck(c) => \A a \in Admin : c.save \notin Ours(dialog[a])
  /\ \A a \in Admin : dialog[a].pc = "saving" =>
        /\ \A k \in checks : k.save # dialog[a].save
        /\ \A g \in gone : g.save # dialog[a].save

(* Another request has taken the check from the cell.                      *)
Lost(d, v, cell) == \E g \in gone : g.variant = v /\ g.cell = cell /\ g.save \notin Ours(d)

(* The stored checks among the entries are there, or others took them.     *)
Kept(d, v, entries) == \A e \in entries : e.id # New =>
  \/ \E k \in checks : k.id = e.id /\ k.variant = v /\ k.cell = e.cell
  \/ Lost(d, v, e.cell)

(* What a dialog shows is true of the checks that are left.                *)
ShowsOf(d) == d.pc # "closed" =>
  /\ d.variant \in 0 .. made.variant
  /\ d.variant = New => d.original = {}
  /\ \A i \in d.original : i <= made.check
  /\ \A e \in d.shown : e.id # New =>
        /\ e.id \in d.original
        /\ \A k \in checks : k.id = e.id => k.cell = e.cell
        /\ d.pc = "checks" => e \in d.sent
  /\ d.variant \in variants => Kept(d, d.variant, d.shown)

(* What a dialog sent is in the tables, or asked for, or others undid it.  *)
Met(d, v, asked) ==
  /\ Kept(d, v, d.sent)
  /\ \A e \in d.sent : e.id = New =>
        \/ \E c \in asked : c.op = "addcheck" /\ c.cell = e.cell
        \/ \E k \in checks : k.variant = v /\ k.cell = e.cell /\ k.id \notin d.original
        \/ Lost(d, v, e.cell)
  /\ \A k \in checks : k.variant = v =>
        \/ \E e \in d.sent : e.cell = k.cell
        \/ k.id \notin d.original /\ k.save # d.save
        \/ \E c \in asked : c.op = "delcheck" /\ c.id = k.id

(* The requests of a dialog ask for what it sent.                          *)
AsksFor(d, c) ==
  /\ d.pc = "saving" => \/ c.op = "addvariant" /\ d.variant = New
                        \/ c.op = "update" /\ c.variant = d.variant
  /\ d.pc = "checks" =>
        /\ c.variant \in 1 .. made.variant
        /\ \/ c.op = "addcheck" /\ \E e \in d.sent : e.id = New /\ e.cell = c.cell
           \/ c.op = "delcheck" /\ c.id \in d.original /\ \A e \in d.sent : e.id # c.id

AskedOf(d, asked) ==
  /\ \A c \in asked : AsksFor(d, c)
  /\ d.pc = "checks" => \A c, k \in asked :
        c.variant = k.variant /\ (c.variant \in variants => Met(d, c.variant, asked))

-----------------------------------------------------------------------------
(* What happens to the tables.                                             *)

Recorded(k, save) == [variant |-> k.variant, cell |-> k.cell, save |-> save]

LEMMA TableMoves ==
  ASSUME TablesInv, NEW c \in Call, NEW ok \in BOOLEAN, Handle(c, ok)
  PROVE  /\ made.variant <= made'.variant /\ made.check <= made'.check
         /\ \A v \in variants' : v \in variants \/ made.variant < v
         /\ \A k \in checks' \ checks :
               /\ c.op = "addcheck" /\ made.check < k.id
               /\ k.variant = c.variant /\ k.cell = c.cell /\ k.save = c.save
         /\ \A k \in checks \ checks' :
               /\ c.op = "delcheck" /\ k.id = c.id /\ k.variant = c.variant
               /\ Recorded(k, c.save) \in gone'
         /\ gone \subseteq gone'
         /\ \A g \in gone' \ gone : c.op = "delcheck" /\ g.save = c.save
<1>. USE DEF TablesInv
<1>1. CASE AddVariant(c, ok)
  <2>1. made' = [made EXCEPT !.variant = @ + 1] /\ variants' = variants \cup {made.variant + 1}
        /\ UNCHANGED <<checks, gone>>
    BY <1>1 DEF AddVariant
  <2>2. made'.variant = made.variant + 1 /\ made'.check = made.check
    BY <2>1
  <2>. QED
    BY <2>1, <2>2
<1>2. CASE UpdateVariant(c, ok)
  BY <1>2 DEF UpdateVariant, tables
<1>3. CASE AddVariantCheck(c, ok)
  <2>1. CASE ~ok
    BY <1>3, <2>1 DEF AddVariantCheck
  <2>2. CASE ok
    <3>. DEFINE new == [id |-> made.check + 1, variant |-> c.variant, cell |-> c.cell, save |-> c.save]
    <3>1. /\ c.op = "addcheck" /\ made' = [made EXCEPT !.check = @ + 1]
          /\ checks' = checks \cup {new} /\ UNCHANGED <<variants, gone>>
      BY <1>3, <2>2 DEF AddVariantCheck
    <3>2. made'.variant = made.variant /\ made'.check = made.check + 1
      BY <3>1
    <3>3. /\ new.id = made.check + 1 /\ new.variant = c.variant /\ new.cell = c.cell
          /\ new.save = c.save
      OBVIOUS
    <3>. HIDE DEF new
    <3>. QED
      BY <3>1, <3>2, <3>3
  <2>. QED
    BY <2>1, <2>2
<1>4. CASE DeleteVariantCheck(c, ok)
  <2>1. /\ c.op = "delcheck" /\ UNCHANGED <<variants, made>>
        /\ checks' = checks \ Deleted(c)
        /\ gone' = gone \cup {Recorded(k, c.save) : k \in Deleted(c)}
    BY <1>4 DEF DeleteVariantCheck, Recorded
  <2>2. \A k \in Deleted(c) : k \in checks /\ k.id = c.id /\ k.variant = c.variant
    BY DEF Deleted, ChecksOf
  <2>3. \A k : Recorded(k, c.save).save = c.save
    BY DEF Recorded
  <2>. QED
    BY <2>1, <2>2, <2>3
<1>. QED
  BY <1>1, <1>2, <1>3, <1>4 DEF Handle

(* A step of the tables that leaves the entries of a dialog alone, or      *)
(* leaves word that others have not.                                       *)
Spares(d, entries) ==
  /\ made.variant <= made'.variant /\ made.check <= made'.check /\ gone \subseteq gone'
  /\ \A v \in variants' : v \in variants \/ made.variant < v
  /\ \A k \in checks' \ checks : made.check < k.id
  /\ \A k \in checks \ checks' :
        \/ k.variant \notin variants'
        \/ \E g \in gone' : g.variant = k.variant /\ g.cell = k.cell /\ g.save \notin Ours(d)
        \/ \A e \in entries : e.id # k.id

(* The same of a step by others.                                           *)
Elsewhere(d) ==
  /\ made.variant <= made'.variant /\ made.check <= made'.check /\ gone \subseteq gone'
  /\ \A v \in variants' : v \in variants \/ made.variant < v
  /\ \A k \in checks' \ checks : made.check < k.id /\ k.save \notin Ours(d)
  /\ \A k \in checks \ checks' :
        \/ k.variant \notin variants'
        \/ \E g \in gone' : g.variant = k.variant /\ g.cell = k.cell /\ g.save \notin Ours(d)

LEMMA ElsewhereSpares == ASSUME NEW d, NEW entries, Elsewhere(d) PROVE Spares(d, entries)
  BY DEF Elsewhere, Spares

LEMMA SameTables == ASSUME TablesInv, NEW d, UNCHANGED tables PROVE Elsewhere(d)
  BY DEF tables, Elsewhere, TablesInv

LEMMA OthersElsewhere ==
  ASSUME TablesInv, NEW d, NEW c \in Call, NEW ok \in BOOLEAN, Handle(c, ok),
         AboutCheck(c) => c.save \notin Ours(d)
  PROVE  Elsewhere(d)
<1>. \A k : /\ Recorded(k, c.save).variant = k.variant /\ Recorded(k, c.save).cell = k.cell
            /\ Recorded(k, c.save).save = c.save
  BY DEF Recorded
<1>. QED
  BY TableMoves DEF Elsewhere, AboutCheck

LEMMA RemovalElsewhere ==
  ASSUME TablesInv, NEW d, NEW a \in Admin, NEW v \in variants, DeleteVariant(a, v)
  PROVE  Elsewhere(d)
  BY DEF DeleteVariant, ChecksOf, Elsewhere, TablesInv

LEMMA OwnSpares ==
  ASSUME TablesInv, NEW d, NEW entries, NEW c \in Call, Handle(c, TRUE),
         c.op = "delcheck" => \A e \in entries : e.id # c.id
  PROVE  Spares(d, entries)
  BY TableMoves DEF Spares

-----------------------------------------------------------------------------
(* What a dialog shows, from one step to the next.                         *)
LEMMA KeptStep ==
  ASSUME NEW d, NEW v, NEW entries, Spares(d, entries), v \in variants', Kept(d, v, entries)
  PROVE  Kept(d, v, entries)'
<1>. SUFFICES ASSUME NEW e \in entries, e.id # New
              PROVE  \/ \E k \in checks' : k.id = e.id /\ k.variant = v /\ k.cell = e.cell
                     \/ \E g \in gone' : g.variant = v /\ g.cell = e.cell /\ g.save \notin Ours(d)
  BY DEF Kept, Lost, Ours, Busy
<1>1. CASE Lost(d, v, e.cell)
  BY <1>1 DEF Lost, Spares
<1>2. CASE \E k \in checks : k.id = e.id /\ k.variant = v /\ k.cell = e.cell
  BY <1>2 DEF Spares
<1>. QED
  BY <1>1, <1>2 DEF Kept

LEMMA ShowsStep ==
  ASSUME TablesInv, TablesInv', NEW d \in Dialog, Spares(d, d.shown), ShowsOf(d)
  PROVE  ShowsOf(d)'
<1>. SUFFICES ASSUME d.pc # "closed" PROVE ShowsOf(d)'
  BY DEF ShowsOf
<1>1. /\ made.variant \in Nat /\ made'.variant \in Nat /\ made.check \in Nat /\ made'.check \in Nat
      /\ \A k \in checks' : k.id \in Nat
  BY DEF TablesInv, Check
<1>2. d.variant \in 0 .. made'.variant
  BY <1>1 DEF ShowsOf, Spares
<1>3. \A i \in d.original : i \in Nat /\ i <= made.check /\ i <= made'.check
  BY <1>1 DEF ShowsOf, Spares, Dialog
<1>4. ASSUME NEW e \in d.shown, e.id # New
      PROVE  /\ e.id \in d.original
             /\ \A k \in checks' : k.id = e.id => k.cell = e.cell
             /\ d.pc = "checks" => e \in d.sent
  BY <1>1, <1>3, <1>4 DEF ShowsOf, Spares
<1>5. ASSUME d.variant \in variants' PROVE Kept(d, d.variant, d.shown)'
  <2>1. d.variant \in variants
    BY <1>1, <1>5 DEF ShowsOf, Spares
  <2>. QED
    BY <1>5, <2>1, KeptStep DEF ShowsOf
<1>. QED
  BY <1>2, <1>3, <1>4, <1>5 DEF ShowsOf

LEMMA MetElsewhere ==
  ASSUME TablesInv, NEW d \in Dialog, d.pc = "checks", ShowsOf(d), Elsewhere(d),
         NEW v \in variants', NEW asked, Met(d, v, asked)
  PROVE  Met(d, v, asked)'
<1>1. Kept(d, v, d.sent)'
  BY ElsewhereSpares, KeptStep DEF Met
<1>2. \A cell : Lost(d, v, cell) => Lost(d, v, cell)'
  BY DEF Lost, Elsewhere
<1>3. ASSUME NEW e \in d.sent, e.id = New
      PROVE  \/ \E c \in asked : c.op = "addcheck" /\ c.cell = e.cell
             \/ \E k \in checks' : k.variant = v /\ k.cell = e.cell /\ k.id \notin d.original
             \/ Lost(d, v, e.cell)'
  <2>1. ASSUME NEW k \in checks, k.variant = v, k.cell = e.cell, k \notin checks'
        PROVE  Lost(d, v, e.cell)'
    BY <2>1 DEF Lost, Elsewhere
  <2>. QED
    BY <1>2, <1>3, <2>1 DEF Met
<1>4. ASSUME NEW k \in checks', k.variant = v
      PROVE  \/ \E e \in d.sent : e.cell = k.cell
             \/ k.id \notin d.original /\ k.save # d.save
             \/ \E c \in asked : c.op = "delcheck" /\ c.id = k.id
  <2>1. CASE k \in checks
    BY <1>4, <2>1 DEF Met
  <2>2. CASE k \notin checks
    <3>1. made.check < k.id /\ k.save # d.save
      BY <2>2 DEF Elsewhere, Ours, Busy
    <3>2. \A i \in d.original : i \in Nat /\ i <= made.check
      BY DEF ShowsOf, Dialog
    <3>. QED
      BY <3>1, <3>2 DEF TablesInv
  <2>. QED
    BY <2>1, <2>2
<1>. QED
  BY <1>1, <1>3, <1>4 DEF Met

(* An answer ticks its request off.                                        *)
LEMMA MetOwn ==
  ASSUME TablesInv, NEW d \in Dialog, d.pc = "checks", ShowsOf(d),
         NEW asked, NEW c \in asked, c \in Call, AskedOf(d, asked), Handle(c, TRUE),
         c.variant \in variants'
  PROVE  c.variant \in variants /\ Met(d, c.variant, asked \ {c})'
<1>. DEFINE v == c.variant
<1>0. /\ v \in variants /\ Met(d, v, asked)
      /\ \/ c.op = "addcheck" /\ \E e \in d.sent : e.id = New /\ e.cell = c.cell
         \/ c.op = "delcheck" /\ c.id \in d.original /\ \A e \in d.sent : e.id # c.id
  <2>1. AsksFor(d, c)
    BY DEF AskedOf
  <2>2. v \in variants
    <3>1. made.variant \in Nat /\ v \in 1 .. made.variant
      BY <2>1 DEF AsksFor, TablesInv
    <3>2. v \in variants \/ made.variant < v
      BY TableMoves
    <3>. QED
      BY <3>1, <3>2
  <2>. QED
    BY <2>1, <2>2 DEF AskedOf, AsksFor
<1>1. Kept(d, v, d.sent)'
  <2>1. Spares(d, d.sent)
    BY <1>0, OwnSpares
  <2>. QED
    BY <1>0, <2>1, KeptStep DEF Met
<1>2. /\ gone \subseteq gone'
      /\ \A k \in checks \ checks' : c.op = "delcheck" /\ k.id = c.id
      /\ \A k \in checks' \ checks : c.op = "addcheck" /\ k.cell = c.cell
  BY TableMoves
<1>3. c.op = "addcheck" =>
        \E k \in checks' : k.variant = v /\ k.cell = c.cell /\ k.id \notin d.original
  <2>. SUFFICES ASSUME c.op = "addcheck"
                PROVE  \E k \in checks' : k.variant = v /\ k.cell = c.cell /\ k.id \notin d.original
    OBVIOUS
  <2>. DEFINE new == [id |-> made.check + 1, variant |-> v, cell |-> c.cell, save |-> c.save]
  <2>1. new \in checks' /\ new.id = made.check + 1 /\ new.variant = v /\ new.cell = c.cell
    BY DEF Handle, AddVariant, UpdateVariant, AddVariantCheck, DeleteVariantCheck
  <2>2. \A i \in d.original : i \in Nat /\ i <= made.check
    BY DEF ShowsOf, Dialog
  <2>. HIDE DEF new
  <2>. QED
    BY <2>1, <2>2 DEF TablesInv
<1>4. c.op = "delcheck" => \A k \in checks' : ~(k.variant = v /\ k.id = c.id)
  BY DEF Handle, AddVariant, UpdateVariant, AddVariantCheck, DeleteVariantCheck, Deleted, ChecksOf
<1>5. ASSUME NEW e \in d.sent, e.id = New
      PROVE  \/ \E x \in asked \ {c} : x.op = "addcheck" /\ x.cell = e.cell
             \/ \E k \in checks' : k.variant = v /\ k.cell = e.cell /\ k.id \notin d.original
             \/ Lost(d, v, e.cell)'
  <2>1. Lost(d, v, e.cell) => \E g \in gone' : g.variant = v /\ g.cell = e.cell /\ g.save \notin Ours(d)
    BY <1>2 DEF Lost
  <2>2. (\E g \in gone' : g.variant = v /\ g.cell = e.cell /\ g.save \notin Ours(d)) => Lost(d, v, e.cell)'
    BY DEF Lost
  <2>. QED
    BY <1>0, <1>2, <1>3, <1>5, <2>1, <2>2 DEF Met
<1>6. ASSUME NEW k \in checks', k.variant = v
      PROVE  \/ \E e \in d.sent : e.cell = k.cell
             \/ k.id \notin d.original /\ k.save # d.save
             \/ \E x \in asked \ {c} : x.op = "delcheck" /\ x.id = k.id
  BY <1>0, <1>2, <1>4, <1>6 DEF Met
<1>. QED
  BY <1>0, <1>1, <1>5, <1>6 DEF Met

-----------------------------------------------------------------------------
(* The numbers of the saves.                                               *)
FromRequests ==
  /\ \A k \in checks' : k \in checks \/ \E c \in live \cup aborted : AboutCheck(c) /\ k.save = c.save
  /\ \A g \in gone' : g \in gone \/ \E c \in live \cup aborted : AboutCheck(c) /\ g.save = c.save

LEMMA HandleFromRequests ==
  ASSUME TablesInv, DialogInv, NEW c \in live \cup aborted, NEW ok \in BOOLEAN, Handle(c, ok)
  PROVE  FromRequests
<1>1. c \in Call
  BY DEF DialogInv
<1>. QED
  BY <1>1, TableMoves DEF FromRequests, AboutCheck

LEMMA SameFromRequests == (UNCHANGED tables) => FromRequests
  BY DEF tables, FromRequests

(* A step that begins no save, and after which the requests for checks are *)
(* those of their dialogs.                                                 *)
LEMMA SavesFrame ==
  ASSUME DialogInv, SavesInv, FromRequests, saves' = saves,
         \A a \in Admin : /\ Ours(dialog'[a]) \subseteq Ours(dialog[a])
                          /\ dialog'[a].pc = "saving" => dialog[a].pc = "saving",
         \A c \in live' : AboutCheck(c) =>
            /\ c.save \in 0 .. saves
            /\ dialog'[c.who].pc = "checks" /\ c.save = dialog'[c.who].save,
         \A c \in aborted' : AboutCheck(c) =>
            c \in aborted \/ (c \in live /\ c.save \notin Ours(dialog'[c.who]))
  PROVE  SavesInv'
<1>0. \A c \in live \cup aborted : c.who \in Admin
  BY CallKinds DEF DialogInv
<1>1. \A k \in checks' : k.save \in 0 .. saves
  BY DEF SavesInv, FromRequests
<1>2. \A g \in gone' : g.save \in 0 .. saves
  BY DEF SavesInv, FromRequests
<1>3. \A c \in live' \cup aborted' : AboutCheck(c) => c.save \in 0 .. saves
  BY DEF SavesInv
<1>4. \A a, b \in Admin : a # b => Ours(dialog'[a]) \cap Ours(dialog'[b]) = {}
  BY DEF SavesInv
<1>5. \A a \in Admin : Ours(dialog'[a]) \subseteq 0 .. saves
  BY DEF SavesInv
<1>6. \A c \in live : AboutCheck(c) => c.save \in Ours(dialog[c.who])
  BY DEF SavesInv, Ours, Busy
<1>7. ASSUME NEW c \in aborted', AboutCheck(c), NEW a \in Admin
      PROVE  c.save \notin Ours(dialog'[a])
  <2>1. CASE c \in aborted
    BY <1>7, <2>1 DEF SavesInv
  <2>2. CASE c \in live /\ c.save \notin Ours(dialog'[c.who])
    <3>1. CASE a = c.who
      BY <2>2, <3>1
    <3>2. CASE a # c.who
      BY <1>0, <1>6, <1>7, <2>2, <3>2 DEF SavesInv
    <3>. QED
      BY <3>1, <3>2
  <2>. QED
    BY <1>7, <2>1, <2>2
<1>8. ASSUME NEW a \in Admin, dialog'[a].pc = "saving"
      PROVE  /\ \A k \in checks' : k.save # dialog'[a].save
             /\ \A g \in gone' : g.save # dialog'[a].save
  <2>1. dialog[a].pc = "saving" /\ Ours(dialog[a]) = {dialog[a].save} /\ dialog'[a].save = dialog[a].save
    BY <1>8 DEF Ours, Busy
  <2>2. ASSUME NEW c \in live \cup aborted, AboutCheck(c) PROVE c.save # dialog[a].save
    <3>1. CASE c \in aborted
      BY <2>1, <2>2, <3>1 DEF SavesInv
    <3>2. CASE c \in live
      <4>1. c.who # a /\ c.save \in Ours(dialog[c.who])
        BY <1>6, <2>1, <2>2, <3>2 DEF SavesInv
      <4>. QED
        BY <1>0, <2>1, <3>2, <4>1 DEF SavesInv
    <3>. QED
      BY <3>1, <3>2
  <2>. QED
    BY <2>1, <2>2 DEF SavesInv, FromRequests
<1>. QED
  BY <1>1, <1>2, <1>3, <1>4, <1>5, <1>7, <1>8 DEF SavesInv

LEMMA SavesInit == Init => SavesInv
<1>. SUFFICES ASSUME Init PROVE SavesInv
  OBVIOUS
<1>1. \A a \in Admin : dialog[a].pc = "closed" /\ Ours(dialog[a]) = {}
  BY DEF Init, Closed, Ours, Busy
<1>2. \A k \in checks : k.save = 0
  BY DEF Init
<1>3. saves = 0 /\ gone = {} /\ live = {} /\ aborted = {} /\ 0 \in 0 .. saves
  BY DEF Init
<1>. QED
  BY <1>1, <1>2, <1>3 DEF SavesInv

LEMMA SavesStep == TablesInv /\ DialogInv /\ BusyInv /\ SavesInv /\ [Next]_vars => SavesInv'
<1>. SUFFICES ASSUME TablesInv, DialogInv, BusyInv, SavesInv, [Next]_vars PROVE SavesInv'
  OBVIOUS
<1>0. \A c \in live \cup aborted : c.who \in Admin
  BY CallKinds DEF DialogInv
<1>1. ASSUME UNCHANGED <<dialog, live, saves>>, aborted' \subseteq aborted, FromRequests
      PROVE  SavesInv'
  <2>1. \A a \in Admin : /\ Ours(dialog'[a]) \subseteq Ours(dialog[a])
                         /\ dialog'[a].pc = "saving" => dialog[a].pc = "saving"
    BY <1>1
  <2>2. \A c \in live' : AboutCheck(c) =>
            /\ c.save \in 0 .. saves
            /\ dialog'[c.who].pc = "checks" /\ c.save = dialog'[c.who].save
    BY <1>1 DEF SavesInv
  <2>3. \A c \in aborted' : c \in aborted
    BY <1>1
  <2>. QED
    BY <1>1, <2>1, <2>2, <2>3, SavesFrame
<1>2. ASSUME NEW a \in Admin, NEW d, Show(a, d), UNCHANGED saves,
             \/ d.pc = dialog[a].pc /\ d.save = dialog[a].save
             \/ {d.pc, dialog[a].pc} \subseteq {"open", "closed"}
      PROVE  SavesInv'
  <2>1. dialog'[a] = d /\ \A b \in Admin \ {a} : dialog'[b] = dialog[b]
    BY <1>2 DEF Show, DialogInv
  <2>2. UNCHANGED <<tables, live, aborted>>
    BY <1>2 DEF Show
  <2>3. ASSUME NEW b \in Admin
        PROVE  /\ Ours(dialog'[b]) = Ours(dialog[b])
               /\ dialog'[b].pc \in {"saving", "checks"} \/ dialog[b].pc \in {"saving", "checks"} =>
                    dialog'[b].pc = dialog[b].pc /\ dialog'[b].save = dialog[b].save
    BY <1>2, <2>1 DEF Ours, Busy
  <2>4. \A c \in live : AboutCheck(c) =>
            /\ c.save \in 0 .. saves
            /\ dialog'[c.who].pc = "checks" /\ c.save = dialog'[c.who].save
    BY <1>0, <2>3 DEF SavesInv
  <2>5. \A b \in Admin : /\ Ours(dialog'[b]) \subseteq Ours(dialog[b])
                         /\ dialog'[b].pc = "saving" => dialog[b].pc = "saving"
    BY <2>3
  <2>6. FromRequests
    BY <2>2, SameFromRequests
  <2>7. (\A c \in aborted' : c \in aborted) /\ live' = live
    BY <2>2
  <2>. QED
    BY <1>2, <2>4, <2>5, <2>6, <2>7, SavesFrame
<1>3. ASSUME NEW a \in Admin,
             \/ OpenNewDialog(a) \/ CloseDialog(a)
             \/ \E v \in variants : OpenEditDialog(a, v)
             \/ \E cell \in Cell : AddDialogCheck(a, cell)
             \/ \E e \in dialog[a].shown : RemoveDialogCheck(a, e)
      PROVE  SavesInv'
  <2>0. dialog[a] \in Dialog
    BY DEF DialogInv
  <2>1. CASE OpenNewDialog(a)
    <3>1. [Closed EXCEPT !.pc = "open"].pc = "open"
      BY DEF Closed
    <3>. QED
      BY <1>2, <2>1, <3>1 DEF OpenNewDialog
  <2>2. CASE CloseDialog(a)
    BY <1>2, <2>2 DEF CloseDialog, Closed
  <2>3. ASSUME NEW v \in variants, OpenEditDialog(a, v) PROVE SavesInv'
    BY <1>2, <2>3 DEF OpenEditDialog
  <2>4. ASSUME NEW cell \in Cell, AddDialogCheck(a, cell) PROVE SavesInv'
    <3>. DEFINE d == [dialog[a] EXCEPT !.shown = @ \cup {[id |-> New, cell |-> cell]}]
    <3>1. d.pc = dialog[a].pc /\ d.save = dialog[a].save /\ Show(a, d) /\ UNCHANGED saves
      BY <2>0, <2>4 DEF Dialog, AddDialogCheck
    <3>. HIDE DEF d
    <3>. QED
      BY <1>2, <3>1
  <2>5. ASSUME NEW e \in dialog[a].shown, RemoveDialogCheck(a, e) PROVE SavesInv'
    <3>. DEFINE d == [dialog[a] EXCEPT !.shown = @ \ {e}]
    <3>1. d.pc = dialog[a].pc /\ d.save = dialog[a].save /\ Show(a, d) /\ UNCHANGED saves
      BY <2>0, <2>5 DEF Dialog, RemoveDialogCheck
    <3>. HIDE DEF d
    <3>. QED
      BY <1>2, <3>1
  <2>. QED
    BY <1>3, <2>1, <2>2, <2>3, <2>4, <2>5
<1>4. ASSUME NEW a \in Admin, SaveDialog(a) PROVE SavesInv'
  <2>. DEFINE c == IF dialog[a].variant = New THEN [who |-> a, op |-> "addvariant"]
                   ELSE [who |-> a, op |-> "update", variant |-> dialog[a].variant]
  <2>1. live' = live \cup {c} /\ UNCHANGED <<checks, gone, aborted>>
    BY <1>4 DEF SaveDialog, tables
  <2>2. ~AboutCheck(c)
    BY DEF AboutCheck
  <2>. HIDE DEF c
  <2>3. /\ dialog[a].pc = "open" /\ dialog'[a].pc = "saving" /\ dialog'[a].save = saves'
        /\ \A b \in Admin \ {a} : dialog'[b] = dialog[b]
    BY <1>4 DEF SaveDialog, DialogInv, Dialog
  <2>4. saves \in Nat /\ saves' = saves + 1
    BY <1>4, BoundAssumption DEF SaveDialog, DialogInv
  <2>5. /\ saves' \in 0 .. saves' /\ saves' \notin 0 .. saves
        /\ \A n \in 0 .. saves : n \in 0 .. saves' /\ n # saves'
    BY <2>4
  <2>6. Ours(dialog'[a]) = {saves'} /\ Ours(dialog[a]) = {}
    BY <2>3 DEF Ours, Busy
  <2>7. \A b, e \in Admin : b # e => Ours(dialog'[b]) \cap Ours(dialog'[e]) = {}
    <3>1. ASSUME NEW b \in Admin, b # a PROVE Ours(dialog'[b]) = Ours(dialog[b]) /\ saves' \notin Ours(dialog[b])
      BY <2>3, <2>5, <3>1 DEF SavesInv
    <3>2. \A b, e \in Admin : b # e => Ours(dialog[b]) \cap Ours(dialog[e]) = {}
      BY DEF SavesInv
    <3>. QED
      BY <2>6, <3>1, <3>2
  <2>8. \A b \in Admin : Ours(dialog'[b]) \subseteq 0 .. saves'
    BY <2>3, <2>5, <2>6 DEF SavesInv
  <2>9. \A k \in live' : AboutCheck(k) =>
            k \in live /\ dialog'[k.who].pc = "checks" /\ k.save = dialog'[k.who].save
    <3>1. \A k \in live' : AboutCheck(k) => k \in live
      BY <2>1, <2>2
    <3>2. \A k \in live : AboutCheck(k) => k.who \in Admin \ {a}
      BY <1>0, <2>3 DEF SavesInv
    <3>. QED
      BY <2>3, <3>1, <3>2 DEF SavesInv
  <2>10. \A k \in aborted' : AboutCheck(k) => \A b \in Admin : k.save \notin Ours(dialog'[b])
    BY <2>1, <2>3, <2>5, <2>6 DEF SavesInv
  <2>11. \A k \in live' \cup aborted' : AboutCheck(k) => k.save \in 0 .. saves'
    BY <2>1, <2>2, <2>5 DEF SavesInv
  <2>12. \A b \in Admin : dialog'[b].pc = "saving" =>
        /\ \A k \in checks' : k.save # dialog'[b].save
        /\ \A g \in gone' : g.save # dialog'[b].save
    BY <2>1, <2>3, <2>5 DEF SavesInv
  <2>13. (\A k \in checks' : k.save \in 0 .. saves') /\ \A g \in gone' : g.save \in 0 .. saves'
    BY <2>1, <2>5 DEF SavesInv
  <2>. QED
    BY <2>7, <2>8, <2>9, <2>10, <2>11, <2>12, <2>13 DEF SavesInv
<1>5. ASSUME NEW a \in Admin, NEW c \in live, Succeeds(a, c) PROVE SavesInv'
  <2>0. /\ c \in LiveOf(a) /\ c.who = a /\ saves' = saves /\ FromRequests
        /\ \A k \in aborted' : k \in aborted
    BY <1>5, HandleFromRequests DEF Succeeds, LiveOf
  <2>1. CASE VariantSaved(a, c)
    <3>. DEFINE v == IF c.op = "addvariant" THEN made'.variant ELSE c.variant
                ops == ToAdd(a, v) \cup ToDelete(a, v)
    <3>1. /\ dialog[a].pc = "saving"
          /\ dialog' = [dialog EXCEPT ![a] = IF ops = {} THEN Closed
                             ELSE [@ EXCEPT !.pc = "checks", !.sent = dialog[a].shown]]
          /\ live' = (live \ {c}) \cup ops
      BY <2>1 DEF VariantSaved, DoCheckOps
    <3>2. \A k \in ops : k.who = a /\ k.save = dialog[a].save
      BY DEF ToAdd, ToDelete
    <3>. HIDE DEF ops, v
    <3>3. /\ \A b \in Admin \ {a} : dialog'[b] = dialog[b]
          /\ ops = {} => dialog'[a].pc = "closed"
          /\ ops # {} => dialog'[a].pc = "checks" /\ dialog'[a].save = dialog[a].save
      BY <3>1 DEF DialogInv, Dialog, Closed
    <3>4. \A b \in Admin : /\ Ours(dialog'[b]) \subseteq Ours(dialog[b])
                           /\ dialog'[b].pc = "saving" => dialog[b].pc = "saving"
      BY <3>1, <3>3 DEF Ours, Busy
    <3>5. \A k \in live : AboutCheck(k) => k.who \in Admin \ {a}
      BY <1>0, <3>1 DEF SavesInv
    <3>6. dialog[a].save \in 0 .. saves
      BY <3>1 DEF SavesInv, Ours, Busy
    <3>7. \A k \in live' : AboutCheck(k) =>
            /\ k.save \in 0 .. saves
            /\ dialog'[k.who].pc = "checks" /\ k.save = dialog'[k.who].save
      BY <3>1, <3>2, <3>3, <3>5, <3>6 DEF SavesInv
    <3>. QED
      BY <2>0, <3>4, <3>7, SavesFrame
  <2>2. CASE CheckSaved(a, c)
    <3>1. /\ dialog[a].pc = "checks" /\ live' = live \ {c}
          /\ dialog' = [dialog EXCEPT ![a] = IF LiveOf(a) = {c} THEN Closed ELSE @]
      BY <2>2 DEF CheckSaved
    <3>2. /\ \A b \in Admin \ {a} : dialog'[b] = dialog[b]
          /\ LiveOf(a) = {c} => dialog'[a].pc = "closed"
          /\ LiveOf(a) # {c} => dialog'[a] = dialog[a]
      BY <3>1 DEF DialogInv, Closed
    <3>3. \A b \in Admin : /\ Ours(dialog'[b]) \subseteq Ours(dialog[b])
                           /\ dialog'[b].pc = "saving" => dialog[b].pc = "saving"
      BY <3>1, <3>2 DEF Ours, Busy
    <3>4. \A k \in live' : k.who \in Admin /\ dialog'[k.who] = dialog[k.who]
      BY <1>0, <2>0, <3>1, <3>2 DEF LiveOf
    <3>5. \A k \in live' : AboutCheck(k) =>
            /\ k.save \in 0 .. saves
            /\ dialog'[k.who].pc = "checks" /\ k.save = dialog'[k.who].save
      BY <3>1, <3>4 DEF SavesInv
    <3>. QED
      BY <2>0, <3>3, <3>5, SavesFrame
  <2>. QED
    BY <1>5, <2>1, <2>2 DEF Succeeds
<1>6. ASSUME NEW a \in Admin, NEW c \in live, Fails(a, c) PROVE SavesInv'
  <2>1. /\ live' = live \ LiveOf(a) /\ aborted' = aborted \cup (LiveOf(a) \ {c})
        /\ UNCHANGED saves
    BY <1>6 DEF Fails, Error
  <2>2. dialog'[a].pc = "open" /\ \A b \in Admin \ {a} : dialog'[b] = dialog[b]
    BY <1>6 DEF Fails, Error, DialogInv, Dialog
  <2>3. FromRequests
    BY <1>6, HandleFromRequests, SameFromRequests DEF Fails
  <2>4. Ours(dialog'[a]) = {}
    BY <2>2 DEF Ours, Busy
  <2>5. \A b \in Admin : /\ Ours(dialog'[b]) \subseteq Ours(dialog[b])
                         /\ dialog'[b].pc = "saving" => dialog[b].pc = "saving"
    BY <2>2, <2>4
  <2>6. \A k \in live' : k.who \in Admin \ {a} /\ dialog'[k.who] = dialog[k.who]
    BY <1>0, <2>1, <2>2 DEF LiveOf
  <2>7. \A k \in live' : AboutCheck(k) =>
            /\ k.save \in 0 .. saves
            /\ dialog'[k.who].pc = "checks" /\ k.save = dialog'[k.who].save
    BY <2>1, <2>6 DEF SavesInv
  <2>8. \A k \in aborted' : k \in aborted \/ (k \in live /\ k.save \notin Ours(dialog'[k.who]))
    <3>1. \A k \in LiveOf(a) : k \in live /\ k.who = a
      BY DEF LiveOf
    <3>. QED
      BY <2>1, <2>4, <3>1
  <2>. QED
    BY <2>1, <2>3, <2>5, <2>7, <2>8, SavesFrame
<1>7. ASSUME NEW c \in aborted, Late(c) PROVE SavesInv'
  <2>1. FromRequests
    BY <1>7, HandleFromRequests, SameFromRequests DEF Late
  <2>. QED
    BY <1>1, <1>7, <2>1 DEF Late
<1>8. ASSUME NEW a \in Admin, NEW v \in variants, DeleteVariant(a, v) PROVE SavesInv'
  <2>1. FromRequests
    BY <1>8 DEF DeleteVariant, FromRequests
  <2>. QED
    BY <1>1, <1>8, <2>1 DEF DeleteVariant
<1>9. CASE UNCHANGED vars
  <2>1. FromRequests
    BY <1>9 DEF vars, FromRequests
  <2>. QED
    BY <1>1, <1>9, <2>1 DEF vars
<1>. QED
  BY <1>3, <1>4, <1>5, <1>6, <1>7, <1>8, <1>9 DEF Next, Answer

-----------------------------------------------------------------------------
(* What the dialogs show and ask for, step by step.  Each dialog is bound  *)
(* to a name of its own: it is a value then, and what is said of it in the *)
(* next state is about the tables alone.                                   *)
DialogsInv == \A a \in Admin : \A d \in {dialog[a]} : \A asked \in {LiveOf(a)} :
  ShowsOf(d) /\ AskedOf(d, asked)

LEMMA AskedElsewhere ==
  ASSUME TablesInv, TablesInv', NEW d \in Dialog, NEW asked, ShowsOf(d), AskedOf(d, asked),
         Elsewhere(d)
  PROVE  AskedOf(d, asked)'
<1>1. /\ made.variant \in Nat /\ made'.variant \in Nat /\ made.variant <= made'.variant
      /\ \A v \in variants' : v \in variants \/ made.variant < v
  BY DEF TablesInv, Elsewhere
<1>2. ASSUME NEW c \in asked PROVE AsksFor(d, c)'
  BY <1>1 DEF AskedOf, AsksFor
<1>3. ASSUME d.pc = "checks", NEW c \in asked, NEW k \in asked
      PROVE  c.variant = k.variant /\ (c.variant \in variants' => Met(d, c.variant, asked)')
  <2>1. c.variant \in 1 .. made.variant
    BY <1>3 DEF AskedOf, AsksFor
  <2>2. c.variant \in variants' => c.variant \in variants
    BY <1>1, <2>1
  <2>. QED
    BY <1>3, <2>2, MetElsewhere DEF AskedOf
<1>. QED
  BY <1>2, <1>3 DEF AskedOf

(* Only one dialog moves, and the tables elsewhere than in the others.     *)
LEMMA DialogsFrame ==
  ASSUME TablesInv, TablesInv', DialogInv, DialogsInv, NEW a \in Admin,
         \A b \in Admin \ {a} : dialog'[b] = dialog[b] /\ LiveOf(b)' = LiveOf(b)
                                /\ Elsewhere(dialog[b]),
         \A d \in {dialog'[a]} : \A asked \in {LiveOf(a)'} : ShowsOf(d)' /\ AskedOf(d, asked)'
  PROVE  DialogsInv'
<1>. SUFFICES ASSUME NEW b \in Admin \ {a}, NEW d \in {dialog'[b]}, NEW asked \in {LiveOf(b)'}
              PROVE  ShowsOf(d)' /\ AskedOf(d, asked)'
  BY DEF DialogsInv
<1>1. d = dialog[b] /\ asked = LiveOf(b) /\ d \in Dialog
  BY DEF DialogInv
<1>2. ShowsOf(d) /\ AskedOf(d, asked)
  BY <1>1 DEF DialogsInv
<1>3. Elsewhere(d)
  BY <1>1
<1>. QED
  BY <1>1, <1>2, <1>3, ElsewhereSpares, ShowsStep, AskedElsewhere

(* No dialog moves.                                                        *)
LEMMA DialogsStay ==
  ASSUME TablesInv, TablesInv', DialogInv, DialogsInv, UNCHANGED <<dialog, live>>,
         \A b \in Admin : Elsewhere(dialog[b])
  PROVE  DialogsInv'
<1>. SUFFICES ASSUME NEW b \in Admin, NEW d \in {dialog'[b]}, NEW asked \in {LiveOf(b)'}
              PROVE  ShowsOf(d)' /\ AskedOf(d, asked)'
  BY DEF DialogsInv
<1>1. d = dialog[b] /\ asked = LiveOf(b) /\ d \in Dialog
  BY DEF DialogInv, LiveOf
<1>2. ShowsOf(d) /\ AskedOf(d, asked)
  BY <1>1 DEF DialogsInv
<1>3. Elsewhere(d)
  BY <1>1
<1>. QED
  BY <1>1, <1>2, <1>3, ElsewhereSpares, ShowsStep, AskedElsewhere

(* A dialog that asks for nothing has only to show what is true.           *)
LEMMA NothingAsked == ASSUME NEW d, NEW asked, asked = {} PROVE AskedOf(d, asked)'
  BY DEF AskedOf

LEMMA ClosedShows == ShowsOf(Closed)'
  BY DEF ShowsOf, Closed

(* The list is edited.                                                     *)
LEMMA EditShows ==
  ASSUME NEW d, NEW e, NEW asked, UNCHANGED tables, ShowsOf(d), AskedOf(d, asked),
         e.pc = d.pc, e.variant = d.variant, e.original = d.original, e.save = d.save,
         e.sent = d.sent, \A x \in e.shown : x.id # New => x \in d.shown
  PROVE  ShowsOf(e)' /\ AskedOf(e, asked)'
<1>1. UNCHANGED <<variants, checks, made, gone>>
  BY DEF tables
<1>2. Ours(e) = Ours(d)
  BY DEF Ours, Busy
<1>3. ShowsOf(e)
  BY <1>2 DEF ShowsOf, Kept, Lost
<1>4. AskedOf(e, asked)
  BY <1>2 DEF AskedOf, AsksFor, Met, Kept, Lost
<1>5. ShowsOf(e)'
  BY <1>1, <1>3 DEF ShowsOf, Kept, Lost, Ours, Busy
<1>6. AskedOf(e, asked)'
  BY <1>1, <1>4 DEF AskedOf, AsksFor, Met, Kept, Lost, Ours, Busy
<1>. QED
  BY <1>5, <1>6

(* What a dialog shows when it is opened on a variant.                     *)
LEMMA OpenedShows ==
  ASSUME TablesInv, NEW v \in variants, NEW d, UNCHANGED tables,
         d.pc = "open", d.variant = v, d.original = {c.id : c \in ChecksOf(v)},
         d.shown = {[id |-> c.id, cell |-> c.cell] : c \in ChecksOf(v)}
  PROVE  ShowsOf(d)'
<1>1. UNCHANGED <<variants, checks, made, gone>>
  BY DEF tables
<1>2. v \in 0 .. made.variant /\ v # New
  BY DEF TablesInv, New
<1>3. \A i \in d.original : i <= made.check
  BY DEF TablesInv, ChecksOf
<1>4. ASSUME NEW e \in d.shown
      PROVE  \E c \in checks : c.id = e.id /\ c.variant = v /\ c.cell = e.cell
  BY <1>4 DEF ChecksOf
<1>5. ASSUME NEW e \in d.shown
      PROVE  e.id \in d.original /\ \A k \in checks : k.id = e.id => k.cell = e.cell
  BY <1>4 DEF TablesInv, ChecksOf
<1>6. Kept(d, v, d.shown)
  BY <1>4 DEF Kept
<1>7. ShowsOf(d)
  BY <1>2, <1>3, <1>5, <1>6 DEF ShowsOf
<1>. QED
  BY <1>1, <1>7 DEF ShowsOf, Kept, Lost, Ours, Busy

(* Save: the number is new, so whatever is gone is gone by others.         *)
LEMMA SavingShows ==
  ASSUME SavesInv, DialogInv, NEW d, NEW e, UNCHANGED tables, ShowsOf(d), d.pc = "open",
         e.pc = "saving", e.variant = d.variant, e.original = d.original, e.shown = d.shown,
         e.save = saves + 1
  PROVE  ShowsOf(e)'
<1>1. UNCHANGED <<variants, checks, made, gone>>
  BY DEF tables
<1>2. \A g \in gone : g.save \notin Ours(e)
  <2>1. saves \in Nat /\ Ours(e) = {saves + 1}
    BY BoundAssumption DEF DialogInv, Ours, Busy
  <2>. QED
    BY <2>1 DEF SavesInv
<1>3. ShowsOf(e)
  BY <1>2 DEF ShowsOf, Kept, Lost
<1>. QED
  BY <1>1, <1>3 DEF ShowsOf, Kept, Lost, Ours, Busy

(* The variant is saved and the requests for the checks go out: e is the   *)
(* dialog d from then on.                                                  *)
LEMMA ChecksAsked ==
  ASSUME TablesInv, TablesInv', DialogInv, SavesInv, NEW a \in Admin, NEW c \in Call,
         NEW d, d = dialog[a], d.pc = "saving", ShowsOf(d), AsksFor(d, c), Handle(c, TRUE),
         NEW v, v = IF c.op = "addvariant" THEN made'.variant ELSE c.variant,
         NEW e, e.pc = "checks", e.variant = d.variant, e.original = d.original,
         e.shown = d.shown, e.save = d.save, e.sent = d.shown,
         NEW asked, asked = ToAdd(a, v) \cup ToDelete(a, v)
  PROVE  ShowsOf(e)' /\ AskedOf(e, asked)'
<1>0. d \in Dialog /\ Ours(e) = Ours(d)
  BY DEF DialogInv, Ours, Busy
<1>1. c.op \in {"addvariant", "update"} /\ UNCHANGED <<checks, gone>>
  BY DEF AsksFor, Handle, AddVariant, UpdateVariant, AddVariantCheck, DeleteVariantCheck, tables
<1>2. ShowsOf(d)'
  <2>1. Spares(d, d.shown)
    BY <1>1, OwnSpares
  <2>. QED
    BY <1>0, <2>1, ShowsStep
<1>3. ShowsOf(e)'
  <2>1. \A w : Kept(d, w, d.shown)' => Kept(e, w, e.shown)'
    BY DEF Kept, Lost, Ours, Busy
  <2>. QED
    BY <1>2, <2>1 DEF ShowsOf
<1>4. /\ v \in 1 .. made'.variant
      /\ Kept(e, v, e.sent)'
  <2>1. CASE c.op = "addvariant"
    <3>1. made.variant \in Nat /\ made'.variant = made.variant + 1
      BY <2>1 DEF Handle, AddVariant, UpdateVariant, AddVariantCheck, DeleteVariantCheck, TablesInv
    <3>2. d.original = {}
      BY <2>1 DEF AsksFor, ShowsOf
    <3>3. \A x \in e.sent : x.id = New
      BY <3>2 DEF ShowsOf
    <3>. QED
      BY <2>1, <3>1, <3>3 DEF Kept
  <2>2. CASE c.op = "update"
    <3>1. c.variant \in variants /\ UNCHANGED variants /\ UNCHANGED made
      BY <2>2 DEF Handle, AddVariant, UpdateVariant, AddVariantCheck, DeleteVariantCheck, tables
    <3>2. v = d.variant /\ v \in variants'
      BY <2>2, <3>1 DEF AsksFor
    <3>3. Kept(e, v, e.shown)'
      BY <1>3, <3>2 DEF ShowsOf
    <3>. QED
      BY <3>1, <3>2, <3>3 DEF TablesInv
  <2>. QED
    BY <1>1, <2>1, <2>2
<1>5. /\ \A x \in ToAdd(a, v) : x.op = "addcheck" /\ x.variant = v
                               /\ \E y \in e.sent : y.id = New /\ y.cell = x.cell
      /\ \A x \in ToDelete(a, v) : x.op = "delcheck" /\ x.variant = v /\ x.id \in e.original
                                  /\ \A y \in e.sent : y.id # x.id
      /\ \A y \in e.sent : y.id = New => \E x \in ToAdd(a, v) : x.cell = y.cell
      /\ \A i \in e.original : \/ \E x \in ToDelete(a, v) : x.id = i
                               \/ \E y \in e.sent : y.id = i
  <2>1. \A x \in ToAdd(a, v) : x.op = "addcheck" /\ x.variant = v
                               /\ \E y \in e.sent : y.id = New /\ y.cell = x.cell
    BY DEF ToAdd
  <2>2. \A x \in ToDelete(a, v) : x.op = "delcheck" /\ x.variant = v /\ x.id \in e.original
                                  /\ \A y \in e.sent : y.id # x.id
    BY DEF ToDelete, Dismissed
  <2>3. ASSUME NEW y \in e.sent, y.id = New PROVE \E x \in ToAdd(a, v) : x.cell = y.cell
    <3>. DEFINE x == [who |-> a, op |-> "addcheck", save |-> dialog[a].save, variant |-> v,
                      cell |-> y.cell]
    <3>1. x \in ToAdd(a, v) /\ x.cell = y.cell
      BY <2>3 DEF ToAdd
    <3>. QED
      BY <3>1
  <2>4. ASSUME NEW i \in e.original
        PROVE  (\E x \in ToDelete(a, v) : x.id = i) \/ \E y \in e.sent : y.id = i
    <3>. DEFINE x == [who |-> a, op |-> "delcheck", save |-> dialog[a].save, variant |-> v, id |-> i]
    <3>1. CASE i \in Dismissed(a)
      <4>1. x \in ToDelete(a, v) /\ x.id = i
        BY <3>1 DEF ToDelete
      <4>. QED
        BY <4>1
    <3>2. CASE i \notin Dismissed(a)
      BY <3>2 DEF Dismissed
    <3>. QED
      BY <3>1, <3>2
  <2>. QED
    BY <2>1, <2>2, <2>3, <2>4
<1>6. \A x \in asked : AsksFor(e, x)' /\ x.variant = v
  BY <1>4, <1>5 DEF AsksFor
<1>7. Met(e, v, asked)'
  <2>1. \A y \in e.sent : y.id = New => \E x \in asked : x.op = "addcheck" /\ x.cell = y.cell
    BY <1>5
  <2>2. ASSUME NEW k \in checks', k.variant = v
        PROVE  \/ \E y \in e.sent : y.cell = k.cell
               \/ k.id \notin e.original /\ k.save # e.save
               \/ \E x \in asked : x.op = "delcheck" /\ x.id = k.id
    <3>1. k \in checks /\ k.save # e.save
      BY <1>1, <2>2 DEF SavesInv
    <3>2. CASE \E x \in ToDelete(a, v) : x.id = k.id
      BY <1>5, <3>2
    <3>3. ASSUME NEW y \in e.sent, y.id = k.id PROVE y.cell = k.cell
      BY <3>1, <3>3 DEF ShowsOf, TablesInv, Check, New
    <3>. QED
      BY <1>5, <3>1, <3>2, <3>3
  <2>. QED
    BY <1>4, <2>1, <2>2 DEF Met
<1>. QED
  BY <1>3, <1>6, <1>7 DEF AskedOf

(* An answer for a check.                                                  *)
LEMMA CheckAnswered ==
  ASSUME TablesInv, TablesInv', NEW d \in Dialog, d.pc = "checks", ShowsOf(d),
         NEW asked, asked \subseteq Call, NEW c \in asked, AskedOf(d, asked), Handle(c, TRUE)
  PROVE  ShowsOf(d)' /\ AskedOf(d, asked \ {c})'
<1>1. c \in Call /\ AsksFor(d, c)
  BY DEF AskedOf
<1>2. ShowsOf(d)'
  <2>1. c.op = "delcheck" => \A e \in d.shown : e.id # c.id
    BY <1>1, CallKinds DEF AsksFor, ShowsOf, New
  <2>. QED
    BY <1>1, <2>1, OwnSpares, ShowsStep
<1>3. made.variant \in Nat /\ made'.variant \in Nat /\ made.variant <= made'.variant
  <2>1. made.variant <= made'.variant
    BY <1>1, TableMoves
  <2>. QED
    BY <2>1 DEF TablesInv
<1>4. \A x \in asked \ {c} : AsksFor(d, x)'
  BY <1>3 DEF AskedOf, AsksFor
<1>5. ASSUME NEW x \in asked \ {c}, NEW k \in asked \ {c}
      PROVE  x.variant = k.variant /\ (x.variant \in variants' => Met(d, x.variant, asked \ {c})')
  <2>1. x.variant = k.variant /\ x.variant = c.variant
    BY DEF AskedOf
  <2>2. c.variant \in variants' => Met(d, c.variant, asked \ {c})'
    BY <1>1, MetOwn
  <2>. QED
    BY <2>1, <2>2
<1>. QED
  BY <1>2, <1>4, <1>5 DEF AskedOf

(* An error: the dialog has no requests from then on, its own are those of *)
(* others to it.                                                           *)
LEMMA ErrorShows ==
  ASSUME TablesInv, TablesInv', NEW d, NEW e \in Dialog, ShowsOf(d), d.pc # "closed",
         e.pc = "open", e.variant = d.variant, e.original = d.original, e.shown = d.shown,
         Elsewhere(e)
  PROVE  ShowsOf(e)'
<1>1. Ours(e) = {}
  BY DEF Ours, Busy
<1>2. ShowsOf(e)
  BY <1>1 DEF ShowsOf, Kept, Lost
<1>. QED
  BY <1>2, ElsewhereSpares, ShowsStep

LEMMA DialogsInit == Init => DialogsInv
  BY DEF Init, DialogsInv, LiveOf, Closed, ShowsOf, AskedOf

LEMMA DialogsEdits ==
  ASSUME TablesInv, TablesInv', DialogInv, DialogsInv, BusyInv, NEW a \in Admin,
         \/ OpenNewDialog(a) \/ CloseDialog(a)
         \/ \E v \in variants : OpenEditDialog(a, v)
         \/ \E cell \in Cell : AddDialogCheck(a, cell)
         \/ \E e \in dialog[a].shown : RemoveDialogCheck(a, e)
  PROVE  DialogsInv'
<1>0. dialog[a] \in Dialog
  BY DEF DialogInv
<1>. PICK d, was : d = dialog[a] /\ was = LiveOf(a)
  OBVIOUS
<1>1. ShowsOf(d) /\ AskedOf(d, was)
  BY DEF DialogsInv
<1>2. ASSUME NEW e, Show(a, e), ShowsOf(e)', AskedOf(e, was)'
      PROVE  DialogsInv'
  <2>1. UNCHANGED tables /\ live' = live /\ dialog' = [dialog EXCEPT ![a] = e]
    BY <1>2 DEF Show
  <2>2. \A b \in Admin \ {a} : dialog'[b] = dialog[b] /\ LiveOf(b)' = LiveOf(b)
                               /\ Elsewhere(dialog[b])
    BY <2>1, SameTables DEF LiveOf, DialogInv
  <2>3. dialog'[a] = e /\ LiveOf(a)' = was
    BY <2>1 DEF DialogInv, LiveOf
  <2>4. \A x \in {dialog'[a]} : \A asked \in {LiveOf(a)'} : ShowsOf(x)' /\ AskedOf(x, asked)'
    BY <1>2, <2>3
  <2>. QED
    BY <2>2, <2>4, DialogsFrame
<1>3. d.pc \in {"open", "closed"} => was = {}
  BY <1>0 DEF BusyInv
<1>4. CASE OpenNewDialog(a)
  <2>1. PICK e : e = [Closed EXCEPT !.pc = "open"]
    OBVIOUS
  <2>2. Show(a, e) /\ was = {}
    BY <1>3, <1>4, <2>1 DEF OpenNewDialog
  <2>3. e.pc = "open" /\ e.variant = New /\ e.original = {} /\ e.shown = {}
    BY <2>1 DEF Closed
  <2>4. ShowsOf(e)'
    BY <2>3 DEF ShowsOf, Kept, TablesInv, New
  <2>. QED
    BY <1>2, <2>2, <2>4, NothingAsked
<1>5. CASE CloseDialog(a)
  BY <1>2, <1>3, <1>5, ClosedShows, NothingAsked DEF CloseDialog
<1>6. ASSUME NEW v \in variants, OpenEditDialog(a, v) PROVE DialogsInv'
  <2>1. PICK e : e = [pc |-> "open", variant |-> v, original |-> {c.id : c \in ChecksOf(v)},
                      shown |-> {[id |-> c.id, cell |-> c.cell] : c \in ChecksOf(v)},
                      save |-> 0, sent |-> {}]
    OBVIOUS
  <2>2. Show(a, e) /\ was = {} /\ UNCHANGED tables
    BY <1>3, <1>6, <2>1 DEF OpenEditDialog, Show
  <2>3. ShowsOf(e)'
    BY <2>1, <2>2, OpenedShows
  <2>. QED
    BY <1>2, <2>2, <2>3, NothingAsked
<1>7. ASSUME NEW cell \in Cell, AddDialogCheck(a, cell) PROVE DialogsInv'
  <2>1. PICK e : e = [d EXCEPT !.shown = @ \cup {[id |-> New, cell |-> cell]}]
    OBVIOUS
  <2>2. Show(a, e) /\ UNCHANGED tables
    BY <1>7, <2>1 DEF AddDialogCheck, Show
  <2>3. /\ e.pc = d.pc /\ e.variant = d.variant /\ e.original = d.original /\ e.save = d.save
        /\ e.sent = d.sent /\ \A x \in e.shown : x.id # New => x \in d.shown
    BY <1>0, <2>1 DEF Dialog
  <2>. QED
    BY <1>1, <1>2, <2>2, <2>3, EditShows
<1>8. ASSUME NEW x \in dialog[a].shown, RemoveDialogCheck(a, x) PROVE DialogsInv'
  <2>1. PICK e : e = [d EXCEPT !.shown = @ \ {x}]
    OBVIOUS
  <2>2. Show(a, e) /\ UNCHANGED tables
    BY <1>8, <2>1 DEF RemoveDialogCheck, Show
  <2>3. /\ e.pc = d.pc /\ e.variant = d.variant /\ e.original = d.original /\ e.save = d.save
        /\ e.sent = d.sent /\ \A y \in e.shown : y \in d.shown
    BY <1>0, <2>1 DEF Dialog
  <2>. QED
    BY <1>1, <1>2, <2>2, <2>3, EditShows
<1>. QED
  BY <1>4, <1>5, <1>6, <1>7, <1>8

LEMMA DialogsSave ==
  ASSUME TablesInv, TablesInv', DialogInv, DialogInv', DialogsInv, BusyInv, SavesInv,
         NEW a \in Admin, SaveDialog(a)
  PROVE  DialogsInv'
<1>0. dialog[a] \in Dialog
  BY DEF DialogInv
<1>. PICK d, e : d = dialog[a] /\ e = dialog'[a]
  OBVIOUS
<1>1. PICK c : c = IF d.variant = New THEN [who |-> a, op |-> "addvariant"]
                   ELSE [who |-> a, op |-> "update", variant |-> d.variant]
  OBVIOUS
<1>2. UNCHANGED tables /\ live' = live \cup {c}
  BY <1>1 DEF SaveDialog
<1>3. c.who = a /\ \/ c.op = "addvariant" /\ d.variant = New
                   \/ c.op = "update" /\ c.variant = d.variant
  BY <1>1
<1>4. /\ d.pc = "open" /\ e.pc = "saving" /\ e.variant = d.variant /\ e.original = d.original
      /\ e.shown = d.shown /\ e.save = saves + 1
      /\ \A b \in Admin \ {a} : dialog'[b] = dialog[b]
  BY <1>0 DEF SaveDialog, DialogInv, Dialog
<1>5. LiveOf(a) = {} /\ LiveOf(a)' = {c}
  BY <1>2, <1>3, <1>4 DEF BusyInv, LiveOf
<1>6. \A b \in Admin \ {a} : dialog'[b] = dialog[b] /\ LiveOf(b)' = LiveOf(b)
                             /\ Elsewhere(dialog[b])
  BY <1>2, <1>3, <1>4, SameTables DEF LiveOf
<1>7. ShowsOf(e)'
  BY <1>2, <1>4, SavingShows DEF DialogsInv
<1>8. AskedOf(e, {c})'
  BY <1>3, <1>4 DEF AskedOf, AsksFor
<1>. QED
  BY <1>5, <1>6, <1>7, <1>8, DialogsFrame

(* The requests for checks are those of a busy dialog, and of no other.    *)
LEMMA NotOthers ==
  ASSUME DialogInv, SavesInv, NEW c \in live, AboutCheck(c), NEW b \in Admin, b # c.who
  PROVE  c.save \notin Ours(dialog[b])
<1>1. c.who \in Admin
  BY CallKinds DEF DialogInv
<1>2. c.save \in Ours(dialog[c.who])
  BY DEF SavesInv, Ours, Busy
<1>. QED
  BY <1>1, <1>2 DEF SavesInv

LEMMA DialogsSucceeds ==
  ASSUME TablesInv, TablesInv', DialogInv, DialogsInv, BusyInv, SavesInv,
         NEW a \in Admin, NEW c \in live, Succeeds(a, c)
  PROVE  DialogsInv'
<1>0. /\ dialog[a] \in Dialog /\ c \in Call /\ c.who = a /\ c \in LiveOf(a)
      /\ Handle(c, TRUE) /\ LiveOf(a) \subseteq Call
  BY DEF DialogInv, Succeeds, LiveOf
<1>. PICK d, was : d = dialog[a] /\ was = LiveOf(a)
  OBVIOUS
<1>1. ShowsOf(d) /\ AskedOf(d, was)
  BY DEF DialogsInv
<1>2. \A b \in Admin \ {a} : Elsewhere(dialog[b])
  BY <1>0, NotOthers, OthersElsewhere
<1>3. ASSUME NEW e, NEW asked, dialog'[a] = e, LiveOf(a)' = asked, ShowsOf(e)', AskedOf(e, asked)',
             \A b \in Admin \ {a} : dialog'[b] = dialog[b] /\ LiveOf(b)' = LiveOf(b)
      PROVE  DialogsInv'
  <2>1. \A x \in {dialog'[a]} : \A y \in {LiveOf(a)'} : ShowsOf(x)' /\ AskedOf(x, y)'
    BY <1>3
  <2>. QED
    BY <1>2, <1>3, <2>1, DialogsFrame
<1>4. CASE VariantSaved(a, c)
  <2>1. PICK v : v = IF c.op = "addvariant" THEN made'.variant ELSE c.variant
    OBVIOUS
  <2>2. PICK ops : ops = ToAdd(a, v) \cup ToDelete(a, v)
    OBVIOUS
  <2>3. /\ d.pc = "saving"
        /\ dialog' = [dialog EXCEPT ![a] = IF ops = {} THEN Closed
                           ELSE [d EXCEPT !.pc = "checks", !.sent = d.shown]]
        /\ live' = (live \ {c}) \cup ops
    BY <1>0, <1>4, <2>1, <2>2 DEF VariantSaved, DoCheckOps, DialogInv
  <2>4. \A k \in ops : k.who = a
    BY <2>2 DEF ToAdd, ToDelete
  <2>5. was = {c}
    BY <1>0, <2>3 DEF BusyInv
  <2>6. LiveOf(a)' = ops
    BY <2>3, <2>4, <2>5 DEF LiveOf
  <2>7. \A b \in Admin \ {a} : dialog'[b] = dialog[b] /\ LiveOf(b)' = LiveOf(b)
    BY <1>0, <2>3, <2>4 DEF LiveOf, DialogInv
  <2>8. CASE ops = {}
    <3>1. dialog'[a] = Closed
      BY <2>3, <2>8 DEF DialogInv
    <3>. QED
      BY <1>3, <2>6, <2>7, <2>8, <3>1, ClosedShows, NothingAsked
  <2>9. CASE ops # {}
    <3>1. PICK e : e = [d EXCEPT !.pc = "checks", !.sent = d.shown]
      OBVIOUS
    <3>2. dialog'[a] = e
      BY <2>3, <2>9, <3>1 DEF DialogInv
    <3>3. /\ e.pc = "checks" /\ e.variant = d.variant /\ e.original = d.original
          /\ e.shown = d.shown /\ e.save = d.save /\ e.sent = d.shown
      BY <1>0, <3>1 DEF Dialog
    <3>4. AsksFor(d, c)
      BY <1>1, <2>5 DEF AskedOf
    <3>5. ShowsOf(e)' /\ AskedOf(e, ops)'
      BY <1>0, <1>1, <2>1, <2>2, <2>3, <3>3, <3>4, ChecksAsked
    <3>. QED
      BY <1>3, <2>6, <2>7, <3>2, <3>5
  <2>. QED
    BY <2>8, <2>9
<1>5. CASE CheckSaved(a, c)
  <2>1. /\ d.pc = "checks" /\ live' = live \ {c}
        /\ dialog' = [dialog EXCEPT ![a] = IF was = {c} THEN Closed ELSE d]
    BY <1>5 DEF CheckSaved
  <2>2. LiveOf(a)' = was \ {c}
    BY <2>1 DEF LiveOf
  <2>3. \A b \in Admin \ {a} : dialog'[b] = dialog[b] /\ LiveOf(b)' = LiveOf(b)
    BY <1>0, <2>1 DEF LiveOf, DialogInv
  <2>4. CASE was = {c}
    <3>1. dialog'[a] = Closed /\ was \ {c} = {}
      BY <2>1, <2>4 DEF DialogInv
    <3>. QED
      BY <1>3, <2>2, <2>3, <3>1, ClosedShows, NothingAsked
  <2>5. CASE was # {c}
    <3>1. dialog'[a] = d
      BY <2>1, <2>5 DEF DialogInv
    <3>2. ShowsOf(d)' /\ AskedOf(d, was \ {c})'
      BY <1>0, <1>1, <2>1, CheckAnswered
    <3>. QED
      BY <1>3, <2>2, <2>3, <3>1, <3>2
  <2>. QED
    BY <2>4, <2>5
<1>. QED
  BY <1>4, <1>5 DEF Succeeds

LEMMA DialogsFails ==
  ASSUME TablesInv, TablesInv', DialogInv, DialogInv', DialogsInv, BusyInv, SavesInv,
         NEW a \in Admin, NEW c \in live, Fails(a, c)
  PROVE  DialogsInv'
<1>0. dialog[a] \in Dialog /\ c \in Call /\ c.who = a /\ c \in LiveOf(a)
  BY DEF DialogInv, Fails, LiveOf
<1>. PICK d, e : d = dialog[a] /\ e = dialog'[a]
  OBVIOUS
<1>1. ASSUME NEW x, AboutCheck(c) => c.save \notin Ours(x) PROVE Elsewhere(x)
  BY <1>0, <1>1, OthersElsewhere, SameTables DEF Fails
<1>2. /\ e \in Dialog /\ e.pc = "open" /\ e.variant = d.variant /\ e.original = d.original
      /\ e.shown = d.shown /\ d.pc # "closed" /\ Ours(e) = {}
  BY <1>0 DEF Fails, Error, DialogInv, Dialog, Ours, Busy, BusyInv
<1>3. LiveOf(a)' = {}
  BY DEF Fails, Error, LiveOf
<1>4. \A b \in Admin \ {a} : dialog'[b] = dialog[b] /\ LiveOf(b)' = LiveOf(b)
  BY DEF Fails, Error, LiveOf, DialogInv
<1>5. \A b \in Admin \ {a} : Elsewhere(dialog[b])
  BY <1>0, <1>1, NotOthers
<1>6. ShowsOf(d)
  BY DEF DialogsInv
<1>7. ShowsOf(e)'
  BY <1>1, <1>2, <1>6, ErrorShows
<1>8. AskedOf(e, {})'
  BY NothingAsked
<1>. QED
  BY <1>3, <1>4, <1>5, <1>7, <1>8, DialogsFrame

LEMMA DialogsStep ==
  TablesInv /\ DialogInv /\ BusyInv /\ SavesInv /\ DialogsInv /\ [Next]_vars => DialogsInv'
<1>. SUFFICES ASSUME TablesInv, DialogInv, BusyInv, SavesInv, DialogsInv, [Next]_vars
              PROVE  DialogsInv'
  OBVIOUS
<1>0. TablesInv' /\ DialogInv'
  BY DialogStep
<1>1. ASSUME NEW a \in Admin,
             \/ OpenNewDialog(a) \/ CloseDialog(a)
             \/ \E v \in variants : OpenEditDialog(a, v)
             \/ \E cell \in Cell : AddDialogCheck(a, cell)
             \/ \E e \in dialog[a].shown : RemoveDialogCheck(a, e)
      PROVE  DialogsInv'
  BY <1>0, <1>1, DialogsEdits
<1>2. ASSUME NEW a \in Admin, SaveDialog(a) PROVE DialogsInv'
  BY <1>0, <1>2, DialogsSave
<1>3. ASSUME NEW a \in Admin, NEW c \in live, Succeeds(a, c) PROVE DialogsInv'
  BY <1>0, <1>3, DialogsSucceeds
<1>4. ASSUME NEW a \in Admin, NEW c \in live, Fails(a, c) PROVE DialogsInv'
  BY <1>0, <1>4, DialogsFails
<1>5. ASSUME NEW c \in aborted, Late(c) PROVE DialogsInv'
  <2>1. c \in Call /\ UNCHANGED <<dialog, live>>
    BY <1>5 DEF DialogInv, Late
  <2>2. ASSUME NEW b \in Admin PROVE Elsewhere(dialog[b])
    <3>1. AboutCheck(c) => c.save \notin Ours(dialog[b])
      BY DEF SavesInv
    <3>. QED
      BY <1>5, <2>1, <3>1, OthersElsewhere, SameTables DEF Late
  <2>. QED
    BY <1>0, <2>1, <2>2, DialogsStay
<1>6. ASSUME NEW a \in Admin, NEW v \in variants, DeleteVariant(a, v) PROVE DialogsInv'
  BY <1>0, <1>6, RemovalElsewhere, DialogsStay DEF DeleteVariant
<1>7. CASE UNCHANGED vars
  <2>1. UNCHANGED tables /\ UNCHANGED <<dialog, live>>
    BY <1>7 DEF vars, tables
  <2>. QED
    BY <1>0, <2>1, SameTables, DialogsStay
<1>. QED
  BY <1>1, <1>2, <1>3, <1>4, <1>5, <1>6, <1>7 DEF Next, Answer

-----------------------------------------------------------------------------
(* A dialog that closes on success.                                        *)
Reconciles == \A a \in Admin : \A c \in LiveOf(a) :
  dialog[a].pc = "checks" /\ dialog'[a].pc = "closed" /\ c.variant \in variants'
    => Reconciled(a, c.variant)

(* Only the answer to the last of its requests closes a dialog that waits  *)
(* for them.                                                               *)
LEMMA LastAnswer ==
  ASSUME DialogInv, [Next]_vars, NEW a \in Admin, NEW c \in LiveOf(a),
         dialog[a].pc = "checks", dialog'[a].pc = "closed"
  PROVE  LiveOf(a) = {c} /\ Succeeds(a, c)
<1>0. dialog'[a] # dialog[a] /\ c \in live
  BY DEF LiveOf
<1>1. ASSUME NEW b \in Admin,
             \/ OpenNewDialog(b) \/ CloseDialog(b) \/ SaveDialog(b)
             \/ \E v \in variants : OpenEditDialog(b, v)
      PROVE  FALSE
  <2>1. dialog[b].pc \in {"open", "closed"} /\ \A x \in Admin \ {b} : dialog'[x] = dialog[x]
    BY <1>1 DEF OpenNewDialog, CloseDialog, SaveDialog, OpenEditDialog, Show, DialogInv
  <2>. QED
    BY <1>0, <2>1
<1>2. ASSUME NEW b \in Admin,
             \/ \E cell \in Cell : AddDialogCheck(b, cell)
             \/ \E e \in dialog[b].shown : RemoveDialogCheck(b, e)
      PROVE  FALSE
  <2>1. dialog'[b].pc = dialog[b].pc /\ \A x \in Admin \ {b} : dialog'[x] = dialog[x]
    BY <1>2 DEF AddDialogCheck, RemoveDialogCheck, Show, DialogInv, Dialog
  <2>. QED
    BY <1>0, <2>1
<1>3. ASSUME NEW b \in Admin, NEW k \in live, Fails(b, k) PROVE FALSE
  <2>1. dialog'[b].pc = "open" /\ \A x \in Admin \ {b} : dialog'[x] = dialog[x]
    BY <1>3 DEF Fails, Error, DialogInv, Dialog
  <2>. QED
    BY <1>0, <2>1
<1>4. ASSUME NEW b \in Admin, NEW k \in live, Succeeds(b, k)
      PROVE  LiveOf(a) = {c} /\ Succeeds(a, c)
  <2>1. CASE VariantSaved(b, k)
    <3>1. dialog[b].pc = "saving" /\ \A x \in Admin \ {b} : dialog'[x] = dialog[x]
      BY <2>1 DEF VariantSaved, DoCheckOps, DialogInv
    <3>. QED
      BY <1>0, <3>1
  <2>2. CASE CheckSaved(b, k)
    <3>1. dialog' = [dialog EXCEPT ![b] = IF LiveOf(b) = {k} THEN Closed ELSE @]
      BY <2>2 DEF CheckSaved
    <3>2. b = a /\ LiveOf(a) = {k}
      BY <1>0, <3>1 DEF DialogInv
    <3>. QED
      BY <1>4, <3>2
  <2>. QED
    BY <1>4, <2>1, <2>2 DEF Succeeds
<1>5. ASSUME (\E x \in aborted : Late(x)) \/ (\E b \in Admin : \E v \in variants : DeleteVariant(b, v))
             \/ UNCHANGED vars
      PROVE  FALSE
  BY <1>0, <1>5 DEF Late, DeleteVariant, vars
<1>. QED
  BY <1>1, <1>2, <1>3, <1>4, <1>5 DEF Next, Answer

LEMMA StepsReconcile ==
  TablesInv /\ DialogInv /\ DialogsInv /\ [Next]_vars => Reconciles
<1>. SUFFICES ASSUME TablesInv, DialogInv, DialogsInv, [Next]_vars,
                     NEW a \in Admin, NEW c \in LiveOf(a), dialog[a].pc = "checks",
                     dialog'[a].pc = "closed", c.variant \in variants'
              PROVE  Reconciled(a, c.variant)
  BY DEF Reconciles
<1>. PICK d, v : d = dialog[a] /\ v = c.variant
  OBVIOUS
<1>1. LiveOf(a) = {c} /\ Handle(c, TRUE) /\ c \in Call
  BY LastAnswer DEF Succeeds, LiveOf, DialogInv
<1>2. d \in Dialog /\ ShowsOf(d) /\ AskedOf(d, {c})
  BY <1>1 DEF DialogInv, DialogsInv
<1>3. Met(d, v, {c} \ {c})'
  BY <1>1, <1>2, MetOwn
<1>4. \A e \in d.sent :
         \/ \E k \in checks' : k.variant = v /\ k.cell = e.cell
         \/ \E g \in gone' : g.variant = v /\ g.cell = e.cell /\ g.save \notin Ours(d)
  BY <1>3 DEF Met, Kept, Lost, Ours, Busy
<1>5. \A k \in checks' : k.variant = v =>
         \/ \E e \in d.sent : e.cell = k.cell
         \/ k.id \notin d.original /\ k.save # d.save
  BY <1>3 DEF Met
<1>6. Ours(d) = {d.save}
  BY DEF Ours, Busy
<1>. QED
  BY <1>4, <1>5, <1>6 DEF Reconciled

(* doCheckOps: whatever the administrators add, remove and delete at the   *)
(* same time, and whichever earlier saves failed half way, a dialog that   *)
(* closes on success has brought the checks of its variant to what it      *)
(* showed, but for what others did to them.                                *)
THEOREM SaveReconcilesHolds == Spec => SaveReconciles
<1>1. Spec => [](TablesInv /\ DialogInv /\ BusyInv)
  BY BusyInit, BusyStep, InvHolds, PTL DEF Spec
<1>2. Spec => [](SavesInv /\ DialogsInv)
  BY <1>1, SavesInit, SavesStep, DialogsInit, DialogsStep, PTL DEF Spec
<1>3. TablesInv /\ DialogInv /\ DialogsInv /\ [Next]_vars => [Reconciles]_vars
  BY StepsReconcile
<1>. QED
  BY <1>1, <1>2, <1>3, PTL DEF Spec, SaveReconciles, Reconciles

-----------------------------------------------------------------------------
(* A save comes to an end.                                                 *)

(* From the variant to its checks, to fewer answers that are awaited, or   *)
(* to the end of the save.                                                 *)
Ahead(a) ==
    \/ dialog[a].pc = "saving" /\ dialog'[a].pc \in {"checks", "open", "closed"}
    \/ dialog[a].pc = "checks" /\ dialog'[a].pc \in {"open", "closed"}
    \/ /\ dialog[a].pc = "checks" /\ dialog'[a].pc = "checks"
       /\ LiveOf(a)' \in SUBSET LiveOf(a) /\ LiveOf(a)' # LiveOf(a)

Waiting(a) == dialog'[a].pc = dialog[a].pc /\ LiveOf(a)' = LiveOf(a)

(* Every answer brings the save it belongs to nearer to its end, and       *)
(* nothing else lengthens it: not what the administrator changes in the    *)
(* list meanwhile, nor other administrators, nor requests given up before. *)
SaveAdvances == [][\A a \in Admin :
    (Answer(a) => Ahead(a)) /\ (Busy(dialog[a]) => Ahead(a) \/ Waiting(a))]_vars

LEMMA AnswerAdvances ==
  ASSUME DialogInv, BusyInv, NEW a \in Admin, Answer(a)
  PROVE  Ahead(a)
<1>1. ASSUME NEW c \in live, Succeeds(a, c), VariantSaved(a, c) PROVE Ahead(a)
  <2>. DEFINE v == IF c.op = "addvariant" THEN made'.variant ELSE c.variant
              ops == ToAdd(a, v) \cup ToDelete(a, v)
  <2>1. /\ dialog[a].pc = "saving"
        /\ dialog' = [dialog EXCEPT ![a] = IF ops = {} THEN Closed
                           ELSE [@ EXCEPT !.pc = "checks", !.sent = dialog[a].shown]]
    BY <1>1 DEF VariantSaved, DoCheckOps
  <2>. HIDE DEF ops, v
  <2>2. dialog'[a].pc = IF ops = {} THEN "closed" ELSE "checks"
    BY <2>1 DEF DialogInv, Dialog, Closed
  <2>. QED
    BY <2>1, <2>2 DEF Ahead
<1>2. ASSUME NEW c \in live, Succeeds(a, c), CheckSaved(a, c) PROVE Ahead(a)
  <2>1. /\ dialog[a].pc = "checks" /\ live' = live \ {c} /\ c \in LiveOf(a)
        /\ dialog' = [dialog EXCEPT ![a] = IF LiveOf(a) = {c} THEN Closed ELSE @]
    BY <1>2 DEF CheckSaved, Succeeds
  <2>2. LiveOf(a)' = LiveOf(a) \ {c}
    BY <2>1 DEF LiveOf
  <2>3. dialog'[a].pc = IF LiveOf(a) = {c} THEN "closed" ELSE "checks"
    BY <2>1 DEF DialogInv, Closed
  <2>. QED
    BY <2>1, <2>2, <2>3 DEF Ahead
<1>3. ASSUME NEW c \in live, Fails(a, c) PROVE Ahead(a)
  <2>1. dialog'[a].pc = "open"
    BY <1>3 DEF Fails, Error, DialogInv, Dialog
  <2>2. dialog[a].pc \in {"saving", "checks"}
    BY <1>3 DEF Fails, BusyInv
  <2>. QED
    BY <2>1, <2>2 DEF Ahead
<1>. QED
  BY <1>1, <1>2, <1>3 DEF Answer, Succeeds

(* The steps of other dialogs.                                             *)
LEMMA OthersWait ==
  ASSUME DialogInv, NEW a \in Admin, NEW b \in Admin, a # b,
         SaveDialog(b) \/ Answer(b)
  PROVE  Waiting(a)
<1>1. ASSUME dialog'[a] = dialog[a], \A c : c.who = a => (c \in live' <=> c \in live)
      PROVE  Waiting(a)
  BY <1>1 DEF Waiting, LiveOf
<1>2. CASE SaveDialog(b)
  <2>1. dialog'[a] = dialog[a]
    BY <1>2 DEF SaveDialog, DialogInv
  <2>2. PICK c : /\ c.who = b /\ live' = live \cup {c}
    <3>1. CASE dialog[b].variant = New
      <4>1. live' = live \cup {[who |-> b, op |-> "addvariant"]}
        BY <1>2, <3>1 DEF SaveDialog
      <4>. QED
        BY <4>1
    <3>2. CASE dialog[b].variant # New
      <4>1. live' = live \cup {[who |-> b, op |-> "update", variant |-> dialog[b].variant]}
        BY <1>2, <3>2 DEF SaveDialog
      <4>. QED
        BY <4>1
    <3>. QED
      BY <3>1, <3>2
  <2>. QED
    BY <1>1, <2>1, <2>2
<1>3. ASSUME NEW c \in live, Succeeds(b, c), VariantSaved(b, c) PROVE Waiting(a)
  <2>. DEFINE v == IF c.op = "addvariant" THEN made'.variant ELSE c.variant
              ops == ToAdd(b, v) \cup ToDelete(b, v)
  <2>1. /\ live' = (live \ {c}) \cup ops
        /\ dialog' = [dialog EXCEPT ![b] = IF ops = {} THEN Closed
                           ELSE [@ EXCEPT !.pc = "checks", !.sent = dialog[b].shown]]
    BY <1>3 DEF VariantSaved, DoCheckOps
  <2>2. c.who = b /\ \A k \in ops : k.who = b
    BY <1>3 DEF Succeeds, LiveOf, ToAdd, ToDelete
  <2>. HIDE DEF ops, v
  <2>3. dialog'[a] = dialog[a]
    BY <2>1 DEF DialogInv
  <2>. QED
    BY <1>1, <2>1, <2>2, <2>3
<1>4. ASSUME NEW c \in live, Succeeds(b, c), CheckSaved(b, c) PROVE Waiting(a)
  <2>1. live' = live \ {c} /\ c.who = b /\ dialog'[a] = dialog[a]
    BY <1>4 DEF Succeeds, CheckSaved, LiveOf, DialogInv
  <2>. QED
    BY <1>1, <2>1
<1>5. ASSUME NEW c \in live, Fails(b, c) PROVE Waiting(a)
  <2>1. live' = live \ LiveOf(b) /\ dialog'[a] = dialog[a]
    BY <1>5 DEF Fails, Error, DialogInv
  <2>. QED
    BY <1>1, <2>1 DEF LiveOf
<1>. QED
  BY <1>2, <1>3, <1>4, <1>5 DEF Answer, Succeeds

LEMMA BusyOnlyWaits ==
  ASSUME DialogInv, BusyInv, [Next]_vars, NEW a \in Admin, Busy(dialog[a])
  PROVE  Ahead(a) \/ Waiting(a)
<1>1. ASSUME dialog'[a].pc = dialog[a].pc, live' = live PROVE Waiting(a)
  BY <1>1 DEF Waiting, LiveOf
<1>2. ASSUME NEW b \in Admin, \/ OpenNewDialog(b) \/ CloseDialog(b)
                              \/ \E v \in variants : OpenEditDialog(b, v)
      PROVE  Waiting(a)
  <2>1. \E d : Show(b, d)
    BY <1>2 DEF OpenNewDialog, CloseDialog, OpenEditDialog
  <2>2. b # a
    BY <1>2 DEF OpenNewDialog, CloseDialog, OpenEditDialog, Busy
  <2>. QED
    BY <1>1, <2>1, <2>2 DEF Show, DialogInv
<1>3. ASSUME NEW b \in Admin,
             \/ \E cell \in Cell : AddDialogCheck(b, cell)
             \/ \E e \in dialog[b].shown : RemoveDialogCheck(b, e)
      PROVE  Waiting(a)
  <2>1. PICK shown : Show(b, [dialog[b] EXCEPT !.shown = shown])
    BY <1>3 DEF AddDialogCheck, RemoveDialogCheck
  <2>2. [dialog[b] EXCEPT !.shown = shown].pc = dialog[b].pc
    BY DEF DialogInv, Dialog
  <2>. QED
    BY <1>1, <2>1, <2>2 DEF Show, DialogInv
<1>4. ASSUME NEW b \in Admin, SaveDialog(b) PROVE Waiting(a)
  BY <1>4, OthersWait DEF SaveDialog, Busy
<1>5. ASSUME NEW b \in Admin, Answer(b) PROVE Ahead(a) \/ Waiting(a)
  BY <1>5, OthersWait, AnswerAdvances
<1>6. ASSUME NEW b \in Admin, NEW v \in variants, DeleteVariant(b, v) PROVE Waiting(a)
  BY <1>1, <1>6 DEF DeleteVariant
<1>7. ASSUME NEW c \in aborted, Late(c) PROVE Waiting(a)
  BY <1>1, <1>7 DEF Late
<1>8. CASE UNCHANGED vars
  BY <1>1, <1>8 DEF vars
<1>. QED
  BY <1>2, <1>3, <1>4, <1>5, <1>6, <1>7, <1>8 DEF Next

(* With BusyAwaitsAnswer, why the spinner ends: a save has two phases, in  *)
(* the second it awaits the answers it asked for and no more, and once it  *)
(* began, only answers to its own requests move it                         *)
(* (vsds-projects.component.ts, saveDialog, doCheckOps).                   *)
THEOREM SaveAdvancesHolds == Spec => SaveAdvances
<1>1. DialogInv /\ BusyInv /\ [Next]_vars => [\A a \in Admin :
          (Answer(a) => Ahead(a)) /\ (Busy(dialog[a]) => Ahead(a) \/ Waiting(a))]_vars
  BY AnswerAdvances, BusyOnlyWaits
<1>2. Spec => [](TablesInv /\ DialogInv /\ BusyInv)
  BY BusyInit, BusyStep, InvHolds, PTL DEF Spec
<1>. QED
  BY <1>1, <1>2, PTL DEF Spec, SaveAdvances
=============================================================================
