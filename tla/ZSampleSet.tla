------------------------------ MODULE ZSampleSet ------------------------------
(***************************************************************************)
(* What the endpoints for a project's zsamples do, seen from outside:      *)
(* every request takes effect in one step, or not at all.  This is not     *)
(* serializability, and it is less than the handler of the replacement     *)
(* documents (projects.go:84-88, the list becomes the complete set): of    *)
(* two replacements that overlap, the later one may leave the values of    *)
(* the earlier in place, and the project has the union of both lists.  A   *)
(* 404 may likewise be given for a value that is there again.              *)
(***************************************************************************)
EXTENDS Integers, Sequences, SequencesExt

CONSTANTS
    Project,     \* project ids a request may name
    Z,           \* zsample values
    List,        \* lists a replacement may bring
    Request      \* requests

Key == Project \X Z
Operation ==
    [kind : {"set"}, project : Project, list : List] \cup
    [kind : {"add", "delete"}, project : Project, list : {<<z>> : z \in Z}]
NoOp == [kind |-> "none"]
Reply == {"none", "ok", "notfound", "duplicate", "error"}

Wanted(o) == {<<o.project, z>> : z \in ToSet(o.list)}

VARIABLES
    projects,    \* the projects that exist
    content,     \* the keys of project_zsamples, as everyone sees them
    op, reply,   \* what a client asked for and was told
    added, gone  \* keys inserted, absent or removed since the call

vars == <<projects, content, op, reply, added, gone>>

Running(r) == op[r] # NoOp /\ reply[r] = "none"

Init ==
    /\ projects \subseteq Project
    /\ content \subseteq projects \X Z
    /\ op = [r \in Request |-> NoOp] /\ reply = [r \in Request |-> "none"]
    /\ added = [r \in Request |-> {}] /\ gone = [r \in Request |-> {}]

Call(r) ==
    /\ op[r] = NoOp
    /\ \E o \in Operation : op' = [op EXCEPT ![r] = o]
    /\ gone' = [gone EXCEPT ![r] = Key \ content]
    /\ UNCHANGED <<projects, content, reply, added>>

Answer(r, what) == reply' = [reply EXCEPT ![r] = what]

(* content loses the first set and gains the second.                       *)
Change(r, removed, inserted) ==
    /\ content' = (content \ removed) \cup inserted
    /\ added' = [s \in Request |->
           IF Running(s) /\ s # r THEN added[s] \cup inserted ELSE {}]
    /\ gone' = [s \in Request |->
           IF Running(s) /\ s # r THEN gone[s] \cup removed ELSE {}]

OfProject(p) == {k \in content : k[1] = p}

(* A client may be told of an error although its request took effect.  The *)
(* replacement keeps any of what others inserted since it was called: with *)
(* nobody else at work that is nothing, as documented; with another        *)
(* replacement at work it can be the whole list of the other.              *)
Apply(r) ==
    /\ Running(r) /\ op[r].project \in projects
    /\ \/ /\ op[r].kind = "add" /\ Wanted(op[r]) \cap content = {}
          /\ Change(r, {}, Wanted(op[r]))
       \/ /\ op[r].kind = "delete" /\ Wanted(op[r]) \subseteq content
          /\ Change(r, Wanted(op[r]), {})
       \/ /\ op[r].kind = "set"
          /\ \E kept \in SUBSET (OfProject(op[r].project) \cap added[r]) :
                 Change(r, OfProject(op[r].project) \ kept, Wanted(op[r]))
    /\ Answer(r, "ok") \/ Answer(r, "error")
    /\ UNCHANGED <<projects, op>>

(* A 404 is given for a value missing at some moment since the call: when  *)
(* a replacement took it away and put it back, it is there before and      *)
(* after, and the delete is declined all the same.                         *)
Decline(r) ==
    /\ Running(r)
    /\ \/ /\ \/ op[r].project \notin projects
             \/ op[r].kind = "delete" /\ Wanted(op[r]) \subseteq gone[r]
          /\ Answer(r, "notfound")
       \/ /\ op[r].kind = "add" /\ Wanted(op[r]) \subseteq content
          /\ Answer(r, "duplicate")
       \/ Answer(r, "error")
    /\ added' = [added EXCEPT ![r] = {}] /\ gone' = [gone EXCEPT ![r] = {}]
    /\ UNCHANGED <<projects, content, op>>

AddProject ==
    /\ \E p \in Project \ projects : projects' = projects \cup {p}
    /\ UNCHANGED <<content, op, reply, added, gone>>

Next == AddProject \/ \E r \in Request : Call(r) \/ Apply(r) \/ Decline(r)

SetSpec == Init /\ [][Next]_vars
=============================================================================
