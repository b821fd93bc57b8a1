------------------------------- MODULE Gallery -------------------------------
(***************************************************************************)
(* The images of one product: the transactions of MediaService that attach,*)
(* detach, change and reorder them, statement by statement, under READ     *)
(* COMMITTED.  An UPDATE of many rows visits the rows that were committed  *)
(* when it began, waits for those another transaction has written, and     *)
(* looks at them again then; a row inserted meanwhile it never sees.       *)
(***************************************************************************)
EXTENDS Naturals, Sequences, FiniteSets

CONSTANTS
  Editor,  \* requests of staff
  Media,   \* assets
  Order,   \* lists of assets, without repetition, that a reorder may ask for
  NoTask, Nobody

ASSUME GalleryAssumption ==
  /\ IsFiniteSet(Media)
  /\ \A o \in Order : o \in Seq(Media) /\ o # <<>> /\ \A i, j \in DOMAIN o : o[i] = o[j] => i = j
  /\ Nobody \notin Editor

VARIABLES
  shown,    \* shown[m]: the committed product_media row of m: "NONE",
            \* "plain" or "primary"
  writer,   \* writer[m]: the transaction that has written the row of m
  draft,    \* draft[e][m]: what transaction e has written, or "same"
  todo,     \* todo[e]: rows its statement has not visited yet
  task,     \* task[e]: what the request asks for
  step,     \* step[e]: its next statement
  raced     \* history: an attachment overlapped a change of the primary image

galleryVars == <<shown, writer, draft, todo, task, step, raced>>

Task ==
  [op : {"attach", "update"}, media : Media, isPrimary : BOOLEAN]
    \cup [op : {"detach"}, media : Media, isPrimary : {FALSE}]
    \cup [op : {"reorder"}, order : Order, isPrimary : {TRUE}]

Rows == {m \in Media : shown[m] # "NONE"}
Unchanged == [m \in Media |-> "same"]
Active(e) == step[e] \notin {"start", "done"}

(* A new row that a change of the primary image may not see.               *)
Races(t, u) ==
  \/ t.op = "attach" /\ u.isPrimary
  \/ u.op = "attach" /\ t.isPrimary

GotoStep(e, s) == step' = [step EXCEPT ![e] = s]

(* reorderProductMedia wants exactly the images that are attached;         *)
(* updateProductMedia wants its image to be.                               *)
Acceptable(t) ==
  CASE t.op = "reorder" -> /\ {t.order[i] : i \in DOMAIN t.order} = Rows
                           /\ Len(t.order) = Cardinality(Rows)
    [] t.op = "update"  -> t.media \in Rows
    [] OTHER            -> TRUE

BeginEdit(e, t) ==
  /\ step[e] = "start"
  /\ Acceptable(t)
  /\ task' = [task EXCEPT ![e] = t]
  /\ GotoStep(e, IF t.isPrimary /\ t.op # "reorder" THEN "demote" ELSE "write")
  /\ raced' = (raced \/ \E f \in Editor : Active(f) /\ Races(t, task[f]))
  /\ UNCHANGED <<shown, writer, draft, todo>>

(* updateMany, which makes the other images plain.                         *)
StartDemoting(e) ==
  /\ step[e] = "demote"
  /\ todo' = [todo EXCEPT ![e] =
       IF task[e].op = "update" THEN Rows \ {task[e].media} ELSE Rows]
  /\ GotoStep(e, "demoting")
  /\ UNCHANGED <<shown, writer, draft, task, raced>>

Write(e, m, value) ==
  /\ writer[m] \in {Nobody, e}
  /\ writer' = [writer EXCEPT ![m] = e]
  /\ draft' = [draft EXCEPT ![e][m] = value]

DemoteRow(e, m) ==
  /\ step[e] = "demoting"
  /\ m \in todo[e]
  /\ \/ m \in Rows /\ Write(e, m, "plain")
     \/ m \notin Rows /\ UNCHANGED <<writer, draft>>
  /\ todo' = [todo EXCEPT ![e] = @ \ {m}]
  /\ UNCHANGED <<shown, task, step, raced>>

(* Mistaken variant: an image that is attached as primary demotes nothing. *)
EndDemotingUnseen(e) ==
  /\ step[e] = "demoting"
  /\ GotoStep(e, "write")
  /\ todo' = [todo EXCEPT ![e] = {}]
  /\ UNCHANGED <<shown, writer, draft, task, raced>>

EndDemoting(e) ==
  /\ step[e] = "demoting"
  /\ todo[e] = {}
  /\ GotoStep(e, "write")
  /\ UNCHANGED <<shown, writer, draft, todo, task, raced>>

EndEdit(e) ==
  /\ writer' = [m \in Media |-> IF writer[m] = e THEN Nobody ELSE writer[m]]
  /\ draft' = [draft EXCEPT ![e] = Unchanged]
  /\ todo' = [todo EXCEPT ![e] = {}]
  /\ GotoStep(e, "done")
  /\ UNCHANGED <<task, raced>>

(* A row that is attached already, or is no longer: the transaction ends.  *)
RowConflicts(e, m) ==
  /\ writer[m] \in {Nobody, e}
  /\ (task[e].op = "attach") = (m \in Rows)
  /\ EndEdit(e)
  /\ UNCHANGED shown

WriteRow(e) ==
  LET m == task[e].media IN
  /\ step[e] = "write"
  /\ task[e].op \in {"attach", "update"}
  /\ \/ RowConflicts(e, m)
     \/ /\ (task[e].op = "attach") # (m \in Rows)
        /\ Write(e, m, IF task[e].isPrimary THEN "primary"
                       ELSE IF task[e].op = "attach" THEN "plain" ELSE "same")
        /\ GotoStep(e, "commit")
        /\ UNCHANGED <<shown, todo, task, raced>>

DetachRow(e) ==
  /\ step[e] = "write"
  /\ task[e].op = "detach"
  /\ Write(e, task[e].media, IF task[e].media \in Rows THEN "NONE" ELSE "same")
  /\ GotoStep(e, "commit")
  /\ UNCHANGED <<shown, todo, task, raced>>

(* The rows in their new order, the first one primary.                     *)
NextInOrder(e) ==
  CHOOSE m \in Media : \E i \in DOMAIN task[e].order :
    /\ task[e].order[i] = m
    /\ \A j \in 1 .. Len(task[e].order) : draft[e][task[e].order[j]] = "same" <=> j >= i

ReorderRow(e) ==
  LET m == NextInOrder(e)
      rest == Cardinality({n \in Media : draft[e][n] # "same"}) + 1 < Len(task[e].order)
  IN
  /\ step[e] = "write"
  /\ task[e].op = "reorder"
  /\ \/ RowConflicts(e, m)
     \/ /\ m \in Rows
        /\ Write(e, m, IF m = task[e].order[1] THEN "primary" ELSE "plain")
        /\ GotoStep(e, IF rest THEN "write" ELSE "commit")
        /\ UNCHANGED <<shown, todo, task, raced>>

CommitEdit(e) ==
  /\ step[e] = "commit"
  /\ shown' = [m \in Media |-> IF draft[e][m] = "same" THEN shown[m] ELSE draft[e][m]]
  /\ EndEdit(e)

(* The victim of a deadlock, a timeout, a crash: nothing was written.      *)
AbortEdit(e) ==
  /\ Active(e)
  /\ EndEdit(e)
  /\ UNCHANGED shown

GalleryInit ==
  /\ shown \in [Media -> {"NONE", "plain", "primary"}]
  /\ Cardinality({m \in Media : shown[m] = "primary"}) <= 1
  /\ writer = [m \in Media |-> Nobody]
  /\ draft = [e \in Editor |-> Unchanged]
  /\ todo = [e \in Editor |-> {}]
  /\ task = [e \in Editor |-> NoTask]
  /\ step = [e \in Editor |-> "start"]
  /\ raced = FALSE

GalleryNext ==
  \E e \in Editor :
    \/ \E t \in Task : BeginEdit(e, t)
    \/ StartDemoting(e)
    \/ \E m \in todo[e] : DemoteRow(e, m)
    \/ EndDemoting(e)
    \/ WriteRow(e)
    \/ DetachRow(e)
    \/ ReorderRow(e)
    \/ CommitEdit(e)
    \/ AbortEdit(e)

GalleryTypeOK ==
  /\ shown \in [Media -> {"NONE", "plain", "primary"}]
  /\ writer \in [Media -> Editor \cup {Nobody}]
  /\ draft \in [Editor -> [Media -> {"same", "NONE", "plain", "primary"}]]
  /\ todo \in [Editor -> SUBSET Media]
  /\ task \in [Editor -> Task \cup {NoTask}]
  /\ step \in [Editor -> {"start", "demote", "demoting", "write", "commit", "done"}]
  /\ raced \in BOOLEAN

(* A product has at most one primary image, in whatever order the rows are *)
(* locked: two primaries take an attachment, the new row of which a change *)
(* of the primary image did not see.                                       *)
OnePrimaryUnlessAttachRaced ==
  Cardinality({m \in Media : shown[m] = "primary"}) > 1 => raced

=============================================================================
