----------------------------- MODULE SheetFill -----------------------------
(***************************************************************************)
(* One sheet and the filler that completes it (services/fill.py) through   *)
(* the sheet operations of infrastructure/feishu/sheets.py, while people   *)
(* edit the same sheet.                                                    *)
(*                                                                         *)
(* The server offers no transactions.  A snapshot is many requests, all of *)
(* which must see one revision; a write is a check and then a request that *)
(* does not repeat it; a structural request does not return its revision.  *)
(* A request can be refused, or remain unanswered and take effect later.   *)
(*                                                                         *)
(* A cell stands for what is decided as one: an old cell is never written, *)
(* a target is one metric of one style and platform in a column the sheet  *)
(* has, an added cell the same in a column the layout inserts, a summary   *)
(* is a cell whose content is replaced by the sum of the demand columns.   *)
(***************************************************************************)
EXTENDS Naturals

CONSTANTS Old, Target, Added, Summary,  \* the cells
          MaxEdits,                     \* bound on what people type
          MaxFills                      \* bound on fills of this sheet

Cell == Old \cup Target \cup Added \cup Summary

ASSUME SheetFillAssumption ==
    /\ Target \cap Old = {} /\ Added \cap (Old \cup Target) = {}
    /\ Summary \cap (Old \cup Target \cup Added) = {}
    /\ Target \cup Added # {}
    /\ MaxEdits \in Nat
    /\ MaxFills \in Nat

VARIABLES
    sheet,      \* what each cell contains
    revision,   \* the revision of the workbook
    flying,     \* unanswered requests that may still take effect
    landed,     \* how much of the fill took effect (history)
    edits,      \* how often people typed
    overwrite,  \* config["overwrite"]
    pc, at,     \* where the filler is, and where read_sheet is
    initial,    \* the revision a snapshot belongs to
    asRead,     \* the sheet at that revision (history)
    exported,   \* the exported workbook
    got,        \* the cells whose values were read and compared with it
    before,     \* the snapshot taken first
    prepared,   \* the snapshot the values are planned on
    expected,   \* the revision the next request relies on
    done,       \* the columns inserted by this fill
    plan,       \* the cells to be written
    gap,        \* cells typed since the last check of write_sales_ranges
    wiped,      \* values typed by people, unseen by the filler and replaced
    writing,    \* the filler's flag: writes have begun
    verdict,    \* the status it reported
    fills       \* how often it was started

server == <<sheet, revision, flying, landed, wiped>>
people == <<edits, gap>>
reader == <<at, initial, asRead, exported, got>>
planned == <<before, prepared, expected, done, plan>>
outer == <<writing, verdict, fills>>
vars == <<server, people, overwrite, pc, reader, planned, outer>>

\* "double" is a blank cell whose column exists a second time.
Value == {"absent", "blank", "double", "other", "formula", "plan", "human"}
Reading == {"before", "prepared", "after"}
PC == Reading \cup {"idle", "plan", "layout", "insert", "reread", "check",
                    "values", "writecheck", "write", "verify", "done",
                    "dead"}
Request == [what : {"insert", "write"}, cells : SUBSET Cell]

TypeOK ==
    /\ sheet \in [Cell -> Value]
    /\ revision \in Nat
    /\ flying \subseteq Request
    /\ landed \in {"nothing", "part", "all"}
    /\ edits \in Nat
    /\ overwrite \in BOOLEAN
    /\ pc \in PC
    /\ at \in {"revision", "export", "cells"}
    /\ initial \in Nat
    /\ asRead \in [Cell -> Value]
    /\ exported \in [Cell -> Value]
    /\ got \subseteq Cell
    /\ before \in [Cell -> Value]
    /\ prepared \in [Cell -> Value]
    /\ expected \in Nat
    /\ done \subseteq Added
    /\ plan \subseteq Target \cup Added \cup Summary
    /\ gap \subseteq Cell
    /\ wiped \subseteq Cell
    /\ writing \in BOOLEAN
    /\ verdict \in {"none", "running", "completed", "retryable",
                    "needs_review"}
    /\ fills \in Nat

Init ==
    /\ sheet \in [Cell -> Value]
    /\ \A c \in Old : sheet[c] = "other"
    /\ \A c \in Added : sheet[c] \in {"absent", "blank"}
    /\ \A c \in Target : sheet[c] \in {"blank", "other", "formula", "plan"}
    /\ \A c \in Summary : sheet[c] \in {"other", "formula", "plan"}
    /\ revision = 0
    /\ flying = {}
    /\ landed = "nothing"
    /\ edits = 0
    /\ overwrite \in BOOLEAN
    /\ pc = "idle"
    /\ at = "revision"
    /\ initial = 0
    /\ asRead = sheet
    /\ exported = sheet
    /\ got = {}
    /\ before = sheet
    /\ prepared = sheet
    /\ expected = 0
    /\ done = {}
    /\ plan = {}
    /\ gap = {}
    /\ wiped = {}
    /\ writing = FALSE
    /\ verdict = "none"
    /\ fills = 0

-----------------------------------------------------------------------------
(* The fill is claimed, and it ends. *)

\* A fill that was reported retryable may be started again, from nothing.
Start ==
    /\ pc = "idle"
    /\ fills < MaxFills
    /\ fills' = fills + 1
    /\ pc' = "before"
    /\ at' = "revision"
    /\ done' = {}
    /\ writing' = FALSE
    /\ verdict' = "running"
    /\ UNCHANGED <<server, people, overwrite, initial, asRead, exported, got,
                   before, prepared, expected, plan>>

End(v) ==
    /\ verdict' = v
    /\ pc' = IF v = "retryable" THEN "idle" ELSE "done"
    /\ UNCHANGED <<writing, fills>>

\* An exception: a ValueError of the filler's own checks, or anything else.
\* "Only external faults before the first write can be retried."
Raise(kind) ==
    End(IF writing \/ kind = "value" THEN "needs_review" ELSE "retryable")

Goto(next) == pc' = next /\ UNCHANGED outer

\* A request fails, or the lease does not let it out.
Trouble ==
    /\ pc \in Reading \cup {"plan", "layout", "insert", "reread",
                            "writecheck", "write"}
    /\ Raise("other")
    /\ UNCHANGED <<server, people, overwrite, reader, planned>>

-----------------------------------------------------------------------------
(* read_sheet *)

ReadRevision ==
    /\ pc \in Reading
    /\ at = "revision"
    /\ initial' = revision
    /\ asRead' = sheet
    /\ at' = "export"
    /\ UNCHANGED <<server, people, overwrite, pc, exported, got, planned,
                   outer>>

ReadExport ==
    /\ pc \in Reading
    /\ at = "export"
    /\ exported' = sheet
    /\ got' = {}
    /\ at' = "cells"
    /\ UNCHANGED <<server, people, overwrite, pc, initial, asRead, planned,
                   outer>>

\* Mutant: the revision of the answers is not compared.
MutantSame == TRUE

Same == revision = initial

ReadCell(c) ==
    /\ pc \in Reading
    /\ at = "cells"
    /\ c \notin got
    /\ Same
    /\ sheet[c] = exported[c]
    /\ got' = got \cup {c}
    /\ UNCHANGED <<server, people, overwrite, pc, at, initial, asRead,
                   exported, planned, outer>>

\* The revision moved (RuntimeError), or values and export differ (ValueError).
ReadStops ==
    /\ pc \in Reading
    /\ at = "cells"
    /\ ~Same \/ \E c \in Cell \ got : sheet[c] # exported[c]
    /\ Raise(IF Same THEN "value" ELSE "other")
    /\ UNCHANGED <<server, people, overwrite, reader, planned>>

\* The last look at the revision.
ReadEnd ==
    /\ pc \in Reading
    /\ at = "cells"
    /\ got = Cell
    /\ Same
    /\ Goto(CASE pc = "before" -> "plan"
              [] pc = "prepared" -> "check"
              [] pc = "after" -> "verify")
    /\ at' = "revision"
    /\ UNCHANGED <<server, people, overwrite, initial, asRead, exported, got,
                   planned>>

-----------------------------------------------------------------------------
(* The plan. *)

Missing(p) == {c \in Cell : p[c] = "absent"}

\* project_layout: the sheet as the layout will leave it.
Projected(p) == [c \in Cell |-> IF p[c] = "absent" THEN "blank" ELSE p[c]]

\* build_sales_update: formulas are never replaced, other contents only if
\* the fill was told to.
Conflict(v) ==
    v \in {"formula", "double"} \/ (v \in {"other", "human"} /\ ~overwrite)

\* isolate_scopes: the targets that are filled although others conflict.
Active(p) == {c \in Target \cup Added : ~Conflict(p[c])}

\* What is not yet as planned is written, the summaries with it.
Writes(p) == {c \in Active(p) \cup Summary : p[c] # "plan"}

\* The fill stops before it writes for other reasons: products or columns are
\* not recognised, or the switch of this kind of sheet is off.  (A warehouse
\* that does not answer is a Trouble.)
Refuse ==
    /\ pc = "plan"
    /\ \E v \in {"needs_review", "completed"} : End(v)
    /\ UNCHANGED <<server, people, overwrite, reader, planned>>

\* Mutant: the flag is not raised.
MutantPlan ==
    /\ pc = "plan"
    /\ before' = exported
    /\ prepared' = exported
    /\ expected' = initial
    /\ IF Active(Projected(exported)) = {}
       THEN End("needs_review")
       ELSE Goto(IF Missing(exported) = {} THEN "values" ELSE "layout")
    /\ UNCHANGED <<server, people, overwrite, reader, done, plan>>

\* The preflight on the projected sheet; from here on writes may begin.
Plan ==
    /\ pc = "plan"
    /\ before' = exported
    /\ prepared' = exported
    /\ expected' = initial
    /\ \/ /\ Active(Projected(exported)) = {}
          /\ End("needs_review")
       \/ /\ Active(Projected(exported)) # {}
          /\ writing' = TRUE
          /\ pc' = IF Missing(exported) = {} THEN "values" ELSE "layout"
          /\ UNCHANGED <<verdict, fills>>
    /\ UNCHANGED <<server, people, overwrite, reader, done, plan>>

-----------------------------------------------------------------------------
(* Requests on the server. *)

\* What request q does.
Land(q) ==
    /\ revision' = revision + 1
    /\ landed' = IF q.what = "write" THEN "all" ELSE "part"
    /\ sheet' = [c \in Cell |->
                    IF c \notin q.cells THEN sheet[c]
                    ELSE IF q.what = "write" THEN "plan"
                    ELSE IF sheet[c] = "absent" THEN "blank" ELSE "double"]
    /\ wiped' = IF q.what = "insert" THEN wiped
                ELSE wiped \cup {c \in q.cells : /\ sheet[c] = "human"
                                                 /\ prepared[c] # "human"}

\* An unanswered request takes effect after all.
LateLanding ==
    /\ \E q \in flying : Land(q) /\ flying' = flying \ {q}
    /\ UNCHANGED <<people, overwrite, pc, reader, planned, outer>>

-----------------------------------------------------------------------------
(* apply_update: one structural request after the other.  Those that set *)
(* headers, widths and merged ranges go the same way and touch no cell of  *)
(* this model.                                                             *)

NextColumns == Missing(before) \ done

\* The revision is what the last step left; a ValueError otherwise.
LayoutCheck ==
    /\ pc = "layout"
    /\ \/ revision = expected /\ Goto("insert")
       \/ revision # expected /\ Raise("value")
    /\ UNCHANGED <<server, people, overwrite, reader, planned>>

Insert ==
    /\ pc = "insert"
    /\ \E c \in NextColumns : /\ Land([what |-> "insert", cells |-> {c}])
                              /\ done' = done \cup {c}
    /\ Goto("reread")
    /\ UNCHANGED <<flying, people, overwrite, reader, before, prepared,
                   expected, plan>>

\* Mutant: a structural request that times out is sent again.
MutantInsertLost ==
    /\ pc = "insert"
    /\ \E c \in NextColumns :
          flying' = flying \cup {[what |-> "insert", cells |-> {c}]}
    /\ Goto("layout")
    /\ UNCHANGED <<sheet, revision, landed, wiped, people, overwrite, reader,
                   planned>>

InsertLost ==
    /\ pc = "insert"
    /\ \E c \in NextColumns :
          flying' = flying \cup {[what |-> "insert", cells |-> {c}]}
    /\ Raise("other")
    /\ UNCHANGED <<sheet, revision, landed, wiped, people, overwrite, reader,
                   planned>>

\* The revision is asked for, with whatever happened since the step.
Reread ==
    /\ pc = "reread"
    /\ expected' = revision
    /\ Goto(IF NextColumns = {} THEN "prepared" ELSE "layout")
    /\ UNCHANGED <<server, people, overwrite, reader, before, prepared, done,
                   plan>>

-----------------------------------------------------------------------------
(* write_sales_ranges and the verifications. *)

\* Mutant: the sheet is taken as it is after the layout.
MutantLayoutKept(p) == TRUE

\* verify_update: the old columns are as before, the new ones are empty.
LayoutKept(p) == p = Projected(before)

CheckLayout ==
    /\ pc = "check"
    /\ prepared' = exported
    /\ expected' = initial
    /\ \/ LayoutKept(exported) /\ Goto("values")
       \/ ~LayoutKept(exported) /\ Raise("value")
    /\ UNCHANGED <<server, people, overwrite, reader, before, done, plan>>

\* The values are planned again on the prepared sheet.
Values ==
    /\ pc = "values"
    /\ plan' = Writes(prepared)
    /\ IF Writes(prepared) = {} THEN End("completed") ELSE Goto("writecheck")
    /\ UNCHANGED <<server, people, overwrite, reader, before, prepared,
                   expected, done>>

\* A target is still writable, a summary is what the plan saw.
Writable(c) == IF c \in Summary THEN sheet[c] = prepared[c]
               ELSE \/ sheet[c] = "blank"
                    \/ overwrite /\ sheet[c] # "formula"

\* Mutant: the revision is not compared before the write.
MutantWriteCheck ==
    /\ pc = "writecheck"
    /\ \/ /\ \A c \in plan : Writable(c)
          /\ gap' = {}
          /\ Goto("write")
       \/ /\ ~\A c \in plan : Writable(c)
          /\ UNCHANGED gap
          /\ Raise("value")
    /\ UNCHANGED <<server, edits, overwrite, reader, planned>>

WriteCheck ==
    /\ pc = "writecheck"
    /\ \/ /\ revision = expected
          /\ \A c \in plan : Writable(c)
          /\ gap' = {}
          /\ Goto("write")
       \/ /\ revision # expected \/ ~\A c \in plan : Writable(c)
          /\ UNCHANGED gap
          /\ Raise("value")
    /\ UNCHANGED <<server, edits, overwrite, reader, planned>>

\* The write itself names no revision.
Write ==
    /\ pc = "write"
    /\ Land([what |-> "write", cells |-> plan])
    /\ Goto("after")
    /\ UNCHANGED <<flying, people, overwrite, reader, planned>>

WriteLost ==
    /\ pc = "write"
    /\ flying' = flying \cup {[what |-> "write", cells |-> plan]}
    /\ Raise("other")
    /\ UNCHANGED <<sheet, revision, landed, wiped, people, overwrite, reader,
                   planned>>

\* verify_sales_update: the targets as planned, everything else as prepared.
AsPlanned(p) ==
    \A c \in Cell : p[c] = IF c \in plan THEN "plan" ELSE prepared[c]

Verify ==
    /\ pc = "verify"
    /\ \/ AsPlanned(exported) /\ End("completed")
       \/ ~AsPlanned(exported) /\ Raise("value")
    /\ UNCHANGED <<server, people, overwrite, reader, planned>>

-----------------------------------------------------------------------------
\* The process dies; what it has just sent may still take effect.
Crash ==
    /\ pc \notin {"idle", "done", "dead"}
    /\ pc' = "dead"
    /\ \/ UNCHANGED flying
       \/ /\ pc = "insert"
          /\ \E c \in NextColumns :
                flying' = flying \cup {[what |-> "insert", cells |-> {c}]}
       \/ /\ pc = "write"
          /\ flying' = flying \cup {[what |-> "write", cells |-> plan]}
    /\ UNCHANGED <<sheet, revision, landed, wiped, people, overwrite, reader,
                   planned, outer>>

\* A person types into a cell.
Edit(c) ==
    /\ edits < MaxEdits
    /\ sheet[c] \notin {"absent", "double", "human"}
    /\ sheet' = [sheet EXCEPT ![c] = "human"]
    /\ revision' = revision + 1
    /\ edits' = edits + 1
    /\ gap' = gap \cup {c}
    /\ UNCHANGED <<flying, landed, wiped, overwrite, pc, reader,
                   planned, outer>>

Read == ReadRevision \/ ReadExport \/ (\E c \in Cell : ReadCell(c))
        \/ ReadStops \/ ReadEnd

Layout == LayoutCheck \/ Insert \/ InsertLost \/ Reread \/ CheckLayout

Submit == Values \/ WriteCheck \/ Write \/ WriteLost \/ Verify

Next == \/ Start \/ Trouble \/ Read \/ Refuse \/ Plan \/ Layout \/ Submit
        \/ Crash
        \/ LateLanding
        \/ \E c \in Cell : Edit(c)

Spec == Init /\ [][Next]_vars

-----------------------------------------------------------------------------
(* Properties *)

\* A snapshot read_sheet returns is the whole sheet as it was at the revision
\* the snapshot names, whatever people do while it is put together.
SnapshotIsReal == pc \in {"plan", "check", "verify"} => exported = asRead

\* A fill that wrote and was completed: since its first snapshot nobody
\* changed anything but the cells it wrote, and these are as planned
\* (verify_update, verify_sales_update).
CompletedIsWhole ==
    (verdict = "completed" /\ landed # "nothing") =>
        \A c \in Cell : asRead[c] = IF c \in plan THEN "plan"
                                    ELSE Projected(before)[c]

\* No column is inserted twice, whatever is lost, late or started again
\* (apply_update: "submitted steps are not retried").
ColumnsOnce == \A c \in Added : sheet[c] # "double"

\* A value that a person typed and the plan did not see is replaced only if it
\* was typed between the last check of the sheet and the write.
LostOnlyInTheGap == wiped \subseteq gap

\* The fill keeps the promise of module Fill to the batch that asked for it
\* (services/fill.py: "only faults of the read-only phase can be retried").
Promise == INSTANCE Fill WITH
    flying <- flying # {},
    status <- IF verdict = "none" THEN "absent" ELSE verdict

ImplementsFill == Promise!Spec
=============================================================================
