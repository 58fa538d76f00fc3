-------------------------- MODULE SheetFillProofs --------------------------
(***************************************************************************)
(* Proofs about module SheetFill, for any cells, any number of edits, lost *)
(* answers and fills.                                                      *)
(***************************************************************************)
EXTENDS SheetFill, TLAPS

\* Where the flag is raised, and where it is not yet.
Underway == {"layout", "insert", "reread", "prepared", "check", "values",
            "writecheck", "write", "after", "verify"}
Early == {"idle", "before", "plan"}

\* Nothing reads a revision as another content: what was read at the initial
\* revision is there as long as the revision is.
Fresh ==
    /\ initial <= revision
    /\ revision = initial => sheet = asRead
    /\ at = "cells" /\ revision = initial => exported = asRead
    /\ SnapshotIsReal

\* What the filler and its report know of its own requests.
Flags ==
    /\ pc \in Underway => writing
    /\ pc \in {"before", "plan"} => ~writing
    /\ pc \in Early => landed = "nothing" /\ done = {}
    /\ landed # "nothing" \/ flying # {} => writing
    /\ flying # {} => \/ pc = "dead"
                      \/ (pc = "done" /\ verdict = "needs_review")
    /\ \A q, r \in flying : q = r
    /\ verdict = "retryable" => pc = "idle"
    /\ verdict = "completed" => pc = "done"

\* A column that is to be inserted is not there.
Columns ==
    /\ \A c \in Cell \ Added : /\ sheet[c] # "absent"
                               /\ asRead[c] # "absent"
                               /\ exported[c] # "absent"
                               /\ before[c] # "absent"
    /\ ((pc = "before" /\ at # "revision") \/ pc = "plan") =>
          \A c \in Cell : asRead[c] = "absent" => sheet[c] = "absent"
    /\ pc \in {"layout", "insert", "reread"} =>
          \A c \in NextColumns : sheet[c] = "absent"
    /\ \A q \in flying : q.what = "insert" =>
          \A c \in q.cells : sheet[c] = "absent"
    /\ ColumnsOnce

\* What the values are planned on is the sheet the layout was to leave.
Prepared ==
    /\ pc \in {"values", "writecheck", "write", "after", "verify"} =>
          prepared = Projected(before)
    /\ pc = "values" => asRead = prepared
    /\ pc \in {"values", "writecheck"} =>
          /\ expected <= revision
          /\ revision = expected => sheet = prepared
    /\ CompletedIsWhole

\* What people typed without the plan knowing.
Typed ==
    /\ (pc = "write" \/ \E q \in flying : q.what = "write") =>
          \A c \in Cell : sheet[c] = "human" /\ prepared[c] # "human"
                             => c \in gap
    /\ wiped # {} => pc \in {"after", "verify", "done", "dead"}
    /\ wiped \subseteq gap

Sending == Underway \ {"after", "verify"}

\* How far the fill has come.
Progress ==
    /\ pc \notin {"idle", "done"} => verdict = "running"
    /\ pc = "idle" => verdict \in {"none", "retryable"}
    /\ pc \in {"after", "verify"} => landed = "all"
    /\ pc \in Sending => /\ landed # "all"
                         /\ landed = "part" => done # {}
                         /\ done \subseteq Missing(before)

Inv == TypeOK /\ Fresh /\ Flags /\ Columns /\ Prepared /\ Typed /\ Progress

-----------------------------------------------------------------------------
(* Helpers. *)

\* A report, whatever it says.
LEMMA EndTypes ==
    ASSUME TypeOK, NEW v \in {"completed", "retryable", "needs_review"},
           End(v)
    PROVE  pc' \in PC /\ verdict' \in {"completed", "retryable",
                                       "needs_review"}
           /\ writing' = writing /\ fills' = fills
BY DEF End, PC

\* What an error does to the types.
LEMMA RaiseTypes ==
    ASSUME TypeOK, NEW kind, Raise(kind)
    PROVE  pc' \in PC /\ verdict' \in {"retryable", "needs_review"}
           /\ writing' = writing /\ fills' = fills
BY DEF Raise, End, PC

\* What a request does to the types.
LEMMA LandTypes ==
    ASSUME TypeOK, NEW q \in Request, Land(q)
    PROVE  /\ sheet' \in [Cell -> Value]
           /\ revision' = revision + 1
           /\ landed' = IF q.what = "write" THEN "all" ELSE "part"
           /\ wiped' \subseteq Cell
<1>1. sheet' \in [Cell -> Value]
  BY DEF TypeOK, Land, Value
<1>2. wiped' \subseteq Cell
  BY DEF TypeOK, Land, Request
<1> QED
  BY <1>1, <1>2 DEF Land

\* The columns an insertion may take.
LEMMA NextAdded ==
    ASSUME TypeOK, Columns, NEW c \in NextColumns
    PROVE  /\ c \in Added /\ c \in Cell
           /\ [what |-> "insert", cells |-> {c}] \in Request
BY DEF NextColumns, Missing, Columns, Request, Cell

\* The write of the plan is a request.
LEMMA WriteRequest ==
    ASSUME TypeOK PROVE [what |-> "write", cells |-> plan] \in Request
BY DEF TypeOK, Request, Cell

-----------------------------------------------------------------------------
\* The invariant holds before the first fill.
LEMMA InitInv == Init => Inv
<1> SUFFICES ASSUME Init PROVE Inv
  OBVIOUS
<1> USE SheetFillAssumption DEF Init
<1>0. sheet \in [Cell -> Value]
  OBVIOUS
<1>1. TypeOK
  BY <1>0 DEF TypeOK, PC, Reading
<1>2. Fresh
  BY DEF Fresh, SnapshotIsReal
<1>3. Flags
  BY DEF Flags, Underway, Early
<1>4. Columns
  <2>1. \A c \in Cell \ Added : sheet[c] # "absent"
    BY DEF Cell
  <2>2. \A c \in Added : sheet[c] # "double"
    OBVIOUS
  <2> QED
    BY <2>1, <2>2 DEF Columns, ColumnsOnce
<1>5. Prepared
  BY DEF Prepared, CompletedIsWhole
<1>6. Typed
  BY DEF Typed
<1>7. Progress
  BY DEF Progress, Sending, Underway
<1> QED
  BY <1>1, <1>2, <1>3, <1>4, <1>5, <1>6, <1>7 DEF Inv

-----------------------------------------------------------------------------
(* Each part of the invariant is preserved. *)

\* The types.
LEMMA TypeStep == ASSUME Inv, [Next]_vars PROVE TypeOK'
<1> USE DEF Inv
<1>1. CASE Start
  <2>1. pc' \in PC /\ fills' \in Nat /\ done' \subseteq Added
    BY <1>1 DEF TypeOK, Start, PC, Reading
  <2> QED
    BY <1>1, <2>1 DEF TypeOK, Start, server, people
<1>2. CASE Trouble
  BY <1>2, RaiseTypes
  DEF TypeOK, Trouble, server, people, reader, planned
<1>3. CASE ReadRevision \/ ReadExport
  BY <1>3
  DEF TypeOK, ReadRevision, ReadExport, server, people, planned, outer
<1>4. ASSUME NEW c \in Cell, ReadCell(c) PROVE TypeOK'
  BY <1>4 DEF TypeOK, ReadCell, server, people, planned, outer
<1>5. CASE ReadStops
  BY <1>5, RaiseTypes
  DEF TypeOK, ReadStops, server, people, reader, planned
<1>6. CASE ReadEnd
  <2>1. pc' \in PC
    BY <1>6 DEF ReadEnd, Goto, Reading, PC
  <2> QED
    BY <1>6, <2>1 DEF TypeOK, ReadEnd, Goto, server, people, planned, outer
<1>7. CASE Refuse
  BY <1>7, EndTypes
  DEF TypeOK, Refuse, server, people, reader, planned
<1>8. CASE Plan
  <2>1. pc' \in PC /\ verdict' \in {"none", "running", "completed",
                                    "retryable", "needs_review"}
        /\ writing' \in BOOLEAN /\ fills' = fills
    BY <1>8, EndTypes DEF Plan, PC, TypeOK
  <2> QED
    BY <1>8, <2>1 DEF TypeOK, Plan, server, people, reader
<1>9. CASE LayoutCheck
  <2>1. pc' \in PC /\ verdict' \in {"none", "running", "completed",
                                    "retryable", "needs_review"}
        /\ writing' = writing /\ fills' = fills
    BY <1>9, RaiseTypes DEF LayoutCheck, PC, TypeOK, Goto, outer
  <2> QED
    BY <1>9, <2>1 DEF TypeOK, LayoutCheck, server, people, reader, planned
<1>10. CASE Insert
  <2>1. PICK c \in NextColumns :
           /\ Land([what |-> "insert", cells |-> {c}])
           /\ done' = done \cup {c}
    BY <1>10 DEF Insert
  <2>2. c \in Added /\ [what |-> "insert", cells |-> {c}] \in Request
    BY NextAdded
  <2>3. /\ sheet' \in [Cell -> Value] /\ revision' = revision + 1
        /\ landed' \in {"part", "all"} /\ wiped' \subseteq Cell
    BY <2>1, <2>2, LandTypes
  <2> QED
    BY <1>10, <2>1, <2>2, <2>3
    DEF TypeOK, Insert, Goto, people, reader, outer, PC
<1>11. CASE InsertLost
  <2>1. PICK c \in NextColumns :
           flying' = flying \cup {[what |-> "insert", cells |-> {c}]}
    BY <1>11 DEF InsertLost
  <2>2. flying' \subseteq Request
    BY <2>1, NextAdded DEF TypeOK
  <2> QED
    BY <1>11, <2>2, RaiseTypes DEF TypeOK, InsertLost, people, reader, planned
<1>12. CASE Reread
  BY <1>12 DEF TypeOK, Reread, Goto, server, people, reader, outer, PC, Reading
<1>13. CASE CheckLayout
  <2>1. pc' \in PC /\ verdict' \in {"none", "running", "completed",
                                    "retryable", "needs_review"}
        /\ writing' = writing /\ fills' = fills
    BY <1>13, RaiseTypes DEF CheckLayout, PC, TypeOK, Goto, outer
  <2> QED
    BY <1>13, <2>1 DEF TypeOK, CheckLayout, server, people, reader
<1>14. CASE Values
  <2>1. pc' \in PC /\ verdict' \in {"none", "running", "completed",
                                    "retryable", "needs_review"}
        /\ writing' = writing /\ fills' = fills
    BY <1>14, EndTypes DEF Values, PC, TypeOK, Goto, outer
  <2>2. plan' \subseteq Target \cup Added \cup Summary
    BY <1>14 DEF Values, Writes, Active
  <2> QED
    BY <1>14, <2>1, <2>2 DEF TypeOK, Values, server, people, reader
<1>15. CASE WriteCheck
  <2>1. pc' \in PC /\ verdict' \in {"none", "running", "completed",
                                    "retryable", "needs_review"}
        /\ writing' = writing /\ fills' = fills /\ gap' \subseteq Cell
    BY <1>15, RaiseTypes DEF WriteCheck, PC, TypeOK, Goto, outer
  <2> QED
    BY <1>15, <2>1 DEF TypeOK, WriteCheck, server, reader, planned
<1>16. CASE Write
  <2>1. /\ sheet' \in [Cell -> Value] /\ revision' = revision + 1
        /\ landed' \in {"part", "all"} /\ wiped' \subseteq Cell
    BY <1>16, WriteRequest, LandTypes DEF Write
  <2> QED
    BY <1>16, <2>1
    DEF TypeOK, Write, Goto, people, reader, planned, outer, PC, Reading
<1>17. CASE WriteLost
  <2>1. flying' \subseteq Request
    BY <1>17, WriteRequest DEF WriteLost, TypeOK
  <2> QED
    BY <1>17, <2>1, RaiseTypes
    DEF TypeOK, WriteLost, people, reader, planned
<1>18. CASE Verify
  <2>1. pc' \in PC /\ verdict' \in {"none", "running", "completed",
                                    "retryable", "needs_review"}
        /\ writing' = writing /\ fills' = fills
    BY <1>18, RaiseTypes, EndTypes DEF Verify, TypeOK
  <2> QED
    BY <1>18, <2>1 DEF TypeOK, Verify, server, people, reader, planned
<1>19. CASE Crash
  <2>1. flying' \subseteq Request
    BY <1>19, WriteRequest, NextAdded DEF Crash, TypeOK
  <2> QED
    BY <1>19, <2>1 DEF TypeOK, Crash, people, reader, planned, outer, PC
<1>20. CASE LateLanding
  <2>1. PICK q \in flying : Land(q) /\ flying' = flying \ {q}
    BY <1>20 DEF LateLanding
  <2>2. q \in Request
    BY DEF TypeOK
  <2>3. /\ sheet' \in [Cell -> Value] /\ revision' = revision + 1
        /\ landed' \in {"part", "all"} /\ wiped' \subseteq Cell
    BY <2>1, <2>2, LandTypes
  <2> QED
    BY <1>20, <2>1, <2>3
    DEF TypeOK, LateLanding, people, reader, planned, outer
<1>21. ASSUME NEW c \in Cell, Edit(c) PROVE TypeOK'
  <2>1. sheet' \in [Cell -> Value]
    BY <1>21 DEF TypeOK, Edit, Value
  <2> QED
    BY <1>21, <2>1 DEF TypeOK, Edit, reader, planned, outer
<1>22. CASE UNCHANGED vars
  BY <1>22 DEF TypeOK, vars, server, people, reader, planned, outer
<1> QED
  BY <1>1, <1>2, <1>3, <1>4, <1>5, <1>6, <1>7, <1>8, <1>9, <1>10, <1>11,
     <1>12, <1>13, <1>14, <1>15, <1>16, <1>17, <1>18, <1>19, <1>20, <1>21,
     <1>22 DEF Next, Read, Layout, Submit

\* The revision only grows, and the content of a revision is what it was.
LEMMA Moves ==
    ASSUME Inv, [Next]_vars
    PROVE  /\ revision \in Nat /\ initial \in Nat
           /\ revision' = revision \/ revision' = revision + 1
           /\ revision' = revision => sheet' = sheet
<1>1. revision \in Nat /\ initial \in Nat
  BY DEF Inv, TypeOK
<1>2. CASE Insert \/ Write \/ LateLanding \/ \E c \in Cell : Edit(c)
  BY <1>1, <1>2 DEF Insert, Write, LateLanding, Edit, Land
<1>3. CASE UNCHANGED <<sheet, revision>>
  BY <1>1, <1>3
<1>4. ASSUME \/ Start \/ Trouble \/ Read \/ Refuse \/ Plan \/ LayoutCheck
             \/ InsertLost \/ Reread \/ CheckLayout \/ Values \/ WriteCheck
             \/ WriteLost \/ Verify \/ Crash \/ UNCHANGED vars
      PROVE  UNCHANGED <<sheet, revision>>
  BY <1>4 DEF Start, Trouble, Read, ReadRevision, ReadExport, ReadCell,
     ReadStops, ReadEnd, Refuse, Plan, LayoutCheck, InsertLost, Reread,
     CheckLayout, Values, WriteCheck, WriteLost, Verify, Crash, vars, server
<1> QED
  BY <1>2, <1>3, <1>4 DEF Next, Layout, Submit

\* Where the filler is after an exception.
LEMMA RaisePlace ==
    ASSUME NEW kind, Raise(kind)
    PROVE  /\ pc' \in {"idle", "done"}
           /\ pc' = "idle" <=> verdict' = "retryable"
           /\ pc' = "done" <=> verdict' = "needs_review"
           /\ writing => pc' = "done"
           /\ writing' = writing
BY DEF Raise, End

\* What was read is still there while the revision has not moved.
LEMMA FreshStep == ASSUME Inv, [Next]_vars PROVE Fresh'
<1> USE Moves DEF Inv, Fresh, SnapshotIsReal
<1>1. CASE ReadRevision
  BY <1>1 DEF ReadRevision, server, Reading
<1>2. CASE ReadExport
  BY <1>2 DEF ReadExport, server, Reading
<1>3. CASE ReadEnd
  BY <1>3 DEF ReadEnd, server, Goto, Same
<1>4. ASSUME NEW c \in Cell, ReadCell(c) PROVE Fresh'
  BY <1>4 DEF ReadCell, server
<1>5. CASE Start
  BY <1>5 DEF Start, server
<1>6. ASSUME UNCHANGED reader, pc' \in {"plan", "check", "verify"} => pc' = pc
      PROVE  Fresh'
  BY <1>6 DEF reader
<1>7. ASSUME \/ Trouble \/ ReadStops \/ Refuse \/ Plan \/ LayoutCheck
             \/ Insert \/ InsertLost \/ Reread \/ CheckLayout \/ Values
             \/ WriteCheck \/ Write \/ WriteLost \/ Verify \/ Crash
             \/ LateLanding \/ (\E c \in Cell : Edit(c)) \/ UNCHANGED vars
      PROVE  /\ UNCHANGED reader
             /\ pc' \in {"plan", "check", "verify"} => pc' = pc
  BY <1>7, RaisePlace DEF Trouble, ReadStops, Refuse, Plan, LayoutCheck,
     Insert, InsertLost, Reread, CheckLayout, Values, WriteCheck, Write,
     WriteLost, Verify, Crash, LateLanding, Edit, vars, Goto, End
<1> QED
  BY <1>1, <1>2, <1>3, <1>4, <1>5, <1>6, <1>7
  DEF Next, Read, Layout, Submit

\* The writing flag and the verdict tell whether a request is under way.
LEMMA FlagsStep == ASSUME Inv, [Next]_vars PROVE Flags'
<1> USE DEF Inv, Flags, Underway, Early
<1>1. CASE Start
  BY <1>1 DEF Start, server
<1>2. CASE Trouble
  BY <1>2, RaisePlace DEF Trouble, server, planned, Reading
<1>3. CASE ReadRevision \/ ReadExport \/ \E c \in Cell : ReadCell(c)
  BY <1>3 DEF ReadRevision, ReadExport, ReadCell, server, planned, outer
<1>4. CASE ReadStops
  BY <1>4, RaisePlace DEF ReadStops, server, planned, Reading
<1>5. CASE ReadEnd
  BY <1>5 DEF ReadEnd, Goto, server, planned, outer, Reading
<1>6. CASE Refuse \/ Plan
  BY <1>6 DEF Refuse, Plan, End, Goto, server, planned, outer
<1>7. CASE LayoutCheck \/ Reread \/ CheckLayout
  BY <1>7, RaisePlace
  DEF LayoutCheck, Reread, CheckLayout, Goto, server, planned, outer
<1>8. CASE Insert \/ Write
  BY <1>8 DEF Insert, Write, Land, Goto, planned, outer
<1>9. CASE InsertLost \/ WriteLost
  BY <1>9, RaisePlace DEF InsertLost, WriteLost, planned
<1>10. CASE Values \/ WriteCheck \/ Verify
  BY <1>10, RaisePlace
  DEF Values, WriteCheck, Verify, End, Goto, server, planned, outer
<1>11. CASE Crash
  BY <1>11 DEF Crash, planned, outer
<1>12. CASE LateLanding
  BY <1>12 DEF LateLanding, Land, planned, outer
<1>13. ASSUME NEW c \in Cell, Edit(c) PROVE Flags'
  BY <1>13 DEF Edit, planned, outer
<1>14. CASE UNCHANGED vars
  BY <1>14 DEF vars, server, planned, outer
<1> QED
  BY <1>1, <1>2, <1>3, <1>4, <1>5, <1>6, <1>7, <1>8, <1>9, <1>10, <1>11,
     <1>12, <1>13, <1>14 DEF Next, Read, Layout, Submit

\* An insertion fills a hole, or doubles what is there.
LEMMA LandInsert ==
    ASSUME TypeOK, NEW q \in Request, q.what = "insert", Land(q)
    PROVE  \A c \in Cell :
             sheet'[c] = IF c \in q.cells
                         THEN IF sheet[c] = "absent" THEN "blank" ELSE "double"
                         ELSE sheet[c]
BY DEF Land

\* A write that lands puts the plan into its cells and no other.
LEMMA LandWrite ==
    ASSUME TypeOK, NEW q \in Request, q.what = "write", Land(q)
    PROVE  \A c \in Cell :
             sheet'[c] = IF c \in q.cells THEN "plan" ELSE sheet[c]
BY DEF Land

\* No column is there twice, and none is requested that is there.
LEMMA ColumnsStep == ASSUME Inv, [Next]_vars PROVE Columns'
<1> USE DEF Inv, Columns, ColumnsOnce
<1>1. CASE Start
  BY <1>1 DEF Start, server
<1>2. CASE Trouble \/ ReadStops \/ Refuse \/ Crash
  <2>1. /\ UNCHANGED <<sheet, asRead, exported, before>>
        /\ pc' \in {"idle", "done", "dead"}
    BY <1>2, RaisePlace DEF Trouble, ReadStops, Refuse, Crash, End, server,
       reader, planned
  <2>2. \A q \in flying' : q.what = "insert" =>
           \A c \in q.cells : sheet[c] = "absent"
    BY <1>2 DEF Trouble, ReadStops, Refuse, Crash, server
  <2> QED
    BY <2>1, <2>2
<1>3. CASE ReadRevision
  BY <1>3 DEF ReadRevision, server, planned, Reading, NextColumns, Missing
<1>4. CASE ReadExport
  BY <1>4 DEF ReadExport, server, planned, Reading, NextColumns, Missing
<1>5. ASSUME NEW c \in Cell, ReadCell(c) PROVE Columns'
  BY <1>5 DEF ReadCell, server, planned, Reading, NextColumns, Missing
<1>6. CASE ReadEnd
  BY <1>6 DEF ReadEnd, Goto, server, planned, Reading
<1>7. CASE Plan
  <2>1. exported = asRead /\ done = {}
    BY <1>7 DEF Plan, Fresh, SnapshotIsReal, Flags, Early
  <2>2. \A c \in NextColumns' : sheet[c] = "absent"
    BY <1>7, <2>1 DEF Plan, NextColumns, Missing, reader
  <2>3. pc' \notin {"before", "plan"}
    BY <1>7 DEF Plan, End
  <2> QED
    BY <1>7, <2>2, <2>3 DEF Plan, server, reader
<1>8. CASE LayoutCheck
  BY <1>8, RaisePlace
  DEF LayoutCheck, Goto, server, reader, planned, NextColumns, Missing
<1>9. CASE Insert
  <2>1. PICK c \in NextColumns :
           /\ Land([what |-> "insert", cells |-> {c}])
           /\ done' = done \cup {c}
    BY <1>9 DEF Insert
  <2>2. c \in Cell /\ [what |-> "insert", cells |-> {c}] \in Request
    BY NextAdded
  <2>3. sheet[c] = "absent"
    BY <1>9 DEF Insert
  <2>4. \A d \in Cell : sheet'[d] = IF d = c THEN "blank" ELSE sheet[d]
    BY <2>1, <2>2, <2>3, LandInsert
  <2>5. NextColumns' = NextColumns \ {c}
    BY <1>9, <2>1 DEF Insert, NextColumns, Missing
  <2>6. flying' = {}
    BY <1>9 DEF Insert, Flags
  <2> QED
    BY <1>9, <2>4, <2>5, <2>6
    DEF Insert, Goto, reader, NextColumns, Missing, Cell
<1>10. CASE InsertLost
  <2>1. PICK c \in NextColumns :
           flying' = flying \cup {[what |-> "insert", cells |-> {c}]}
    BY <1>10 DEF InsertLost
  <2>2. sheet[c] = "absent" /\ flying = {}
    BY <1>10 DEF InsertLost, Flags
  <2> QED
    BY <1>10, <2>1, <2>2, RaisePlace DEF InsertLost, reader, planned
<1>11. CASE Reread
  BY <1>11 DEF Reread, Goto, server, reader, NextColumns, Missing
<1>12. CASE CheckLayout
  BY <1>12, RaisePlace DEF CheckLayout, Goto, server, reader
<1>13. CASE Values \/ WriteCheck \/ Verify
  BY <1>13, RaisePlace
  DEF Values, WriteCheck, Verify, End, Goto, server, reader, planned
<1>14. CASE Write
  <2>1. \A c \in Cell : sheet'[c] = IF c \in plan THEN "plan" ELSE sheet[c]
    BY <1>14, WriteRequest, LandWrite DEF Write
  <2>2. flying' = {}
    BY <1>14 DEF Write, Flags
  <2> QED
    BY <1>14, <2>1, <2>2 DEF Write, Goto, reader, planned, Cell
<1>15. CASE WriteLost
  <2>1. flying' = {[what |-> "write", cells |-> plan]}
    BY <1>15 DEF WriteLost, Flags
  <2> QED
    BY <1>15, <2>1, RaisePlace DEF WriteLost, reader, planned
<1>16. CASE LateLanding
  <2>1. PICK q \in flying : Land(q) /\ flying' = flying \ {q}
    BY <1>16 DEF LateLanding
  <2>2. q \in Request /\ flying' = {} /\ pc' \in {"done", "dead"}
    BY <1>16, <2>1 DEF TypeOK, Flags, LateLanding
  <2>3. \A c \in Cell : \/ sheet'[c] = sheet[c]
                        \/ sheet'[c] = "plan"
                        \/ sheet'[c] = "blank"
    BY <2>1, <2>2, LandInsert, LandWrite DEF Request
  <2> QED
    BY <1>16, <2>2, <2>3 DEF LateLanding, reader, planned, Cell
<1>17. ASSUME NEW c \in Cell, Edit(c) PROVE Columns'
  <2>1. \A d \in Cell : \/ sheet'[d] = sheet[d]
                        \/ sheet[d] # "absent" /\ sheet'[d] = "human"
    BY <1>17 DEF Edit, TypeOK
  <2>2. \A q \in flying : q.cells \subseteq Cell
    BY DEF TypeOK, Request
  <2> QED
    BY <1>17, <2>1, <2>2
    DEF Edit, reader, planned, NextColumns, Missing, Cell
<1>18. CASE UNCHANGED vars
  BY <1>18 DEF vars, server, reader, planned, NextColumns, Missing
<1> QED
  BY <1>1, <1>2, <1>3, <1>4, <1>5, <1>6, <1>7, <1>8, <1>9, <1>10, <1>11,
     <1>12, <1>13, <1>14, <1>15, <1>16, <1>17, <1>18
  DEF Next, Read, Layout, Submit

\* The values are planned on the sheet the layout left, and a completed fill
\* is whole.
LEMMA PreparedStep == ASSUME Inv, [Next]_vars PROVE Prepared'
<1> USE DEF Inv, Prepared, CompletedIsWhole
<1>0. verdict = "completed" => pc = "done"
  BY DEF Flags
<1>1. CASE Start
  BY <1>1 DEF Start
<1>2. CASE Trouble \/ ReadStops
  BY <1>2, RaisePlace DEF Trouble, ReadStops
<1>3. CASE ReadRevision
  BY <1>0, <1>3 DEF ReadRevision, server, planned, outer, Reading, Projected
<1>4. CASE ReadExport \/ \E c \in Cell : ReadCell(c)
  BY <1>4 DEF ReadExport, ReadCell, server, planned, outer, Projected
<1>5. CASE ReadEnd
  BY <1>0, <1>5 DEF ReadEnd, Goto, server, planned, outer, Reading, Projected
<1>6. CASE Refuse
  BY <1>6 DEF Refuse, End, server, Flags, Early
<1>7. CASE Plan
  <2>1. CASE pc' # "values"
    BY <1>7, <2>1 DEF Plan, End, Flags
  <2>2. CASE pc' = "values"
    <3>1. /\ exported = asRead
          /\ prepared' = exported /\ before' = exported
          /\ expected' = initial
          /\ Missing(exported) = {}
          /\ UNCHANGED <<sheet, revision, asRead, verdict>>
      BY <1>7, <2>2
      DEF Plan, End, server, reader, Fresh, SnapshotIsReal
    <3>2. Projected(exported) = exported
      BY <3>1 DEF Projected, Missing, TypeOK
    <3>3. prepared' = Projected(before)'
      BY <3>1, <3>2 DEF Projected
    <3>4. /\ expected' <= revision'
          /\ revision' = expected' => sheet' = prepared'
      BY <3>1 DEF Fresh
    <3> QED
      BY <1>0, <1>7, <2>2, <3>1, <3>3, <3>4 DEF Plan
  <2> QED
    BY <2>1, <2>2
<1>8. CASE LayoutCheck \/ InsertLost
  BY <1>0, <1>8, RaisePlace DEF LayoutCheck, InsertLost, Goto, outer
<1>9. CASE Insert \/ Reread
  BY <1>0, <1>9 DEF Insert, Reread, Goto, outer
<1>10. CASE CheckLayout
  <2>1. CASE Raise("value")
    BY <1>10, <2>1, RaisePlace DEF CheckLayout
  <2>2. CASE LayoutKept(exported) /\ Goto("values")
    <3>1. /\ exported = asRead
          /\ prepared' = exported /\ expected' = initial
          /\ UNCHANGED <<sheet, revision, asRead, before, verdict>>
      BY <1>10, <2>2
      DEF CheckLayout, Goto, outer, server, reader, Fresh, SnapshotIsReal
    <3>2. prepared' = Projected(before)'
      BY <2>2, <3>1 DEF LayoutKept, Projected
    <3>3. /\ expected' <= revision'
          /\ revision' = expected' => sheet' = prepared'
      BY <3>1 DEF Fresh
    <3> QED
      BY <1>0, <1>10, <2>2, <3>1, <3>2, <3>3 DEF CheckLayout, Goto
  <2> QED
    BY <1>10, <2>1, <2>2 DEF CheckLayout
<1>11. CASE Values
  <2>1. /\ prepared = Projected(before) /\ asRead = prepared
        /\ plan' = Writes(prepared)
        /\ UNCHANGED <<sheet, revision, asRead, before, prepared, expected>>
    BY <1>11 DEF Values, server, reader
  <2>2. prepared' = Projected(before)'
    BY <2>1 DEF Projected
  <2>3. CASE Writes(prepared) = {}
    BY <1>11, <2>1, <2>2, <2>3 DEF Values, End
  <2>4. CASE Writes(prepared) # {}
    BY <1>0, <1>11, <2>1, <2>2, <2>4 DEF Values, Goto, outer
  <2> QED
    BY <2>3, <2>4
<1>12. CASE WriteCheck
  BY <1>0, <1>12, RaisePlace
  DEF WriteCheck, Goto, outer, server, reader, planned, Projected
<1>13. CASE Write
  BY <1>0, <1>13 DEF Write, Goto, outer, planned, Projected
<1>14. CASE WriteLost
  BY <1>14, RaisePlace DEF WriteLost
<1>15. CASE Verify
  <2>1. CASE Raise("value")
    BY <1>15, <2>1, RaisePlace DEF Verify
  <2>2. CASE AsPlanned(exported) /\ End("completed")
    <3>1. exported = asRead /\ prepared = Projected(before)
      BY <1>15 DEF Verify, Fresh, SnapshotIsReal
    <3>2. \A c \in Cell :
             asRead'[c] = IF c \in plan' THEN "plan" ELSE Projected(before)'[c]
      BY <1>15, <2>2, <3>1 DEF Verify, AsPlanned, reader, planned, Projected
    <3> QED
      BY <2>2, <3>2 DEF End
  <2> QED
    BY <1>15, <2>1, <2>2 DEF Verify
<1>16. CASE Crash
  BY <1>0, <1>16 DEF Crash, outer
<1>17. CASE LateLanding
  <2>1. flying # {} /\ UNCHANGED <<pc, verdict>>
    BY <1>17 DEF LateLanding, outer
  <2>2. pc \in {"done", "dead"} /\ verdict # "completed"
    BY <2>1 DEF Flags
  <2> QED
    BY <2>1, <2>2
<1>18. ASSUME NEW c \in Cell, Edit(c) PROVE Prepared'
  BY <1>18, Moves DEF Edit, reader, planned, outer, Projected, TypeOK
<1>19. CASE UNCHANGED vars
  BY <1>19 DEF vars, server, reader, planned, outer, Projected
<1> QED
  BY <1>1, <1>2, <1>3, <1>4, <1>5, <1>6, <1>7, <1>8, <1>9, <1>10, <1>11,
     <1>12, <1>13, <1>14, <1>15, <1>16, <1>17, <1>18, <1>19
  DEF Next, Read, Layout, Submit

\* A value that people typed is lost only between check and write.
LEMMA TypedStep == ASSUME Inv, [Next]_vars PROVE Typed'
<1> USE DEF Inv, Typed
<1>0. flying # {} => pc \in {"done", "dead"}
  BY DEF Flags
<1>1. CASE \/ Start \/ Trouble \/ Read \/ Refuse \/ Plan \/ LayoutCheck
           \/ Reread \/ CheckLayout \/ Values \/ Verify \/ UNCHANGED vars
  <2>1. UNCHANGED <<sheet, flying, gap, wiped>>
    BY <1>1 DEF Start, Trouble, Read, ReadRevision, ReadExport, ReadCell,
       ReadStops, ReadEnd, Refuse, Plan, LayoutCheck, Reread, CheckLayout,
       Values, Verify, vars, server, people
  <2>2. \/ pc \notin {"write", "done", "dead"}
        \/ pc = "write" /\ pc' = "done"
        \/ pc' = pc /\ prepared' = prepared
    BY <1>1, RaisePlace DEF Start, Trouble, Read, ReadRevision, ReadExport,
       ReadCell, ReadStops, ReadEnd, Refuse, Plan, LayoutCheck, Reread,
       CheckLayout, Values, Verify, vars, planned, Reading, Flags, Underway
  <2>3. pc' = "write" => pc = "write"
    BY <1>1, RaisePlace DEF Start, Trouble, Read, ReadRevision, ReadExport,
       ReadCell, ReadStops, ReadEnd, Refuse, Plan, LayoutCheck, Reread,
       CheckLayout, Values, Verify, End, Goto, vars, Reading
  <2>4. wiped # {} => pc' \in {"after", "verify", "done", "dead"}
    BY <1>1, RaisePlace DEF Start, Trouble, Read, ReadRevision, ReadExport,
       ReadCell, ReadStops, ReadEnd, Refuse, Plan, LayoutCheck, Reread,
       CheckLayout, Values, Verify, End, Goto, vars, Reading, Flags, Underway
  <2> QED
    BY <1>0, <2>1, <2>2, <2>3, <2>4
<1>2. CASE Insert \/ InsertLost
  BY <1>0, <1>2, RaisePlace DEF Insert, InsertLost, Land, Goto, people, planned
<1>3. CASE WriteCheck
  <2>1. wiped = {} /\ flying = {}
    BY <1>0, <1>3 DEF WriteCheck
  <2>2. pc' = "write" => sheet = prepared
    BY <1>3, RaisePlace DEF WriteCheck, Prepared
  <2> QED
    BY <1>3, <2>1, <2>2 DEF WriteCheck, server, planned
<1>4. CASE Write
  <2>1. wiped' \subseteq gap'
    BY <1>4, WriteRequest DEF Write, Land, people, TypeOK, Cell
  <2> QED
    BY <1>0, <1>4, <2>1 DEF Write, Goto
<1>5. CASE WriteLost
  BY <1>5, RaisePlace DEF WriteLost, people, planned, Flags, Underway
<1>6. CASE Crash
  BY <1>0, <1>6 DEF Crash, people, planned
<1>7. CASE LateLanding
  <2>1. PICK q \in flying : Land(q) /\ flying' = flying \ {q}
    BY <1>7 DEF LateLanding
  <2>2. q \in Request /\ flying' = {} /\ pc' \in {"done", "dead"}
    BY <1>0, <1>7, <2>1 DEF TypeOK, Flags, LateLanding
  <2>3. wiped' \subseteq gap'
    BY <1>7, <2>1, <2>2 DEF LateLanding, Land, people, Request
  <2> QED
    BY <2>2, <2>3
<1>8. ASSUME NEW c \in Cell, Edit(c) PROVE Typed'
  <2>1. \A d \in Cell : sheet'[d] = IF d = c THEN "human" ELSE sheet[d]
    BY <1>8 DEF Edit, TypeOK
  <2> QED
    BY <1>8, <2>1 DEF Edit, planned
<1> QED
  BY <1>1, <1>2, <1>3, <1>4, <1>5, <1>6, <1>7, <1>8 DEF Next, Layout, Submit

\* A request adds to the columns inserted, or is the whole write.
LEMMA ProgressStep == ASSUME Inv, [Next]_vars PROVE Progress'
<1> USE DEF Inv, Progress, Sending, Underway
<1>1. CASE Start
  BY <1>1 DEF Start, server
<1>2. CASE Trouble
  BY <1>2, RaisePlace DEF Trouble, server, planned, Reading
<1>3. CASE ReadRevision \/ ReadExport \/ \E c \in Cell : ReadCell(c)
  BY <1>3 DEF ReadRevision, ReadExport, ReadCell, server, planned, outer
<1>4. CASE ReadStops
  BY <1>4, RaisePlace DEF ReadStops, server, planned, Reading
<1>5. CASE ReadEnd
  BY <1>5 DEF ReadEnd, Goto, server, planned, outer, Reading
<1>6. CASE Refuse
  BY <1>6 DEF Refuse, End, server, planned
<1>7. CASE Plan
  <2>1. landed = "nothing" /\ done = {} /\ verdict = "running"
    BY <1>7 DEF Plan, Flags, Early
  <2>2. landed' = landed /\ done' = {}
    BY <1>7, <2>1 DEF Plan, server
  <2>3. \/ pc' \in {"values", "layout"} /\ verdict' = verdict
        \/ pc' = "done"
    BY <1>7 DEF Plan, End
  <2> QED
    BY <2>1, <2>2, <2>3
<1>8. CASE LayoutCheck \/ Reread \/ CheckLayout
  BY <1>8, RaisePlace
  DEF LayoutCheck, Reread, CheckLayout, Goto, server, planned, outer, Missing
<1>9. CASE Insert
  <2>1. PICK c \in NextColumns :
           /\ Land([what |-> "insert", cells |-> {c}])
           /\ done' = done \cup {c}
    BY <1>9 DEF Insert
  <2>2. /\ pc = "insert" /\ pc' = "reread" /\ verdict' = verdict
        /\ before' = before
    BY <1>9 DEF Insert, Goto, outer
  <2>3. landed' = "part"
    BY <2>1 DEF Land
  <2>4. done' # {} /\ done' \subseteq Missing(before)'
    BY <2>1, <2>2 DEF NextColumns, Missing
  <2> QED
    BY <2>2, <2>3, <2>4
<1>10. CASE Write
  BY <1>10 DEF Write, Land, Goto, outer
<1>11. CASE InsertLost \/ WriteLost
  BY <1>11, RaisePlace DEF InsertLost, WriteLost, planned
<1>12. CASE Values \/ WriteCheck \/ Verify
  BY <1>12, RaisePlace
  DEF Values, WriteCheck, Verify, End, Goto, server, planned, outer, Missing
<1>13. CASE Crash
  BY <1>13 DEF Crash, planned, outer
<1>14. CASE LateLanding
  <2>1. pc \in {"done", "dead"}
    BY <1>14 DEF LateLanding, Flags
  <2> QED
    BY <1>14, <2>1 DEF LateLanding, planned, outer
<1>15. ASSUME NEW c \in Cell, Edit(c) PROVE Progress'
  BY <1>15 DEF Edit, planned, outer, Missing
<1>16. CASE UNCHANGED vars
  BY <1>16 DEF vars, server, planned, outer, Missing
<1> QED
  BY <1>1, <1>2, <1>3, <1>4, <1>5, <1>6, <1>7, <1>8, <1>9, <1>10, <1>11,
     <1>12, <1>13, <1>14, <1>15, <1>16 DEF Next, Read, Layout, Submit

-----------------------------------------------------------------------------
\* The inductive invariant of a fill: what it read, what it sent and what it
\* reported agree with the sheet, whatever people do to it meanwhile.
THEOREM Invariant == Spec => []Inv
<1>1. Inv /\ [Next]_vars => Inv'
  BY TypeStep, FreshStep, FlagsStep, ColumnsStep, PreparedStep, TypedStep,
     ProgressStep DEF Inv
<1> QED
  BY <1>1, InitInv, PTL DEF Spec

\* Every variable of the fill keeps its type; no old cell is ever planned.
THEOREM Types == Spec => []TypeOK
<1>1. Inv => TypeOK
  BY DEF Inv
<1> QED
  BY <1>1, Invariant, PTL

\* A snapshot is the sheet at one revision, however many requests it took.
THEOREM SnapshotsAreReal == Spec => []SnapshotIsReal
<1>1. Inv => SnapshotIsReal
  BY DEF Inv, Fresh
<1> QED
  BY <1>1, Invariant, PTL

\* A completed fill left the sheet as planned and everything else as it was.
THEOREM CompletedAreWhole == Spec => []CompletedIsWhole
<1>1. Inv => CompletedIsWhole
  BY DEF Inv, Prepared
<1> QED
  BY <1>1, Invariant, PTL

\* No request of a running fill is under way: the one that gets no answer is
\* its last.
LEMMA QuietWhileRunning ==
    ASSUME Inv, pc \notin {"done", "dead"}
    PROVE  flying = {}
BY DEF Inv, Flags

\* A fill that completes has written its plan, or has nothing written at all:
\* a column that it inserted is empty, and an empty one is to be written.
LEMMA WholeOrNothing ==
    ASSUME Inv, [Next]_vars, verdict' = "completed", verdict # "completed"
    PROVE  landed # "part" /\ verdict = "running" /\ pc # "dead"
<1> USE DEF Inv
<1>1. CASE Refuse \/ Plan
  BY <1>1 DEF Refuse, Plan, End, Flags, Early, Progress
<1>2. CASE Values
  <2>1. pc = "values" /\ Writes(prepared) = {}
    BY <1>2 DEF Values, Goto, outer
  <2>2. prepared = Projected(before) /\ done \subseteq Missing(before)
    BY <2>1 DEF Prepared, Progress, Sending, Underway
  <2>3. ASSUME NEW c \in done PROVE FALSE
    <3>1. c \in Added /\ c \in Cell /\ prepared[c] = "blank"
      BY <2>2 DEF Projected, Missing, TypeOK
    <3>2. c \in Writes(prepared)
      BY <3>1 DEF Writes, Active, Conflict
    <3> QED
      BY <2>1, <3>2
  <2> QED
    BY <2>1, <2>3 DEF Progress, Sending, Underway
<1>3. CASE Verify
  BY <1>3 DEF Verify, Progress
<1>4. CASE \/ Trouble \/ ReadStops \/ LayoutCheck \/ CheckLayout \/ InsertLost
           \/ WriteCheck \/ WriteLost
  BY <1>4, RaisePlace DEF Trouble, ReadStops, LayoutCheck, CheckLayout,
     InsertLost, WriteCheck, WriteLost, Goto, outer
<1>5. CASE \/ Start \/ ReadRevision \/ ReadExport \/ ReadEnd \/ Insert
           \/ Reread \/ Write \/ Crash \/ LateLanding
           \/ (\E c \in Cell : ReadCell(c) \/ Edit(c)) \/ UNCHANGED vars
  BY <1>5 DEF Start, ReadRevision, ReadExport, ReadEnd, Insert, Reread, Write,
     Crash, LateLanding, ReadCell, Edit, vars, Goto, outer
<1> QED
  BY <1>1, <1>2, <1>3, <1>4, <1>5 DEF Next, Read, Layout, Submit

\* No column is inserted twice.
THEOREM InsertedOnce == Spec => []ColumnsOnce
<1>1. Inv => ColumnsOnce
  BY DEF Inv, Columns
<1> QED
  BY <1>1, Invariant, PTL

\* A typed value that the plan did not see is lost only if it was typed after
\* the last check.
THEOREM GapIsAll == Spec => []LostOnlyInTheGap
<1>1. Inv => LostOnlyInTheGap
  BY DEF Inv, Typed, LostOnlyInTheGap
<1> QED
  BY <1>1, Invariant, PTL

-----------------------------------------------------------------------------
(* The fill implements module Fill. *)

\* Before the first fill nothing is written and nothing is promised.
LEMMA PromiseInit == Init => Promise!Init
BY DEF Init, Promise!Init

\* What changes neither the sheet nor the requests under way is a report, or
\* leaves the promise as it is.
LEMMA ReportStep ==
    ASSUME Inv, [Next]_vars, landed' = landed, flying' = flying,
           pc \notin {"idle", "done", "dead"}
    PROVE  Promise!Next \/ UNCHANGED Promise!vars
<1> USE DEF Inv
<1>1. verdict = "running" /\ flying = {}
  BY QuietWhileRunning DEF Progress
<1>2. verdict' \in {"none", "running", "completed", "retryable",
                    "needs_review"}
  BY TypeStep DEF TypeOK
<1>3. verdict' # "none"
  BY <1>1, RaisePlace
  DEF Next, Read, Layout, Submit, Start, Trouble, ReadRevision, ReadExport,
      ReadCell, ReadStops, ReadEnd, Refuse, Plan, LayoutCheck, Insert,
      InsertLost, Reread, CheckLayout, Values, WriteCheck, Write, WriteLost,
      Verify, Crash, LateLanding, Edit, vars, outer, Goto, End
<1>4. CASE verdict' = verdict
  BY <1>4 DEF Promise!vars
<1>5. CASE verdict' = "needs_review"
  BY <1>1, <1>5 DEF Promise!Next, Promise!Report
<1>6. CASE verdict' = "completed"
  BY <1>1, <1>6, WholeOrNothing
  DEF Promise!Next, Promise!Report, Promise!Completed
<1>7. CASE verdict' = "retryable"
  <2>1. pc' = "idle"
    BY <1>7, FlagsStep DEF Flags
  <2>2. landed = "nothing"
    BY <2>1, FlagsStep DEF Flags, Early
  <2> QED
    BY <1>1, <1>7, <2>2 DEF Promise!Next, Promise!Report, Promise!Retryable
<1> QED
  BY <1>1, <1>2, <1>3, <1>4, <1>5, <1>6, <1>7

\* Every step of a fill is one of the promise, or none.
LEMMA PromiseStep ==
    ASSUME Inv, [Next]_vars
    PROVE  Promise!Next \/ UNCHANGED Promise!vars
<1> USE DEF Inv
<1>1. CASE Start
  <2>1. verdict \in {"none", "retryable"}
    BY <1>1 DEF Start, Progress
  <2> QED
    BY <1>1, <2>1 DEF Start, server, Promise!Next, Promise!Start
<1>2. CASE Insert \/ Write
  <2>1. /\ pc \in {"insert", "write"} /\ verdict' = verdict
        /\ flying' = flying /\ landed' \in {"part", "all"}
    BY <1>2 DEF Insert, Write, Land, Goto, outer
  <2>2. verdict = "running" /\ flying = {} /\ landed # "all"
    BY <2>1, QuietWhileRunning DEF Progress, Sending, Underway
  <2> QED
    BY <2>1, <2>2 DEF Promise!Next, Promise!Write
<1>3. CASE InsertLost \/ WriteLost
  <2>1. /\ pc \in {"insert", "write"} /\ verdict' = "needs_review"
        /\ flying' # {} /\ landed' = landed
    BY <1>3, RaisePlace DEF InsertLost, WriteLost, Flags, Underway
  <2>2. verdict = "running" /\ flying = {}
    BY <2>1, QuietWhileRunning DEF Progress
  <2> QED
    BY <2>1, <2>2 DEF Promise!Next, Promise!Lose
<1>4. CASE Crash
  <2>1. verdict = "running" /\ flying = {}
    BY <1>4, QuietWhileRunning DEF Crash, Progress
  <2>2. landed' = landed /\ verdict' = verdict
    BY <1>4 DEF Crash, outer
  <2>3. CASE flying' = {}
    BY <2>1, <2>2, <2>3 DEF Promise!vars
  <2>4. CASE flying' # {}
    BY <2>1, <2>2, <2>4 DEF Promise!Next, Promise!Lose
  <2> QED
    BY <2>3, <2>4
<1>5. CASE LateLanding
  <2>1. PICK q \in flying : Land(q) /\ flying' = flying \ {q}
    BY <1>5 DEF LateLanding
  <2>2. flying' = {} /\ landed' \in {"part", "all"} /\ verdict' = verdict
    BY <1>5, <2>1 DEF LateLanding, Land, Flags, outer
  <2> QED
    BY <2>1, <2>2 DEF Promise!Next, Promise!Land
<1>6. CASE (\E c \in Cell : Edit(c)) \/ UNCHANGED vars
  BY <1>6 DEF Edit, vars, server, outer, Promise!vars
<1>7. CASE \/ Trouble \/ Read \/ Refuse \/ Plan \/ LayoutCheck \/ Reread
           \/ CheckLayout \/ Values \/ WriteCheck \/ Verify
  <2>1. UNCHANGED <<landed, flying>> /\ pc \notin {"idle", "done", "dead"}
    BY <1>7 DEF Trouble, Read, ReadRevision, ReadExport, ReadCell, ReadStops,
       ReadEnd, Refuse, Plan, LayoutCheck, Reread, CheckLayout, Values,
       WriteCheck, Verify, Reading, server
  <2> QED
    BY <2>1, ReportStep
<1> QED
  BY <1>1, <1>2, <1>3, <1>4, <1>5, <1>6, <1>7 DEF Next, Layout, Submit

\* Whatever people type and whatever is lost, a fill keeps the promise of
\* module Fill to the batch that asked for it.
THEOREM KeepsPromise == Spec => ImplementsFill
<1>1. Inv /\ [Next]_vars => [Promise!Next]_Promise!vars
  BY PromiseStep
<1> QED
  BY <1>1, PromiseInit, Invariant, PTL
  DEF Spec, ImplementsFill, Promise!Spec
=============================================================================
