-------------------------- MODULE ThreeCopyProofs --------------------------
(***************************************************************************)
(* Proofs about ThreeCopy for any number of runs, editions and late        *)
(* requests.                                                               *)
(*                                                                         *)
(* The inductive invariant says how the records follow one another         *)
(* (Records), which record each file belongs to (FileOfStep), and what a   *)
(* run may rely on where it is (Holds).  A confirmed step never changes    *)
(* but for its name, and the decision never changes: that is why what a    *)
(* run learnt before it lost the lock is still true when a late request    *)
(* of it lands.  What the copies deliver, and that module Delivery is      *)
(* implemented, follows in the second half from parts added to it.         *)
(***************************************************************************)
EXTENDS ThreeCopy, TLAPS

Copied(s) == step[s].status = "copied"

Records ==
    /\ \A s \in Stage : Present(s) => /\ step[s].attempt \in Run
                                      /\ step[s].from = Wanted(s)
    /\ Present("filled") => Copied("original")
    /\ Present("delivery") => Decided
    /\ Decided => /\ Copied("original")
                  /\ Copied("filled")
                  /\ outcome.token = Token(outcome.from)
    /\ batch.status = "copied" => /\ Copied("delivery")
                                  /\ batch.target = Token("delivery")

\* A file exists only if the record of its stage names the run that made it.
FileOfStep ==
    \A s \in Stage, r \in Run :
        file[<<s, r>>] # NoFile => Present(s) /\ step[s].attempt = r

CopyPC == {"get", "begin", "copy", "cancel", "finish"}
FillPC == {"decide", "fillget", "claim", "filling", "finishfill", "details",
           "fillerror", "save"}

\* What a run knows, and what it may rely on where it is.
Knows(r) ==
    /\ seen[r] = "copied" => batch.status = "copied"
    /\ r \in late => Copied("filled")
    /\ result[r] # "corrupt"

Placed(r) ==
    /\ pc[r] \in {"idle", "load", "create", "check"} => stage[r] = "original"
    /\ (pc[r] \in CopyPC /\ stage[r] = "filled") => Copied("original")
    /\ (pc[r] \in CopyPC /\ stage[r] = "delivery") => Decided
    /\ pc[r] \in {"copy", "cancel", "finish"} => Mine(r)
    /\ pc[r] \in {"copy", "cancel"} => file[<<stage[r], r>>] = NoFile
    /\ pc[r] \in FillPC => Copied("original") /\ Copied("filled")
    /\ pc[r] \in {"deliver", "rename", "namesave"} => Decided
    /\ pc[r] = "complete" => Copied("delivery")

Holds(r) == Knows(r) /\ Placed(r)

Inv == /\ TypeOK
       /\ Records
       /\ FileOfStep
       /\ \A r \in Run : Holds(r)

\* Run r, at the head of run_three_copy, has read the record of stage s.
HasRead(r, s) ==
    \/ pc[r] = "check"
    \/ pc[r] = "read" /\ stage[r] = "filled" /\ s = "original"
    \/ pc[r] = "read" /\ stage[r] = "delivery" /\ s # "delivery"

\* A run that has read the records as they are finds no gap in them.
LEMMA NoGap ==
    ASSUME Records, NEW r \in Run,
           seen[r] = "copied" => batch.status = "copied",
           \A s \in Stage : known[r][s] = step[s].status
    PROVE  ~Gap(r)
<1>1. /\ known[r]["original"] = step["original"].status
      /\ known[r]["filled"] = step["filled"].status
      /\ known[r]["delivery"] = step["delivery"].status
  BY DEF Stage
<1>2. /\ Decided => Copied("original") /\ Copied("filled")
      /\ seen[r] = "copied" => Copied("delivery") /\ Decided
  BY DEF Records, Copied, Present
<1>3. QED
  BY <1>1, <1>2 DEF Gap, Records, Copied, Present, Stage

\* A request that passes the guard leaves the counts of late requests typed.
LEMMA PassTypes ==
    ASSUME LockTypes, NEW r \in Run, Pass(r)
    PROVE  grace' \in [Run -> 0..Grace]
  BY ThreeCopyAssumption DEF LockTypes, Pass

\* Where a run goes next is a place, whatever it reports.
LEMMA GotoTypes ==
    ASSUME RunTypes, NEW r \in Run, NEW next \in PC, Goto(r, next)
    PROVE  pc' \in [Run -> PC] /\ result' \in [Run -> Result]
  BY DEF RunTypes, Goto

\* A run that gives up goes to a place, with a known cause.
LEMMA FailTypes ==
    ASSUME RunTypes, NEW r \in Run, NEW cause \in Result, Fail(r, cause)
    PROVE  pc' \in [Run -> PC] /\ result' \in [Run -> Result]
  BY DEF RunTypes, Fail, PC

\* The lock, late requests and doubt keep their types.
LEMMA LockTyped == ASSUME LockTypes, [Next]_vars PROVE LockTypes'
<1> USE DEF LockTypes
<1>1. ASSUME NEW r \in Run, Copying(r) PROVE LockTypes'
  BY <1>1, PassTypes
     DEF Copying, GetStep, BeginStep, CopyOk, CopyRejected, CopyUnknown,
         CancelStep, FinishStep
<1>2. ASSUME NEW r \in Run, Filling(r) PROVE LockTypes'
  <2>1. CASE FillFault(r)
    BY <2>1 DEF FillFault
  <2>2. CASE ~FillFault(r)
    BY <1>2, <2>2, PassTypes
       DEF Filling, Decide, FillGet, Claim, FillWrite, FillWriteLost,
           FillReturn, FinishFill, Details, FillError, Save
  <2>3. QED  BY <2>1, <2>2
<1>3. ASSUME NEW r \in Run, Delivering(r) PROVE LockTypes'
  BY <1>3, PassTypes
     DEF Delivering, Deliver, Rename, NameSave, Reuse, Complete, Notify
<1>4. ASSUME NEW r \in Run,
             Skip(r) \/ Load(r) \/ Create(r) \/ ReadStep(r) \/ Check(r)
             \/ LateWrite(r)
      PROVE  LockTypes'
  BY <1>4, PassTypes DEF Skip, Load, Create, ReadStep, Check, LateWrite
<1>5. ASSUME NEW r \in Run, Discard(r) PROVE grace' \in [Run -> 0..Grace]
  BY <1>5, ThreeCopyAssumption DEF Discard
<1>6. ASSUME NEW r \in Run, Acquire(r) \/ Close(r) PROVE LockTypes'
  BY <1>5, <1>6 DEF Acquire, Close
<1>7. ASSUME NEW r \in Run, Abort(r) PROVE LockTypes'
  BY <1>7 DEF Abort
<1>8. ASSUME NEW r \in Run, Crash(r) PROVE LockTypes'
  <2>1. grace' \in [Run -> 0..Grace]
    BY <1>5, <1>8 DEF Crash
  <2>2. QED  BY <1>8, <2>1 DEF Crash
<1>9. CASE LoseLock
  BY <1>9, ThreeCopyAssumption DEF LoseLock
<1>10. CASE Forget \/ Edit \/ UNCHANGED vars
  BY <1>10 DEF Forget, Edit, vars
<1>11. QED
  BY <1>1, <1>2, <1>3, <1>4, <1>6, <1>7, <1>8, <1>9, <1>10 DEF Next, Proceed

\* A run that is over leaves its local variables typed.
LEMMA DiscardTypes ==
    ASSUME RunTypes, NEW r \in Run, Discard(r)
    PROVE  /\ stage' \in [Run -> Stage]
           /\ seen' \in [Run -> {"absent", "copying", "copied"}]
           /\ known' \in [Run -> [Stage -> {"absent", "copying", "copied"}]]
           /\ name' \in [Run -> Name]
           /\ verdict' \in [Run -> Verdict]
           /\ degraded' \in [Run -> BOOLEAN]
           /\ writing' \in [Run -> BOOLEAN]
  BY DEF RunTypes, Discard, NothingKnown, Stage, Name, Verdict

\* What runs read from the records is typed.
LEMMA StatusTypes ==
    ASSUME RecordTypes
    PROVE  /\ batch.status \in {"absent", "copying", "copied"}
           /\ fill.status \in Verdict
           /\ \A s \in Stage :
                 /\ step[s].name \in Name
                 /\ step[s].status \in {"absent", "copying", "copied"}
  BY DEF RecordTypes

\* Fillers report verdicts.
LEMMA ReportTypes ==
    ASSUME NEW r \in Run
    PROVE  Interrupted \subseteq Verdict /\ Report(r) \subseteq Verdict
  BY DEF Interrupted, Report, Verdict

\* Local variables keep their types.
LEMMA RunTyped == ASSUME TypeOK, [Next]_vars PROVE RunTypes'
<1> USE GotoTypes, FailTypes DEF PC, Result, Answer
<1> SUFFICES ASSUME Next PROVE RunTypes'
  BY DEF vars, RunTypes, TypeOK
<1>1. pc' \in [Run -> PC] /\ result' \in [Run -> Result]
  <2>1. ASSUME NEW r \in Run, Copying(r)
        PROVE  pc' \in [Run -> PC] /\ result' \in [Run -> Result]
    <3>1. \A s \in Stage : After(s) \in PC
      BY DEF After, Stage
    <3>2. stage[r] \in Stage
      BY DEF TypeOK, RunTypes
    <3>3. QED
      BY <2>1, <3>1, <3>2
         DEF Copying, GetStep, BeginStep, CopyOk, CopyRejected, CopyUnknown,
             CancelStep, FinishStep, TypeOK
  <2>2. ASSUME NEW r \in Run, Filling(r)
        PROVE  pc' \in [Run -> PC] /\ result' \in [Run -> Result]
    BY <2>2 DEF TypeOK, RunTypes, Filling, Decide, FillGet, Claim, FillWrite,
       FillWriteLost, FillReturn, FinishFill, Details, FillFault, FillError,
       Save
  <2>3. ASSUME NEW r \in Run, Delivering(r)
        PROVE  pc' \in [Run -> PC] /\ result' \in [Run -> Result]
    BY <2>3 DEF TypeOK, RunTypes, Delivering, Deliver, Rename, NameSave, Reuse,
       Complete, Notify
  <2>4. ASSUME NEW r \in Run,
               Acquire(r) \/ Skip(r) \/ Load(r) \/ Create(r)
               \/ ReadStep(r) \/ Check(r) \/ Abort(r) \/ Close(r)
               \/ Crash(r) \/ LateWrite(r)
        PROVE  pc' \in [Run -> PC] /\ result' \in [Run -> Result]
    BY <2>4 DEF TypeOK, RunTypes, Acquire, Skip, Load, Create, ReadStep, Check,
       Abort, Close, Crash, LateWrite
  <2>5. CASE Forget \/ LoseLock \/ Edit
    BY <2>5 DEF TypeOK, RunTypes, Forget, LoseLock, Edit
  <2>6. QED
    BY <2>1, <2>2, <2>3, <2>4, <2>5 DEF Next, Proceed
<1>2. stage' \in [Run -> Stage]
  <2> USE StatusTypes DEF RunTypes, TypeOK, local
  <2>1. ASSUME NEW r \in Run, Copying(r)
        PROVE  stage' \in [Run -> Stage]
    BY <2>1
       DEF Copying, GetStep, BeginStep, CopyOk, CopyRejected, CopyUnknown,
           CancelStep, FinishStep, NextStage, Stage
  <2>2. ASSUME NEW r \in Run, Filling(r)
        PROVE  stage' \in [Run -> Stage]
    BY <2>2
       DEF Filling, Decide, FillGet, Claim, FillWrite, FillWriteLost,
           FillReturn, FinishFill, Details, FillFault, FillError, Degrade,
           Save
  <2>3. ASSUME NEW r \in Run, Delivering(r)
        PROVE  stage' \in [Run -> Stage]
    BY <2>3
       DEF Delivering, Deliver, Rename, NameSave, Reuse, Complete, Notify,
           Stage, Name, FinalName
  <2>4. ASSUME NEW r \in Run, Close(r) \/ Crash(r)
        PROVE  stage' \in [Run -> Stage]
    BY <2>4, DiscardTypes DEF Close, Crash
  <2>5. ASSUME NEW r \in Run,
               Acquire(r) \/ Skip(r) \/ Load(r) \/ Create(r)
               \/ ReadStep(r) \/ Check(r) \/ Abort(r) \/ LateWrite(r)
        PROVE  stage' \in [Run -> Stage]
    <3>1. NextStep(stage[r]) \in Stage /\ stage \in [Run -> Stage]
      BY DEF NextStep, Stage
    <3>2. stage' = stage \/ stage' = [stage EXCEPT ![r] = NextStep(stage[r])]
      BY <2>5 DEF Acquire, Skip, Load, Create, ReadStep, Check, Abort,
         LateWrite
    <3>3. QED  BY <3>1, <3>2
  <2>6. CASE Forget \/ LoseLock \/ Edit
    BY <2>6 DEF Forget, LoseLock, Edit
  <2>7. QED
    BY <2>1, <2>2, <2>3, <2>4, <2>5, <2>6 DEF Next, Proceed
<1>3. seen' \in [Run -> {"absent", "copying", "copied"}]
  <2> USE StatusTypes DEF RunTypes, TypeOK, local
  <2>1. ASSUME NEW r \in Run, Copying(r)
        PROVE  seen' \in [Run -> {"absent", "copying", "copied"}]
    BY <2>1
       DEF Copying, GetStep, BeginStep, CopyOk, CopyRejected, CopyUnknown,
           CancelStep, FinishStep
  <2>2. ASSUME NEW r \in Run, Filling(r)
        PROVE  seen' \in [Run -> {"absent", "copying", "copied"}]
    BY <2>2
       DEF Filling, Decide, FillGet, Claim, FillWrite, FillWriteLost,
           FillReturn, FinishFill, Details, FillFault, FillError, Degrade,
           Save
  <2>3. ASSUME NEW r \in Run, Delivering(r)
        PROVE  seen' \in [Run -> {"absent", "copying", "copied"}]
    BY <2>3
       DEF Delivering, Deliver, Rename, NameSave, Reuse, Complete, Notify,
           Stage, Name, FinalName
  <2>4. ASSUME NEW r \in Run, Close(r) \/ Crash(r)
        PROVE  seen' \in [Run -> {"absent", "copying", "copied"}]
    BY <2>4, DiscardTypes DEF Close, Crash
  <2>5. ASSUME NEW r \in Run,
               Acquire(r) \/ Skip(r) \/ Load(r) \/ Create(r)
               \/ ReadStep(r) \/ Check(r) \/ Abort(r) \/ LateWrite(r)
        PROVE  seen' \in [Run -> {"absent", "copying", "copied"}]
    BY <2>5 DEF Acquire, Skip, Load, Create, ReadStep, Check, Abort, LateWrite,
       Stage
  <2>6. CASE Forget \/ LoseLock \/ Edit
    BY <2>6 DEF Forget, LoseLock, Edit
  <2>7. QED
    BY <2>1, <2>2, <2>3, <2>4, <2>5, <2>6 DEF Next, Proceed
<1>4. name' \in [Run -> Name] /\ degraded' \in [Run -> BOOLEAN]
  <2> USE StatusTypes DEF RunTypes, TypeOK, local
  <2>1. ASSUME NEW r \in Run, Copying(r)
        PROVE  name' \in [Run -> Name] /\ degraded' \in [Run -> BOOLEAN]
    <3>1. /\ name \in [Run -> Name]
          /\ degraded \in [Run -> BOOLEAN]
          /\ step["filled"].name \in Name
      BY DEF Stage
    <3>2. \/ name' = name
          \/ name' = [name EXCEPT ![r] = step["filled"].name]
          \/ name' = [name EXCEPT ![r] = "incomplete"]
          \/ name' = [name EXCEPT ![r] = name[r]]
      BY <2>1
         DEF Copying, GetStep, BeginStep, CopyOk, CopyRejected, CopyUnknown,
             CancelStep, FinishStep
    <3>3. degraded' = degraded
      BY <2>1
         DEF Copying, GetStep, BeginStep, CopyOk, CopyRejected, CopyUnknown,
             CancelStep, FinishStep
    <3>4. name[r] \in Name /\ "incomplete" \in Name
      BY <3>1 DEF Name
    <3>5. QED  BY <3>1, <3>2, <3>3, <3>4
  <2>2. ASSUME NEW r \in Run, Filling(r)
        PROVE  name' \in [Run -> Name] /\ degraded' \in [Run -> BOOLEAN]
    BY <2>2
       DEF Filling, Decide, FillGet, Claim, FillWrite, FillWriteLost,
           FillReturn, FinishFill, Details, FillFault, FillError, Degrade,
           Save
  <2>3. ASSUME NEW r \in Run, Delivering(r)
        PROVE  name' \in [Run -> Name] /\ degraded' \in [Run -> BOOLEAN]
    BY <2>3
       DEF Delivering, Deliver, Rename, NameSave, Reuse, Complete, Notify,
           Stage, Name, FinalName
  <2>4. ASSUME NEW r \in Run, Close(r) \/ Crash(r)
        PROVE  name' \in [Run -> Name] /\ degraded' \in [Run -> BOOLEAN]
    BY <2>4, DiscardTypes DEF Close, Crash
  <2>5. ASSUME NEW r \in Run,
               Acquire(r) \/ Skip(r) \/ Load(r) \/ Create(r)
               \/ ReadStep(r) \/ Check(r) \/ Abort(r) \/ LateWrite(r)
        PROVE  name' \in [Run -> Name] /\ degraded' \in [Run -> BOOLEAN]
    BY <2>5 DEF Acquire, Skip, Load, Create, ReadStep, Check, Abort, LateWrite,
       Stage
  <2>6. CASE Forget \/ LoseLock \/ Edit
    BY <2>6 DEF Forget, LoseLock, Edit
  <2>7. QED
    BY <2>1, <2>2, <2>3, <2>4, <2>5, <2>6 DEF Next, Proceed
<1>5. verdict' \in [Run -> Verdict] /\ writing' \in [Run -> BOOLEAN]
  <2> USE StatusTypes DEF RunTypes, TypeOK, local
  <2>1. ASSUME NEW r \in Run, Copying(r)
        PROVE  verdict' \in [Run -> Verdict] /\ writing' \in [Run -> BOOLEAN]
    BY <2>1
       DEF Copying, GetStep, BeginStep, CopyOk, CopyRejected, CopyUnknown,
           CancelStep, FinishStep
  <2>2. ASSUME NEW r \in Run, Filling(r)
        PROVE  verdict' \in [Run -> Verdict] /\ writing' \in [Run -> BOOLEAN]
    BY <2>2, ReportTypes
       DEF Filling, Decide, FillGet, Claim, FillWrite, FillWriteLost,
           FillReturn, FinishFill, Details, FillFault, FillError, Degrade,
           Save
  <2>3. ASSUME NEW r \in Run, Delivering(r)
        PROVE  verdict' \in [Run -> Verdict] /\ writing' \in [Run -> BOOLEAN]
    BY <2>3
       DEF Delivering, Deliver, Rename, NameSave, Reuse, Complete, Notify,
           Stage, Name, FinalName
  <2>4. ASSUME NEW r \in Run, Close(r) \/ Crash(r)
        PROVE  verdict' \in [Run -> Verdict] /\ writing' \in [Run -> BOOLEAN]
    BY <2>4, DiscardTypes DEF Close, Crash
  <2>5. ASSUME NEW r \in Run,
               Acquire(r) \/ Skip(r) \/ Load(r) \/ Create(r)
               \/ ReadStep(r) \/ Check(r) \/ Abort(r) \/ LateWrite(r)
        PROVE  verdict' \in [Run -> Verdict] /\ writing' \in [Run -> BOOLEAN]
    BY <2>5 DEF Acquire, Skip, Load, Create, ReadStep, Check, Abort, LateWrite,
       Stage
  <2>6. CASE Forget \/ LoseLock \/ Edit
    BY <2>6 DEF Forget, LoseLock, Edit
  <2>7. QED
    BY <2>1, <2>2, <2>3, <2>4, <2>5, <2>6 DEF Next, Proceed
<1>6. known' \in [Run -> [Stage -> {"absent", "copying", "copied"}]]
  <2> USE DEF RunTypes, TypeOK, local
  <2>1. ASSUME NEW r \in Run, Copying(r) PROVE known' = known
    BY <2>1
       DEF Copying, GetStep, BeginStep, CopyOk, CopyRejected, CopyUnknown,
           CancelStep, FinishStep
  <2>2. ASSUME NEW r \in Run, Filling(r) PROVE known' = known
    BY <2>2
       DEF Filling, Decide, FillGet, Claim, FillWrite, FillWriteLost,
           FillReturn, FinishFill, Details, FillFault, FillError, Save
  <2>3. ASSUME NEW r \in Run, Delivering(r) PROVE known' = known
    BY <2>3
       DEF Delivering, Deliver, Rename, NameSave, Reuse, Complete, Notify
  <2>4. ASSUME NEW r \in Run, Close(r) \/ Crash(r)
        PROVE  known' \in [Run -> [Stage -> {"absent", "copying", "copied"}]]
    BY <2>4, DiscardTypes DEF Close, Crash
  <2>5. ASSUME NEW r \in Run, ReadStep(r)
        PROVE  known' \in [Run -> [Stage -> {"absent", "copying", "copied"}]]
    BY <2>5, StatusTypes DEF ReadStep
  <2>6. ASSUME NEW r \in Run, Check(r)
        PROVE  known' \in [Run -> [Stage -> {"absent", "copying", "copied"}]]
    BY <2>6 DEF Check, NothingKnown
  <2>7. ASSUME NEW r \in Run,
               Acquire(r) \/ Skip(r) \/ Load(r) \/ Create(r) \/ Abort(r)
               \/ LateWrite(r)
        PROVE  known' = known
    BY <2>7 DEF Acquire, Skip, Load, Create, Abort, LateWrite
  <2>8. CASE Forget \/ LoseLock \/ Edit
    BY <2>8 DEF Forget, LoseLock, Edit
  <2>9. QED
    BY <2>1, <2>2, <2>3, <2>4, <2>5, <2>6, <2>7, <2>8 DEF Next, Proceed
<1>7. QED
  BY <1>1, <1>2, <1>3, <1>4, <1>5, <1>6 DEF RunTypes

\* The tokens a run stores or copies from are names of files.
LEMMA TokenTypes ==
    ASSUME Inv
    PROVE  /\ \A s \in Stage : Present(s) => Token(s) \in FileId
           /\ \A r \in Run : pc[r] \in CopyPC =>
                 Wanted(stage[r]) \in FileId \cup {Sheet}
  <1>1. \A s \in Stage : Present(s) => Token(s) \in FileId
    BY DEF Inv, Records, Token, FileId
  <1>2. ASSUME NEW r \in Run, pc[r] \in CopyPC
        PROVE  Wanted(stage[r]) \in FileId \cup {Sheet}
    <2>1. stage[r] \in Stage
      BY DEF Inv, TypeOK, RunTypes
    <2>2. CASE stage[r] = "original"
      BY <2>2 DEF Wanted
    <2>3. CASE stage[r] = "filled"
      <3>1. Present("original")
        BY <1>2, <2>3 DEF Inv, Holds, Knows, Placed, Copied, Present
      <3>2. QED  BY <1>1, <2>3, <3>1 DEF Wanted, Stage
    <2>4. CASE stage[r] = "delivery"
      BY <2>4 DEF Wanted, Inv, TypeOK, RecordTypes
    <2>5. QED  BY <2>1, <2>2, <2>3, <2>4 DEF Stage
  <1>3. QED  BY <1>1, <1>2

\* The Redis records keep their types: every token stored names a file.
LEMMA RecordTyped == ASSUME Inv, [Next]_vars PROVE RecordTypes'
<1> SUFFICES ASSUME Next PROVE RecordTypes'
  BY DEF vars, store, Inv, TypeOK, RecordTypes
<1> USE DEF store, Inv, TypeOK
<1>1. ASSUME NEW r \in Run, Create(r) PROVE RecordTypes'
  <2>1. batch' = batch
        \/ \E e \in Switches :
              batch' = [status |-> "copying", attempt |-> r, enabled |-> e,
                        target |-> Sheet]
    BY <1>1 DEF Create
  <2>2. \A e \in Switches : e \in SUBSET {"legacy", "new"}
    BY ThreeCopyAssumption DEF ThreeCopyAssumption
  <2>3. batch' \in [status : {"absent", "copying", "copied"},
                   attempt : Run \cup {None},
                   enabled : SUBSET {"legacy", "new"},
                   target : FileId \cup {Sheet}]
    BY <2>1, <2>2 DEF RecordTypes
  <2>4. QED
    BY <1>1, <2>3 DEF Create, RecordTypes
<1>2. ASSUME NEW r \in Run, BeginStep(r) PROVE RecordTypes'
  <2>1. stage[r] \in Stage /\ Wanted(stage[r]) \in FileId \cup {Sheet}
    BY <1>2, TokenTypes DEF BeginStep, CopyPC, RunTypes
  <2>2. QED
    BY <1>2, <2>1 DEF BeginStep, RecordTypes, Name
<1>3. ASSUME NEW r \in Run, CancelStep(r) PROVE RecordTypes'
  BY <1>3 DEF CancelStep, RecordTypes, NoStep, Name
<1>4. ASSUME NEW r \in Run, FinishStep(r) PROVE RecordTypes'
  BY <1>4 DEF FinishStep, RecordTypes
<1>5. ASSUME NEW r \in Run, Claim(r) PROVE RecordTypes'
  BY <1>5 DEF Claim, RecordTypes, Verdict
<1>6. ASSUME NEW r \in Run, FinishFill(r) PROVE RecordTypes'
  <2>1. verdict[r] \in Verdict
    BY DEF RunTypes
  <2>2. QED  BY <1>6, <2>1 DEF FinishFill, RecordTypes
<1>7. ASSUME NEW r \in Run, Save(r) PROVE RecordTypes'
  <2>1. Token("original") \in FileId /\ Token("filled") \in FileId
    BY <1>7, TokenTypes
       DEF Save, Holds, Placed, FillPC, Copied, Present, Stage
  <2>2. QED
    BY <1>7, <2>1 DEF Save, RecordTypes
<1>8. ASSUME NEW r \in Run, NameSave(r) PROVE RecordTypes'
  <2>1. FinalName \in Name
    BY DEF FinalName, Name
  <2>2. QED
    BY <1>8, <2>1 DEF NameSave, RecordTypes
<1>9. ASSUME NEW r \in Run, Complete(r) PROVE RecordTypes'
  <2>1. Token("delivery") \in FileId
    BY <1>9, TokenTypes DEF Complete, Holds, Placed, Copied, Present, Stage
  <2>2. QED
    BY <1>9, <2>1 DEF Complete, RecordTypes
<1>10. ASSUME NEW r \in Run,
              Copying(r), ~BeginStep(r), ~CancelStep(r), ~FinishStep(r)
       PROVE  RecordTypes'
  BY <1>10 DEF Copying, GetStep, CopyOk, CopyRejected, CopyUnknown, RecordTypes
<1>11. ASSUME NEW r \in Run, Filling(r), ~Claim(r), ~FinishFill(r), ~Save(r)
       PROVE  RecordTypes'
  BY <1>11 DEF Filling, Decide, FillGet, FillWrite, FillWriteLost, FillReturn,
     Details, FillFault, FillError, RecordTypes
<1>12. ASSUME NEW r \in Run, Delivering(r), ~NameSave(r), ~Complete(r)
       PROVE  RecordTypes'
  BY <1>12 DEF Delivering, Deliver, Rename, Reuse, Notify, RecordTypes
<1>13. ASSUME NEW r \in Run,
              Acquire(r) \/ Skip(r) \/ Load(r) \/ ReadStep(r) \/ Check(r)
              \/ Abort(r) \/ Close(r) \/ Crash(r) \/ LateWrite(r)
       PROVE  RecordTypes'
  BY <1>13 DEF Acquire, Skip, Load, ReadStep, Check, Abort, Close, Crash,
     LateWrite, RecordTypes
<1>14. CASE Forget \/ LoseLock \/ Edit
  BY <1>14 DEF Forget, LoseLock, Edit, RecordTypes
<1>15. QED
  BY <1>1, <1>2, <1>3, <1>4, <1>5, <1>6, <1>7, <1>8, <1>9, <1>10, <1>11,
     <1>12, <1>13, <1>14 DEF Next, Proceed

\* The files keep their types: every copy is of a file that can exist.
LEMMA DriveTyped == ASSUME Inv, [Next]_vars PROVE DriveTypes'
<1> SUFFICES ASSUME Next PROVE DriveTypes'
  BY DEF vars, Inv, TypeOK, DriveTypes
<1> USE DEF drive, Inv, TypeOK
<1>1. ASSUME NEW r \in Run, CopyOk(r) \/ CopyUnknown(r) PROVE DriveTypes'
  <2>1. stage[r] \in Stage /\ Wanted(stage[r]) \in FileId \cup {Sheet}
    BY <1>1, TokenTypes DEF CopyOk, CopyUnknown, CopyPC, RunTypes
  <2>2. MakeFile(r)
    BY <1>1 DEF CopyOk, CopyUnknown
  <2>3. file' \in [FileId -> [base : Edition \cup {None},
                              body : {"missing", "clean", "partial", "full"}]]
    BY <2>1, <2>2 DEF MakeFile, DriveTypes
  <2>4. QED
    BY <1>1, <2>3 DEF CopyOk, CopyUnknown, DriveTypes
<1>2. ASSUME NEW r \in Run, FillWrite(r) \/ LateWrite(r) PROVE DriveTypes'
  <2>1. file' \in [FileId -> [base : Edition \cup {None},
                              body : {"missing", "clean", "partial", "full"}]]
    BY <1>2 DEF FillWrite, LateWrite, DriveTypes
  <2>2. QED
    BY <1>2, <2>1 DEF FillWrite, LateWrite, DriveTypes
<1>3. ASSUME NEW r \in Run, FillWriteLost(r) PROVE DriveTypes'
  BY <1>3 DEF FillWriteLost, DriveTypes
<1>4. ASSUME NEW r \in Run, Rename(r) PROVE DriveTypes'
  <2>1. FinalName \in Name
    BY DEF FinalName, Name
  <2>2. QED
    BY <1>4, <2>1 DEF Rename, DriveTypes
<1>5. ASSUME NEW r \in Run, Notify(r) PROVE DriveTypes'
  BY <1>5 DEF Notify, DriveTypes
<1>6. CASE Edit
  BY <1>6 DEF Edit, DriveTypes
<1>7. ASSUME NEW r \in Run, Copying(r), ~CopyOk(r), ~CopyUnknown(r)
      PROVE  DriveTypes'
  BY <1>7 DEF Copying, GetStep, BeginStep, CopyRejected, CancelStep, FinishStep,
     DriveTypes
<1>8. ASSUME NEW r \in Run, Filling(r), ~FillWrite(r), ~FillWriteLost(r)
      PROVE  DriveTypes'
  BY <1>8 DEF Filling, Decide, FillGet, Claim, FillReturn, FinishFill, Details,
     FillFault, FillError, Save, DriveTypes
<1>9. ASSUME NEW r \in Run, Delivering(r), ~Rename(r), ~Notify(r)
      PROVE  DriveTypes'
  BY <1>9 DEF Delivering, Deliver, NameSave, Reuse, Complete, DriveTypes
<1>10. ASSUME NEW r \in Run,
              Acquire(r) \/ Skip(r) \/ Load(r) \/ Create(r) \/ ReadStep(r)
              \/ Check(r) \/ Abort(r) \/ Close(r) \/ Crash(r)
       PROVE  DriveTypes'
  BY <1>10 DEF Acquire, Skip, Load, Create, ReadStep, Check, Abort, Close,
     Crash, DriveTypes
<1>11. CASE Forget \/ LoseLock
  BY <1>11 DEF Forget, LoseLock, DriveTypes
<1>12. QED
  BY <1>1, <1>2, <1>3, <1>4, <1>5, <1>6, <1>7, <1>8, <1>9, <1>10, <1>11
     DEF Next, Proceed

\* What a step of r leaves to the other runs: confirmed steps, the decision,
\* their own placeholders, the files they made.
Stable(r) ==
    /\ batch.status = "copied" => batch' = batch
    /\ Decided => outcome' = outcome
    /\ \A s \in Stage : Copied(s) => /\ step'[s].status = "copied"
                                     /\ step'[s].attempt = step[s].attempt
                                     /\ step'[s].from = step[s].from
    /\ \A s \in Stage : (step[s].status = "copying" /\ step[s].attempt # r)
                         => step'[s] = step[s]
    /\ \A s \in Stage, q \in Run \ {r} :
          file'[<<s, q>>] = file[<<s, q>>] \/ (s = "filled" /\ Copied(s))
    /\ late' \ {r} \subseteq late
    /\ \A q \in Run \ {r} : /\ pc'[q] = pc[q]
                             /\ stage'[q] = stage[q]
                             /\ seen'[q] = seen[q]
                             /\ result'[q] = result[q]

RunStep(r) == Acquire(r) \/ Proceed(r) \/ Crash(r) \/ LateWrite(r)

\* A run does not touch the local variables of another.
LEMMA FixedLocals ==
    ASSUME TypeOK, NEW r \in Run, RunStep(r), NEW q \in Run \ {r}
    PROVE  /\ pc'[q] = pc[q]
           /\ stage'[q] = stage[q]
           /\ seen'[q] = seen[q]
           /\ result'[q] = result[q]
<1> USE DEF TypeOK, RunTypes, local, Goto, Fail, Answer
<1>1. CASE Copying(r)
  BY <1>1 DEF Copying, GetStep, BeginStep, CopyOk, CopyRejected, CopyUnknown,
     CancelStep, FinishStep
<1>2. CASE Filling(r)
  BY <1>2 DEF Filling, Decide, FillGet, Claim, FillWrite, FillWriteLost,
     FillReturn, FinishFill, Details, FillFault, FillError, Save
<1>3. CASE Delivering(r)
  BY <1>3 DEF Delivering, Deliver, Rename, NameSave, Reuse, Complete, Notify
<1>4. CASE Acquire(r) \/ Skip(r) \/ Load(r) \/ Create(r) \/ ReadStep(r)
           \/ Check(r) \/ Abort(r) \/ Close(r) \/ Crash(r) \/ LateWrite(r)
  BY <1>4 DEF Acquire, Skip, Load, Create, ReadStep, Check, Abort, Close, Crash,
     LateWrite, Discard
<1>5. QED  BY <1>1, <1>2, <1>3, <1>4 DEF RunStep, Proceed

\* Every step of a run is stable: compare-and-set and set-if-absent see to it.
LEMMA StepIsStable ==
    ASSUME Inv, NEW r \in Run, RunStep(r) PROVE Stable(r)
<1> USE DEF Inv, TypeOK, store, drive
<1>1. batch.status = "copied" => batch' = batch
  <2>1. CASE Complete(r) \/ Create(r)
    BY <2>1 DEF Complete, Create
  <2>2. CASE Copying(r)
    BY <2>2 DEF Copying, GetStep, BeginStep, CopyOk, CopyRejected, CopyUnknown,
       CancelStep, FinishStep
  <2>3. CASE Filling(r)
    BY <2>3 DEF Filling, Decide, FillGet, Claim, FillWrite, FillWriteLost,
       FillReturn, FinishFill, Details, FillFault, FillError, Save
  <2>4. CASE Deliver(r) \/ Rename(r) \/ NameSave(r) \/ Reuse(r) \/ Notify(r)
    BY <2>4 DEF Deliver, Rename, NameSave, Reuse, Notify
  <2>5. CASE Acquire(r) \/ Skip(r) \/ Load(r) \/ ReadStep(r) \/ Check(r)
             \/ Abort(r) \/ Close(r) \/ Crash(r) \/ LateWrite(r)
    BY <2>5 DEF Acquire, Skip, Load, ReadStep, Check, Abort, Close, Crash,
       LateWrite
  <2>6. QED  BY <2>1, <2>2, <2>3, <2>4, <2>5 DEF RunStep, Proceed, Delivering
<1>2. Decided => outcome' = outcome
  <2>1. CASE Copying(r)
    BY <2>1 DEF Copying, GetStep, BeginStep, CopyOk, CopyRejected, CopyUnknown,
       CancelStep, FinishStep
  <2>2. CASE Filling(r)
    BY <2>2 DEF Filling, Decide, FillGet, Claim, FillWrite, FillWriteLost,
       FillReturn, FinishFill, Details, FillFault, FillError, Save
  <2>3. CASE Delivering(r)
    BY <2>3 DEF Delivering, Deliver, Rename, NameSave, Reuse, Complete, Notify
  <2>4. CASE Acquire(r) \/ Skip(r) \/ Load(r) \/ Create(r) \/ ReadStep(r)
             \/ Check(r) \/ Abort(r) \/ Close(r) \/ Crash(r) \/ LateWrite(r)
    BY <2>4 DEF Acquire, Skip, Load, Create, ReadStep, Check, Abort, Close,
       Crash, LateWrite
  <2>5. QED  BY <2>1, <2>2, <2>3, <2>4 DEF RunStep, Proceed
<1>3. \A s \in Stage :
         /\ Copied(s) => /\ step'[s].status = "copied"
                         /\ step'[s].attempt = step[s].attempt
                         /\ step'[s].from = step[s].from
         /\ (step[s].status = "copying" /\ step[s].attempt # r)
            => step'[s] = step[s]
  <2> DEFINE Kept ==
        \A s \in Stage :
           /\ Copied(s) => /\ step'[s].status = "copied"
                           /\ step'[s].attempt = step[s].attempt
                           /\ step'[s].from = step[s].from
           /\ (step[s].status = "copying" /\ step[s].attempt # r)
              => step'[s] = step[s]
  <2>1. CASE BeginStep(r)
    BY <2>1 DEF BeginStep, Present, Copied, RecordTypes, RunTypes
  <2>2. CASE CancelStep(r)
    BY <2>2 DEF CancelStep, Mine, Copied, RecordTypes, RunTypes
  <2>3. CASE FinishStep(r)
    BY <2>3 DEF FinishStep, Mine, Copied, RecordTypes, RunTypes
  <2>4. CASE NameSave(r)
    <3>1. Copied("filled")
      BY <2>4 DEF NameSave, Holds, Knows, Placed, Records
    <3>2. QED
      BY <2>4, <3>1 DEF NameSave, Copied, RecordTypes, Stage
  <2> DEFINE Same == step' = step
  <2>5. Same => Kept
    BY DEF Copied
  <2>6. CASE GetStep(r) \/ CopyOk(r) \/ CopyRejected(r) \/ CopyUnknown(r)
    <3>1. Same
      BY <2>6 DEF GetStep, CopyOk, CopyRejected, CopyUnknown
    <3>2. QED  BY <2>5, <3>1
  <2>7. CASE Filling(r)
    <3>1. Same
      BY <2>7 DEF Filling, Decide, FillGet, Claim, FillWrite, FillWriteLost,
         FillReturn, FinishFill, Details, FillFault, FillError, Save
    <3>2. QED  BY <2>5, <3>1
  <2>8. CASE Deliver(r) \/ Rename(r) \/ Reuse(r) \/ Complete(r) \/ Notify(r)
    <3>1. Same
      BY <2>8 DEF Deliver, Rename, Reuse, Complete, Notify
    <3>2. QED  BY <2>5, <3>1
  <2>9. CASE Acquire(r) \/ Skip(r) \/ Load(r) \/ Create(r) \/ ReadStep(r)
             \/ Check(r) \/ Abort(r) \/ Close(r) \/ Crash(r) \/ LateWrite(r)
    <3>1. Same
      BY <2>9 DEF Acquire, Skip, Load, Create, ReadStep, Check, Abort, Close,
         Crash, LateWrite
    <3>2. QED  BY <2>5, <3>1
  <2>10. QED
    BY <2>1, <2>2, <2>3, <2>4, <2>6, <2>7, <2>8, <2>9
       DEF RunStep, Proceed, Copying, Delivering
<1>4. /\ late' \ {r} \subseteq late
      /\ \A s \in Stage, q \in Run \ {r} :
            file'[<<s, q>>] = file[<<s, q>>] \/ (s = "filled" /\ Copied(s))
  <2> DEFINE Kept ==
        /\ late' \ {r} \subseteq late
        /\ \A s \in Stage, q \in Run \ {r} :
              file'[<<s, q>>] = file[<<s, q>>] \/ (s = "filled" /\ Copied(s))
  <2>1. CASE CopyOk(r) \/ CopyUnknown(r)
    BY <2>1 DEF CopyOk, CopyUnknown, MakeFile, DriveTypes, FileId
  <2>2. CASE FillWrite(r)
    BY <2>2 DEF FillWrite, Token, DriveTypes, FileId, Holds, Placed, FillPC
  <2>3. CASE LateWrite(r)
    BY <2>3 DEF LateWrite, Token, DriveTypes, FileId, Holds, Knows, Placed
  <2>4. CASE FillWriteLost(r)
    BY <2>4 DEF FillWriteLost
  <2>5. CASE GetStep(r) \/ BeginStep(r) \/ CopyRejected(r) \/ CancelStep(r)
             \/ FinishStep(r)
    BY <2>5 DEF GetStep, BeginStep, CopyRejected, CancelStep, FinishStep
  <2>6. CASE Decide(r) \/ FillGet(r) \/ Claim(r) \/ FillReturn(r)
             \/ FinishFill(r) \/ Details(r) \/ FillFault(r) \/ FillError(r)
             \/ Save(r)
    BY <2>6 DEF Decide, FillGet, Claim, FillReturn, FinishFill, Details,
       FillFault, FillError, Save
  <2>7. CASE Delivering(r)
    BY <2>7 DEF Delivering, Deliver, Rename, NameSave, Reuse, Complete, Notify
  <2>8. CASE Acquire(r) \/ Skip(r) \/ Load(r) \/ Create(r) \/ ReadStep(r)
             \/ Check(r) \/ Abort(r) \/ Close(r) \/ Crash(r)
    BY <2>8 DEF Acquire, Skip, Load, Create, ReadStep, Check, Abort, Close,
       Crash
  <2>9. QED
    BY <2>1, <2>2, <2>3, <2>4, <2>5, <2>6, <2>7, <2>8
       DEF RunStep, Proceed, Copying, Filling
<1>5. QED
  BY <1>1, <1>2, <1>3, <1>4, FixedLocals DEF Stable

\* What is stable suffices for everything the other runs rely on.
LEMMA OthersHold ==
    ASSUME Inv, NEW r \in Run, Stable(r), NEW q \in Run \ {r}
    PROVE  Holds(q)'
<1> USE DEF Inv, Stable
<1>1. Holds(q) /\ stage[q] \in Stage
  BY DEF TypeOK, RunTypes
<1>2. /\ pc'[q] = pc[q]
      /\ stage'[q] = stage[q]
      /\ seen'[q] = seen[q]
      /\ result'[q] = result[q]
      /\ q \in late' => q \in late
  OBVIOUS
<1>3. /\ batch.status = "copied" => batch'.status = "copied"
      /\ Decided => Decided'
      /\ \A s \in Stage : Copied(s) => Copied(s)'
  BY DEF Decided, Copied
<1>4. Mine(q) => Mine(q)'
  BY <1>1, <1>2 DEF Mine
<1>5. (Mine(q) /\ file[<<stage[q], q>>] = NoFile)
      => file'[<<stage[q], q>>] = NoFile
  BY <1>1 DEF Mine, Copied
<1>6. QED
  BY <1>1, <1>2, <1>3, <1>4, <1>5 DEF Holds, Knows, Placed, Stage, NoFile

\* The records go on following one another.
LEMMA RecordsKept ==
    ASSUME Inv, NEW r \in Run, RunStep(r) PROVE Records'
<1> USE DEF Inv, TypeOK, store, drive
<1>1. CASE Create(r)
  <2>1. UNCHANGED <<step, outcome>>
    BY <1>1 DEF Create
  <2>2. batch' = batch \/ batch'.status = "copying"
    BY <1>1 DEF Create
  <2>3. QED
    BY <2>1, <2>2 DEF Records, Present, Copied, Decided, Wanted, Token
<1>2. CASE BeginStep(r)
  <2>1. CASE Present(stage[r])
    BY <1>2, <2>1 DEF BeginStep, Records, Present, Copied, Decided, Wanted,
       Token
  <2>2. CASE ~Present(stage[r])
    <3>1. /\ stage[r] = "filled" => Copied("original")
          /\ stage[r] = "delivery" => Decided
          /\ stage[r] \in Stage
      BY <1>2 DEF BeginStep, Holds, Knows, Placed, CopyPC, RunTypes
    <3>2. /\ UNCHANGED <<batch, outcome>>
          /\ step' = [step EXCEPT ![stage[r]] =
                        [status |-> "copying", attempt |-> r,
                         from |-> Wanted(stage[r]), name |-> "incomplete"]]
      BY <1>2, <2>2 DEF BeginStep
    <3>3. step \in [Stage -> [status : {"absent", "copying", "copied"},
                              attempt : Run \cup {None},
                              from : FileId \cup {Sheet},
                              name : Name]]
      BY DEF RecordTypes
    <3>4. /\ \A s \in Stage \ {stage[r]} : step'[s] = step[s]
          /\ step'[stage[r]].status = "copying"
          /\ step'[stage[r]].attempt = r
          /\ step'[stage[r]].from = Wanted(stage[r])
      BY <3>1, <3>2, <3>3
    <3>5. CASE stage[r] = "original"
      BY <2>2, <3>2, <3>4, <3>5
         DEF Records, Present, Copied, Decided, Wanted, Token, Stage
    <3>6. CASE stage[r] = "filled"
      BY <2>2, <3>1, <3>2, <3>4, <3>6
         DEF Records, Present, Copied, Decided, Wanted, Token, Stage
    <3>7. CASE stage[r] = "delivery"
      <4>1. step'["original"] = step["original"]
            /\ step'["filled"] = step["filled"]
        BY <3>4, <3>7 DEF Stage
      <4>2. \A s \in Stage : Wanted(s)' = Wanted(s)
        BY <3>2, <4>1 DEF Wanted, Token, Stage
      <4>3. Decided' /\ Decided /\ batch'.status # "copied"
        BY <2>2, <3>1, <3>2, <3>7 DEF Decided, Records, Copied, Present
      <4>4. \A s \in Stage : Present(s)' => /\ step'[s].attempt \in Run
                                            /\ step'[s].from = Wanted(s)'
        BY <3>4, <3>7, <4>1, <4>2 DEF Records, Present, Stage
      <4>5. outcome.from \in {"original", "filled"}
        BY <4>3 DEF Decided, RecordTypes
      <4>6. QED
        BY <3>2, <4>1, <4>3, <4>4, <4>5
           DEF Records, Present, Copied, Token, Decided
    <3>8. QED  BY <3>1, <3>5, <3>6, <3>7 DEF Stage
  <2>3. QED  BY <2>1, <2>2
<1>3. CASE CancelStep(r)
  <2>1. Mine(r) /\ stage[r] \in Stage
    BY <1>3 DEF CancelStep, Holds, Knows, Placed, RunTypes
  <2>2. QED
    BY <1>3, <2>1 DEF CancelStep, Mine, NoStep, Records, Present, Copied,
       Decided, Wanted, Token, Stage, RecordTypes
<1>4. CASE FinishStep(r)
  <2>1. Mine(r) /\ stage[r] \in Stage
    BY <1>4 DEF FinishStep, Holds, Knows, Placed, RunTypes
  <2>2. QED
    BY <1>4, <2>1 DEF FinishStep, Mine, Records, Present, Copied,
       Decided, Wanted, Token, Stage, RecordTypes
<1>5. CASE Save(r)
  <2>1. Copied("original") /\ Copied("filled")
    BY <1>5 DEF Save, Holds, Knows, Placed, FillPC
  <2>2. QED
    BY <1>5, <2>1 DEF Save, Records, Present, Copied, Decided, Wanted, Token,
       Stage
<1>6. CASE NameSave(r)
  BY <1>6 DEF NameSave, Records, Present, Copied, Decided, Wanted, Token,
     Stage, RecordTypes
<1>7. CASE Complete(r)
  <2>1. Copied("delivery")
    BY <1>7 DEF Complete, Holds, Knows, Placed
  <2>2. QED
    BY <1>7, <2>1 DEF Complete, Records, Present, Copied, Decided, Wanted,
       Token, RecordTypes
<1>8. UNCHANGED <<batch, step, outcome>> => Records'
  BY DEF Records, Present, Copied, Decided, Wanted, Token
<1>9. CASE GetStep(r) \/ CopyOk(r) \/ CopyRejected(r) \/ CopyUnknown(r)
  BY <1>8, <1>9 DEF GetStep, CopyOk, CopyRejected, CopyUnknown
<1>10. CASE Filling(r) /\ ~Save(r)
  BY <1>8, <1>10 DEF Filling, Decide, FillGet, Claim, FillWrite, FillWriteLost,
     FillReturn, FinishFill, Details, FillFault, FillError
<1>11. CASE Deliver(r) \/ Rename(r) \/ Reuse(r) \/ Notify(r)
  BY <1>8, <1>11 DEF Deliver, Rename, Reuse, Notify
<1>12. CASE Acquire(r) \/ Skip(r) \/ Load(r) \/ ReadStep(r) \/ Check(r)
            \/ Abort(r) \/ Close(r) \/ Crash(r) \/ LateWrite(r)
  BY <1>8, <1>12 DEF Acquire, Skip, Load, ReadStep, Check, Abort, Close, Crash,
     LateWrite
<1>13. QED
  BY <1>1, <1>2, <1>3, <1>4, <1>5, <1>6, <1>7, <1>9, <1>10, <1>11, <1>12
     DEF RunStep, Proceed, Copying, Delivering

\* Files are made only under a placeholder, which is deleted only without.
LEMMA FileOfStepKept ==
    ASSUME Inv, NEW r \in Run, RunStep(r) PROVE FileOfStep'
<1> USE DEF Inv, TypeOK, store, drive
<1>1. CASE BeginStep(r)
  BY <1>1 DEF BeginStep, FileOfStep, Present, RecordTypes, RunTypes, NoFile
<1>2. CASE CancelStep(r)
  <2>1. /\ Mine(r)
        /\ stage[r] \in Stage
        /\ file[<<stage[r], r>>] = NoFile
    BY <1>2 DEF CancelStep, Holds, Knows, Placed, RunTypes
  <2>2. \A q \in Run : file[<<stage[r], q>>] = NoFile
    BY <2>1 DEF Mine, FileOfStep
  <2>3. /\ file' = file
        /\ \A s \in Stage \ {stage[r]} : step'[s] = step[s]
    BY <1>2 DEF CancelStep, RecordTypes
  <2>4. QED
    BY <2>2, <2>3 DEF FileOfStep, Present, NoFile
<1>3. CASE FinishStep(r)
  <2>1. stage[r] \in Stage
    BY DEF RunTypes
  <2>2. QED
    BY <1>3, <2>1 DEF FinishStep, Mine, FileOfStep, Present, RecordTypes,
       NoFile
<1>4. CASE NameSave(r)
  BY <1>4 DEF NameSave, FileOfStep, Present, RecordTypes, NoFile, Stage
<1>5. CASE CopyOk(r) \/ CopyUnknown(r)
  <2>1. Mine(r) /\ stage[r] \in Stage
    BY <1>5 DEF CopyOk, CopyUnknown, Holds, Knows, Placed, RunTypes
  <2>2. QED
    BY <1>5, <2>1 DEF CopyOk, CopyUnknown, MakeFile, Mine, FileOfStep, Present,
       DriveTypes, FileId, NoFile
<1>6. CASE FillWrite(r) \/ LateWrite(r)
  <2>1. Copied("filled")
    BY <1>6 DEF FillWrite, LateWrite, Holds, Knows, Placed, FillPC
  <2>2. \A s \in Stage, q \in Run :
           <<s, q>> # Token("filled") => file'[<<s, q>>] = file[<<s, q>>]
    BY <1>6 DEF FillWrite, LateWrite, DriveTypes, FileId
  <2>3. step' = step
    BY <1>6 DEF FillWrite, LateWrite
  <2>4. QED
    BY <2>1, <2>2, <2>3 DEF FileOfStep, Token, Present, Copied, NoFile
<1>7. UNCHANGED <<step, file>> => FileOfStep'
  BY DEF FileOfStep, Present, NoFile
<1>8. CASE GetStep(r) \/ CopyRejected(r)
  BY <1>7, <1>8 DEF GetStep, CopyRejected
<1>9. CASE Filling(r) /\ ~FillWrite(r)
  BY <1>7, <1>9 DEF Filling, Decide, FillGet, Claim, FillWriteLost,
     FillReturn, FinishFill, Details, FillFault, FillError, Save
<1>10. CASE Delivering(r) /\ ~NameSave(r)
  BY <1>7, <1>10 DEF Delivering, Deliver, Rename, Reuse, Complete, Notify
<1>11. CASE Acquire(r) \/ Skip(r) \/ Load(r) \/ Create(r) \/ ReadStep(r)
            \/ Check(r) \/ Abort(r) \/ Close(r) \/ Crash(r)
  BY <1>7, <1>11 DEF Acquire, Skip, Load, Create, ReadStep, Check, Abort,
     Close, Crash
<1>12. QED
  BY <1>1, <1>2, <1>3, <1>4, <1>5, <1>6, <1>8, <1>9, <1>10, <1>11
     DEF RunStep, Proceed, Copying

\* None of the checks that report a contradiction can fail.
LEMMA NoContradiction ==
    ASSUME Inv, NEW r \in Run
    PROVE  /\ (pc[r] = "get" /\ Present(stage[r]))
              => step[stage[r]].from = Wanted(stage[r])
           /\ seen[r] = "copied" => Decided
           /\ pc[r] = "deliver" => outcome.token = Token(outcome.from)
           /\ (pc[r] = "complete" /\ seen[r] = "copied")
              => batch.target = Token("delivery")
<1> USE DEF Inv
<1>1. Holds(r) /\ stage[r] \in Stage
  BY DEF TypeOK, RunTypes
<1>2. seen[r] = "copied" => Copied("delivery") /\ Decided
  BY <1>1 DEF Holds, Knows, Placed, Records, Copied, Present
<1>3. QED
  BY <1>1, <1>2 DEF Holds, Knows, Placed, Records

\* What a run learns is true, and it never reports a contradiction.
LEMMA OwnKnows ==
    ASSUME Inv, NEW r \in Run, RunStep(r), Stable(r), RunTypes'
    PROVE  Knows(r)'
<1> USE DEF Inv, TypeOK, RunTypes, local, drive, store
<1>1. /\ batch.status = "copied" => batch'.status = "copied"
      /\ Copied("filled") => Copied("filled")'
      /\ Holds(r)
  BY DEF Stable, Copied, Stage
<1>2. seen'[r] \in {seen[r], "absent", "copying"} \/ seen'[r] = batch.status
  <2>1. CASE Copying(r)
    BY <2>1 DEF Copying, GetStep, BeginStep, CopyOk, CopyRejected, CopyUnknown,
       CancelStep, FinishStep
  <2>2. CASE Filling(r)
    BY <2>2 DEF Filling, Decide, FillGet, Claim, FillWrite, FillWriteLost,
       FillReturn, FinishFill, Details, FillFault, FillError, Save
  <2>3. CASE Delivering(r)
    BY <2>3 DEF Delivering, Deliver, Rename, NameSave, Reuse, Complete, Notify
  <2>4. CASE Acquire(r) \/ Skip(r) \/ Load(r) \/ Create(r) \/ ReadStep(r)
             \/ Check(r) \/ Abort(r) \/ Close(r) \/ Crash(r) \/ LateWrite(r)
    BY <2>4 DEF Acquire, Skip, Load, Create, ReadStep, Check, Abort, Close,
       Crash, LateWrite, Discard
  <2>5. QED  BY <2>1, <2>2, <2>3, <2>4 DEF RunStep, Proceed
<1>3. r \in late' => r \in late \/ Copied("filled")
  <2>1. CASE Copying(r)
    BY <2>1 DEF Copying, GetStep, BeginStep, CopyOk, CopyRejected, CopyUnknown,
       CancelStep, FinishStep
  <2>2. CASE Filling(r)
    BY <1>1, <2>2 DEF Filling, Decide, FillGet, Claim, FillWrite, FillWriteLost,
       FillReturn, FinishFill, Details, FillFault, FillError, Save, Holds,
       Placed, FillPC
  <2>3. CASE Delivering(r)
    BY <2>3 DEF Delivering, Deliver, Rename, NameSave, Reuse, Complete, Notify
  <2>4. CASE Acquire(r) \/ Skip(r) \/ Load(r) \/ Create(r) \/ ReadStep(r)
             \/ Check(r) \/ Abort(r) \/ Close(r) \/ Crash(r) \/ LateWrite(r)
    BY <2>4 DEF Acquire, Skip, Load, Create, ReadStep, Check, Abort, Close,
       Crash, LateWrite
  <2>5. QED  BY <2>1, <2>2, <2>3, <2>4 DEF RunStep, Proceed
<1>4. result'[r] # "corrupt"
  <2> USE DEF Goto, Fail, Answer
  <2>1. result[r] # "corrupt"
    BY <1>1 DEF Holds, Knows
  <2>2. CASE Check(r) \/ GetStep(r) \/ Decide(r) \/ Deliver(r) \/ Reuse(r)
    BY <2>1, <2>2, NoContradiction DEF Check, GetStep, Decide, Deliver, Reuse
  <2>3. CASE Copying(r) /\ ~GetStep(r)
    BY <2>1, <2>3 DEF Copying, BeginStep, CopyOk, CopyRejected, CopyUnknown,
       CancelStep, FinishStep
  <2>4. CASE Filling(r) /\ ~Decide(r)
    BY <2>1, <2>4 DEF Filling, FillGet, Claim, FillWrite, FillWriteLost,
       FillReturn, FinishFill, Details, FillFault, FillError, Save
  <2>5. CASE Rename(r) \/ NameSave(r) \/ Complete(r) \/ Notify(r)
    BY <2>1, <2>5 DEF Rename, NameSave, Complete, Notify
  <2>6. CASE Acquire(r) \/ Skip(r) \/ Load(r) \/ Create(r) \/ ReadStep(r)
             \/ Abort(r) \/ Close(r) \/ Crash(r) \/ LateWrite(r)
    BY <2>1, <2>6 DEF Acquire, Skip, Load, Create, ReadStep, Abort, Close,
       Crash, LateWrite
  <2>7. QED
    BY <2>2, <2>3, <2>4, <2>5, <2>6 DEF RunStep, Proceed, Delivering
<1>5. QED
  BY <1>1, <1>2, <1>3, <1>4 DEF Holds, Knows

\* Wherever a run goes, it finds there what it relies on.
LEMMA OwnPlaced ==
    ASSUME Inv, NEW r \in Run, RunStep(r), Stable(r), Records', RunTypes'
    PROVE  Placed(r)'
<1> USE DEF Inv, TypeOK, store, drive, local, Goto, Fail, Answer, RunTypes
<1>1. /\ Decided => Decided'
      /\ \A s \in Stage : Copied(s) => Copied(s)'
      /\ stage[r] \in Stage
      /\ Placed(r)
  BY DEF Stable, Decided, Copied, Holds
<1>2. ASSUME pc'[r] \notin CopyPC \cup FillPC \cup
                {"deliver", "rename", "namesave", "complete"},
             pc'[r] \in {"idle", "load", "create", "check"}
                => stage'[r] = "original"
      PROVE  Placed(r)'
  BY <1>2 DEF Placed, CopyPC, FillPC
<1>3. ASSUME pc'[r] \in FillPC, Copied("original"), Copied("filled")
      PROVE  Placed(r)'
  BY <1>1, <1>3 DEF Placed, CopyPC, FillPC, Stage
<1>4. ASSUME pc'[r] \in {"get", "begin"},
             stage'[r] = "filled" => Copied("original")',
             stage'[r] = "delivery" => Decided'
      PROVE  Placed(r)'
  BY <1>1, <1>4 DEF Placed, CopyPC, FillPC, Stage
<1>5. ASSUME pc'[r] \in {"deliver", "rename", "namesave"}, Decided'
      PROVE  Placed(r)'
  BY <1>5 DEF Placed, CopyPC, FillPC
<1>6. ASSUME pc'[r] = "complete", Copied("delivery")'
      PROVE  Placed(r)'
  BY <1>6 DEF Placed, CopyPC, FillPC
<1>7. CASE Acquire(r) \/ Skip(r) \/ Load(r) \/ Create(r) \/ Abort(r)
           \/ Close(r) \/ Crash(r) \/ CopyUnknown(r) \/ CancelStep(r)
           \/ Reuse(r) \/ Complete(r) \/ Notify(r)
  <2>1. /\ pc'[r] \in {"load", "create", "read", "notify", "closing", "done",
                         "dead"}
        /\ pc'[r] = "load" => pc[r] = "idle" /\ stage' = stage
        /\ pc'[r] = "create" => pc[r] = "load" /\ stage' = stage
    BY <1>7 DEF Acquire, Skip, Load, Create, Abort, Close, Crash, CopyUnknown,
       CancelStep, Reuse, Complete, Notify
  <2>2. QED
    BY <1>1, <1>2, <2>1 DEF Placed, CopyPC, FillPC
<1>8. CASE ReadStep(r) \/ Check(r)
  <2>1. CASE ReadStep(r)
    <3>1. /\ pc'[r] \in {"read", "check"}
          /\ pc'[r] = "check" => stage'[r] = "original"
      BY <2>1 DEF ReadStep, NextStep
    <3>2. QED  BY <1>2, <3>1 DEF CopyPC, FillPC
  <2>2. CASE Check(r)
    <3>1. pc'[r] \in {"get", "closing"} /\ stage'[r] = "original"
      BY <1>1, <2>2 DEF Check, Placed
    <3>2. QED  BY <1>2, <1>4, <3>1 DEF CopyPC, FillPC
  <2>3. QED  BY <1>8, <2>1, <2>2
<1>9. ASSUME NEW s \in Stage, s = stage[r],
             pc[r] \in CopyPC,
             Copied(s)',
             pc'[r] = After(s),
             stage'[r] = NextStage(s)
      PROVE  Placed(r)'
  <2>1. CASE s = "original"
    BY <1>4, <1>9, <2>1 DEF After, NextStage
  <2>2. CASE s = "filled"
    <3>1. pc'[r] = "decide" /\ Copied("original")' /\ Copied("filled")'
      BY <1>1, <1>9, <2>2 DEF After, Placed, Stage
    <3>2. QED
      BY <3>1 DEF Placed, CopyPC, FillPC
  <2>3. CASE s = "delivery"
    BY <1>6, <1>9, <2>3 DEF After
  <2>4. QED  BY <2>1, <2>2, <2>3 DEF Stage
<1>10. CASE GetStep(r)
  <2>1. CASE pc'[r] = "closing"
    BY <1>2, <2>1 DEF CopyPC, FillPC
  <2>2. CASE pc'[r] = "begin"
    <3>1. stage'[r] = stage[r]
      BY <1>1, <1>10, <2>2 DEF GetStep, After, Stage
    <3>2. QED
      BY <1>1, <1>4, <1>10, <2>2, <3>1 DEF GetStep, Placed, CopyPC, Stage
  <2>3. CASE pc'[r] \notin {"closing", "begin"}
    <3>1. PICK s \in Stage : s = stage[r]
      BY <1>1
    <3>2. /\ Copied(s) /\ Copied(s)'
          /\ pc'[r] = After(s) /\ stage'[r] = NextStage(s)
          /\ pc[r] = "get"
      BY <1>1, <1>10, <2>3, <3>1 DEF GetStep, Copied
    <3>3. QED
      BY <1>9, <3>1, <3>2 DEF CopyPC
  <2>4. QED  BY <2>1, <2>2, <2>3
<1>11. CASE FinishStep(r)
  <2>1. CASE pc'[r] = "closing"
    BY <1>2, <2>1 DEF CopyPC, FillPC
  <2>2. CASE pc'[r] # "closing"
    <3>1. PICK s \in Stage : s = stage[r]
      BY <1>1
    <3>2. /\ Copied(s)'
          /\ pc'[r] = After(s) /\ stage'[r] = NextStage(s)
          /\ pc[r] = "finish"
      BY <1>1, <1>11, <2>2, <3>1 DEF FinishStep, Copied, RecordTypes
    <3>3. QED
      BY <1>9, <3>1, <3>2 DEF CopyPC
  <2>3. QED  BY <2>1, <2>2
<1>12. CASE BeginStep(r)
  <2>1. CASE pc'[r] = "closing"
    BY <1>2, <2>1 DEF CopyPC, FillPC
  <2>2. CASE pc'[r] # "closing"
    <3>1. /\ ~Present(stage[r])
          /\ pc'[r] = "copy" /\ stage'[r] = stage[r]
          /\ file' = file
      BY <1>12, <2>2 DEF BeginStep
    <3>2. Mine(r)'
      BY <1>1, <1>12, <3>1 DEF BeginStep, Mine, RecordTypes
    <3>3. file[<<stage[r], r>>] = NoFile
      BY <1>1, <3>1 DEF FileOfStep
    <3>4. QED
      BY <1>1, <1>12, <3>1, <3>2, <3>3
         DEF BeginStep, Placed, CopyPC, FillPC, Stage, NoFile
  <2>3. QED  BY <2>1, <2>2
<1>13. CASE CopyOk(r) \/ CopyRejected(r)
  <2>1. /\ pc[r] = "copy"
        /\ pc'[r] \in {"finish", "cancel"}
        /\ stage'[r] = stage[r]
        /\ step' = step
        /\ pc'[r] = "cancel" => file' = file
    BY <1>13 DEF CopyOk, CopyRejected
  <2>2. Mine(r)'
    BY <1>1, <2>1 DEF Placed, Mine
  <2>3. QED
    BY <1>1, <2>1, <2>2 DEF Placed, CopyPC, FillPC, Stage, NoFile
<1>14. CASE Filling(r)
  <2>1. pc[r] \in FillPC
    BY <1>14 DEF Filling, Decide, FillGet, Claim, FillWrite, FillWriteLost,
       FillReturn, FinishFill, Details, FillFault, FillError, Save, FillPC
  <2>2. Copied("original") /\ Copied("filled")
    BY <1>1, <2>1 DEF Placed
  <2>3. \/ pc'[r] \in FillPC
        \/ pc'[r] = "closing"
        \/ pc'[r] = "deliver" /\ Decided'
    <3>1. CASE Save(r)
      BY <3>1, <2>2 DEF Save, Decided
    <3>2. CASE Filling(r) /\ ~Save(r)
      BY <1>1, <3>2 DEF Filling, Decide, FillGet, Claim, FillWrite,
         FillWriteLost, FillReturn, FinishFill, Details, FillFault, FillError,
         FillPC
    <3>3. QED  BY <1>14, <3>1, <3>2
  <2>4. QED
    BY <1>2, <1>3, <1>5, <2>2, <2>3 DEF CopyPC, FillPC
<1>15. CASE Deliver(r)
  <2>1. Decided /\ Decided'
    BY <1>1, <1>15 DEF Deliver, Placed
  <2>2. \/ pc'[r] \in {"closing", "rename"}
        \/ pc'[r] = "get" /\ stage'[r] = "delivery"
    BY <1>15 DEF Deliver
  <2>3. QED
    BY <1>2, <1>4, <1>5, <2>1, <2>2 DEF CopyPC, FillPC
<1>16. CASE Rename(r) \/ NameSave(r)
  <2>1. Decided /\ Decided'
    BY <1>1, <1>16 DEF Rename, NameSave, Placed
  <2>2. \/ pc'[r] \in {"closing", "namesave"}
        \/ pc'[r] = "get" /\ stage'[r] = "delivery"
    BY <1>16 DEF Rename, NameSave
  <2>3. QED
    BY <1>2, <1>4, <1>5, <2>1, <2>2 DEF CopyPC, FillPC
<1>17. CASE LateWrite(r)
  <2>1. /\ pc'[r] = pc[r] /\ stage'[r] = stage[r]
        /\ step' = step
        /\ Copied("filled")
    BY <1>17 DEF LateWrite, Holds, Knows
  <2>2. Mine(r) => Mine(r)'
    BY <2>1 DEF Mine
  <2>3. Mine(r) => file'[<<stage[r], r>>] = file[<<stage[r], r>>]
    BY <1>1, <1>17, <2>1 DEF LateWrite, Mine, Copied, Token, DriveTypes, FileId
  <2>4. QED
    BY <1>1, <2>1, <2>2, <2>3 DEF Placed, CopyPC, FillPC, Stage, NoFile
<1>18. QED
  BY <1>7, <1>8, <1>10, <1>11, <1>12, <1>13, <1>14, <1>15, <1>16, <1>17
     DEF RunStep, Proceed, Copying, Delivering

\* The invariant holds at first.
LEMMA InitInv == Init => Inv
<1> SUFFICES ASSUME Init PROVE Inv
  OBVIOUS
<1>1. LockTypes
  <2>1. owner = None /\ grace = [r \in Run |-> 0] /\ doubt = FALSE
    BY DEF Init
  <2>2. 0 \in 0..Grace
    BY ThreeCopyAssumption
  <2>3. QED
    BY <2>1, <2>2 DEF LockTypes
<1> USE DEF Init
<1>2. RecordTypes
  BY DEF RecordTypes, NoBatch, NoStep, NoFill, NoOutcome, Name, Verdict
<1>3. DriveTypes
  BY DEF DriveTypes, NoFile, Name
<1>4. RunTypes
  BY DEF RunTypes, PC, Result, Stage, Name, Verdict, NothingKnown
<1>5. Records
  BY DEF Records, Present, Decided, NoStep, NoOutcome, NoBatch, Stage
<1>6. FileOfStep
  BY DEF FileOfStep, FileId
<1>7. \A r \in Run : Holds(r)
  BY DEF Holds, Knows, Placed, CopyPC, FillPC
<1>8. QED
  BY <1>1, <1>2, <1>3, <1>4, <1>5, <1>6, <1>7 DEF Inv, TypeOK

\* Every step keeps the invariant.
LEMMA NextInv == Inv /\ [Next]_vars => Inv'
<1> SUFFICES ASSUME Inv, [Next]_vars PROVE Inv'
  OBVIOUS
<1>1. TypeOK'
  BY LockTyped, RunTyped, RecordTyped, DriveTyped DEF Inv, TypeOK
<1>2. ASSUME NEW r \in Run, RunStep(r) PROVE Inv'
  <2>1. Stable(r) /\ Records' /\ FileOfStep'
    BY <1>2, StepIsStable, RecordsKept, FileOfStepKept
  <2>2. Holds(r)'
    BY <1>1, <1>2, <2>1, OwnKnows, OwnPlaced DEF Holds, TypeOK
  <2>3. \A q \in Run \ {r} : Holds(q)'
    BY <2>1, OthersHold
  <2>4. QED
    BY <1>1, <2>1, <2>2, <2>3 DEF Inv
<1>3. CASE Forget \/ LoseLock \/ Edit \/ UNCHANGED vars
  <2>1. UNCHANGED <<store, file, late, pc, stage, seen, result>>
    BY <1>3 DEF Forget, LoseLock, Edit, vars, store, drive, local
  <2>2. Records' /\ FileOfStep'
    BY <2>1 DEF Inv, store, Records, FileOfStep, Present, Copied, Decided,
       Wanted, Token, NoFile
  <2>3. \A r \in Run : Holds(r)'
    BY <2>1 DEF Inv, store, Holds, Knows, Placed, Copied, Decided, Mine,
       CopyPC, FillPC, NoFile
  <2>4. QED
    BY <1>1, <2>2, <2>3 DEF Inv
<1>4. QED
  BY <1>2, <1>3 DEF Next, RunStep

\* The inductive invariant holds.
THEOREM Invariant == Spec => []Inv
  BY InitInv, NextInv, PTL DEF Spec

\* The type invariant, for every instance.
THEOREM Types == Spec => []TypeOK
  BY Invariant, PTL DEF Inv

\* A stage makes at most one file, for any number of runs and of requests
\* that land after the lock.
THEOREM OneFile == Spec => []OneFilePerStage
<1>1. Inv => OneFilePerStage
  BY DEF Inv, FileOfStep, OneFilePerStage
<1>2. QED
  BY <1>1, Invariant, PTL

\* The records of a batch never contradict one another in Redis, whatever
\* requests land after the lock.
THEOREM Consistent == Spec => []RecordsAgree
<1>1. Inv => RecordsAgree
  <2> SUFFICES ASSUME Inv PROVE RecordsAgree
    OBVIOUS
  <2>1. Records
    BY DEF Inv
  <2>2. step["filled"].from = Wanted("filled") \/ ~Present("filled")
    BY <2>1 DEF Records, Stage
  <2>3. step["delivery"].from = Wanted("delivery") \/ ~Present("delivery")
    BY <2>1 DEF Records, Stage
  <2>4. QED
    BY <2>1, <2>2, <2>3 DEF Records, RecordsAgree, Wanted, Copied
<1>2. QED
  BY <1>1, Invariant, PTL
-----------------------------------------------------------------------------
(***************************************************************************)
(* What the three copies of a batch deliver, for any number of runs and    *)
(* editions: names, announcements, contents, and that module Delivery      *)
(* is implemented.                                                         *)
(*                                                                         *)
(* The invariant of the records is extended by named parts.  Begun,        *)
(* Claims, Made, Names and Cards hold for any Grace, also if the report of *)
(* a fill gets lost (ReportFails).  Contents and Writes say what the files *)
(* hold, and who may still write to them; they need every report to be     *)
(* saved, for after a lost one nobody knows whether something was filled.  *)
(* Alone holds as long as no lock of a run that may be alive was lost.     *)
(***************************************************************************)

-----------------------------------------------------------------------------
(* What a step of a run may write, and where a run comes from.             *)

\* Which steps of a run write which record or file.
LEMMA SharedWrites ==
    ASSUME NEW r \in Run, RunStep(r)
    PROVE  /\ batch' = batch \/ Create(r) \/ Complete(r)
           /\ \/ step' = step
              \/ BeginStep(r) \/ CancelStep(r) \/ FinishStep(r) \/ NameSave(r)
           /\ fill' = fill \/ Claim(r) \/ FinishFill(r)
           /\ outcome' = outcome \/ Save(r)
           /\ \/ file' = file
              \/ CopyOk(r) \/ CopyUnknown(r) \/ FillWrite(r) \/ LateWrite(r)
           /\ title' = title \/ Rename(r)
           /\ late' = late \/ FillWriteLost(r) \/ LateWrite(r)
           /\ announced' = announced \/ Notify(r)
           /\ edition' = edition
<1> USE DEF store, drive
<1>1. CASE Copying(r)
  BY <1>1 DEF Copying, GetStep, BeginStep, CopyOk, CopyRejected, CopyUnknown,
     CancelStep, FinishStep
<1>2. CASE Filling(r)
  BY <1>2 DEF Filling, Decide, FillGet, Claim, FillWrite, FillWriteLost,
     FillReturn, FinishFill, Details, FillFault, FillError, Save
<1>3. CASE Delivering(r)
  BY <1>3 DEF Delivering, Deliver, Rename, NameSave, Reuse, Complete, Notify
<1>4. CASE Acquire(r) \/ Skip(r) \/ Load(r) \/ Create(r) \/ ReadStep(r)
           \/ Check(r) \/ Abort(r) \/ Close(r) \/ Crash(r) \/ LateWrite(r)
  BY <1>4 DEF Acquire, Skip, Load, Create, ReadStep, Check, Abort, Close, Crash,
     LateWrite
<1>5. QED  BY <1>1, <1>2, <1>3, <1>4 DEF RunStep, Proceed

\* Which steps of a run change what the run itself remembers.
LEMMA LocalWrites ==
    ASSUME NEW r \in Run, RunStep(r)
    PROVE  /\ seen' = seen \/ Load(r) \/ Create(r) \/ Close(r) \/ Crash(r)
           /\ \/ name' = name
              \/ GetStep(r) \/ FinishStep(r) \/ NameSave(r)
              \/ Close(r) \/ Crash(r)
           /\ \/ verdict' = verdict
              \/ FillGet(r) \/ FillWriteLost(r) \/ FillReturn(r)
              \/ Close(r) \/ Crash(r)
           /\ \/ degraded' = degraded
              \/ Details(r) \/ FillError(r) \/ Close(r) \/ Crash(r)
           /\ writing' = writing \/ FillWrite(r) \/ Close(r) \/ Crash(r)
           /\ \/ known' = known
              \/ ReadStep(r) \/ Check(r) \/ Close(r) \/ Crash(r)
<1> USE DEF local
<1>1. CASE Copying(r)
  BY <1>1 DEF Copying, GetStep, BeginStep, CopyOk, CopyRejected, CopyUnknown,
     CancelStep, FinishStep
<1>2. CASE Filling(r)
  BY <1>2 DEF Filling, Decide, FillGet, Claim, FillWrite, FillWriteLost,
     FillReturn, FinishFill, Details, FillFault, FillError, Save
<1>3. CASE Delivering(r)
  BY <1>3 DEF Delivering, Deliver, Rename, NameSave, Reuse, Complete, Notify
<1>4. CASE Acquire(r) \/ Skip(r) \/ Load(r) \/ Create(r) \/ ReadStep(r)
           \/ Check(r) \/ Abort(r) \/ Close(r) \/ Crash(r) \/ LateWrite(r)
  BY <1>4 DEF Acquire, Skip, Load, Create, ReadStep, Check, Abort, Close, Crash,
     LateWrite
<1>5. QED  BY <1>1, <1>2, <1>3, <1>4 DEF RunStep, Proceed

\* The rest of what a run remembers is its own too.
LEMMA OwnLocals ==
    ASSUME TypeOK, NEW r \in Run, RunStep(r), NEW q \in Run \ {r}
    PROVE  /\ name'[q] = name[q]
           /\ verdict'[q] = verdict[q]
           /\ degraded'[q] = degraded[q]
           /\ writing'[q] = writing[q]
           /\ known'[q] = known[q]
<1> USE DEF TypeOK, RunTypes
<1>1. name'[q] = name[q]
  BY LocalWrites DEF GetStep, FinishStep, NameSave, Close, Crash, Discard
<1>2. verdict'[q] = verdict[q]
  BY LocalWrites DEF FillGet, FillWriteLost, FillReturn, Close, Crash, Discard
<1>3. degraded'[q] = degraded[q]
  BY LocalWrites DEF Details, FillError, Degrade, Close, Crash, Discard
<1>4. writing'[q] = writing[q]
  BY LocalWrites DEF FillWrite, Close, Crash, Discard
<1>5. known'[q] = known[q]
  BY LocalWrites DEF ReadStep, Check, Close, Crash, Discard
<1>6. QED  BY <1>1, <1>2, <1>3, <1>4, <1>5

\* Where a run comes from when it arrives at a place.
LEMMA Arrivals ==
    ASSUME TypeOK, NEW r \in Run, RunStep(r), pc'[r] # pc[r]
    PROVE  /\ pc'[r] = "load" => Acquire(r)
           /\ pc'[r] = "create" => Load(r)
           /\ pc'[r] = "read" => Load(r) \/ Create(r)
           /\ pc'[r] = "check" => ReadStep(r)
           /\ pc'[r] = "begin" => GetStep(r)
           /\ pc'[r] = "copy" => BeginStep(r)
           /\ pc'[r] = "cancel" => CopyRejected(r)
           /\ pc'[r] = "finish" => CopyOk(r)
           /\ pc'[r] = "decide" => GetStep(r) \/ FinishStep(r)
           /\ pc'[r] = "fillget" => Decide(r)
           /\ pc'[r] = "claim" => FillGet(r)
           /\ pc'[r] = "filling" => Claim(r)
           /\ pc'[r] = "finishfill" => FillWriteLost(r) \/ FillReturn(r)
           /\ pc'[r] = "details" => FillGet(r) \/ FinishFill(r)
           /\ pc'[r] = "fillerror" =>
                 Claim(r) \/ FinishFill(r) \/ FillFault(r)
           /\ pc'[r] = "save" => Decide(r) \/ Details(r) \/ FillError(r)
           /\ pc'[r] = "deliver" => Decide(r) \/ Save(r)
           /\ pc'[r] = "rename" => Deliver(r)
           /\ pc'[r] = "namesave" => Rename(r)
           /\ pc'[r] = "complete" => GetStep(r) \/ FinishStep(r)
           /\ pc'[r] = "notify" => Complete(r)
           /\ pc'[r] = "get" => Check(r) \/ FinishStep(r) \/ Deliver(r)
                                \/ NameSave(r)
<1> USE DEF TypeOK, RunTypes, local, Goto, Fail, Answer
<1>1. CASE Copying(r)
  BY <1>1 DEF Copying, GetStep, BeginStep, CopyOk, CopyRejected, CopyUnknown,
     CancelStep, FinishStep, After, Stage
<1>2. CASE Filling(r)
  BY <1>2 DEF Filling, Decide, FillGet, Claim, FillWrite, FillWriteLost,
     FillReturn, FinishFill, Details, FillFault, FillError, Save
<1>3. CASE Delivering(r)
  BY <1>3 DEF Delivering, Deliver, Rename, NameSave, Reuse, Complete, Notify
<1>4. CASE Acquire(r) \/ Skip(r) \/ Load(r) \/ Create(r) \/ ReadStep(r)
           \/ Check(r) \/ Abort(r) \/ Close(r) \/ Crash(r) \/ LateWrite(r)
  BY <1>4 DEF Acquire, Skip, Load, Create, ReadStep, Check, Abort, Close, Crash,
     LateWrite
<1>5. QED  BY <1>1, <1>2, <1>3, <1>4 DEF RunStep, Proceed

\* A run that stays where it is writes to the sheet, reads the next step, or
\* looks at its next stage.
LEMMA Stays ==
    ASSUME TypeOK, NEW r \in Run, RunStep(r), pc'[r] = pc[r]
    PROVE  \/ FillWrite(r) \/ LateWrite(r)
           \/ GetStep(r) /\ stage[r] = "original" /\ stage'[r] = "filled"
           \/ ReadStep(r) /\ pc[r] = "read"
<1> USE DEF TypeOK, RunTypes, local, Goto, Fail, Answer
<1>1. CASE Copying(r)
  BY <1>1 DEF Copying, GetStep, BeginStep, CopyOk, CopyRejected, CopyUnknown,
     CancelStep, FinishStep, After, NextStage, Stage
<1>2. CASE Filling(r)
  BY <1>2 DEF Filling, Decide, FillGet, Claim, FillWrite, FillWriteLost,
     FillReturn, FinishFill, Details, FillFault, FillError, Save
<1>3. CASE Delivering(r)
  BY <1>3 DEF Delivering, Deliver, Rename, NameSave, Reuse, Complete, Notify
<1>4. CASE Acquire(r) \/ Skip(r) \/ Load(r) \/ Create(r) \/ ReadStep(r)
           \/ Check(r) \/ Abort(r) \/ Close(r) \/ Crash(r) \/ LateWrite(r)
  BY <1>4 DEF Acquire, Skip, Load, Create, ReadStep, Check, Abort, Close, Crash,
     LateWrite
<1>5. QED  BY <1>1, <1>2, <1>3, <1>4 DEF RunStep, Proceed

\* Where a run is when it takes a step.
LEMMA Places ==
    ASSUME NEW r \in Run
    PROVE  /\ Acquire(r) => pc[r] = "idle"
           /\ Load(r) => pc[r] = "load"
           /\ Create(r) => pc[r] = "create"
           /\ ReadStep(r) => pc[r] = "read"
           /\ Check(r) => pc[r] = "check"
           /\ GetStep(r) => pc[r] = "get"
           /\ BeginStep(r) => pc[r] = "begin"
           /\ CopyOk(r) \/ CopyRejected(r) => pc[r] = "copy"
           /\ FinishStep(r) => pc[r] = "finish"
           /\ Decide(r) => pc[r] = "decide"
           /\ FillGet(r) => pc[r] = "fillget"
           /\ Claim(r) => pc[r] = "claim"
           /\ FillWriteLost(r) \/ FillReturn(r) => pc[r] = "filling"
           /\ FinishFill(r) => pc[r] = "finishfill"
           /\ Details(r) => pc[r] = "details"
           /\ FillError(r) => pc[r] = "fillerror"
           /\ FillFault(r) => pc[r] \in {"fillget", "claim", "finishfill",
                                         "details"}
           /\ Save(r) => pc[r] = "save"
           /\ Deliver(r) => pc[r] = "deliver"
           /\ Rename(r) => pc[r] = "rename"
           /\ NameSave(r) => pc[r] = "namesave"
           /\ Complete(r) => pc[r] = "complete"
  BY DEF Acquire, Load, Create, ReadStep, Check, GetStep, BeginStep, CopyOk,
     CopyRejected, FinishStep, Decide, FillGet, Claim, FillWriteLost,
     FillReturn, FinishFill, Details, FillError, FillFault, Save, Deliver,
     Rename, NameSave, Complete

-----------------------------------------------------------------------------
(* What has begun: no record before there is a batch.                      *)

\* Places of a run that has not found or made a batch, or has given up.
OutPC == {"idle", "load", "create", "closing", "done", "dead"}
FillingPC == FillPC \ {"decide", "save"}

\* Nothing is recorded, and nobody is at work, before there is a batch.
Begun ==
    /\ Decided => batch.status # "absent"
    /\ \A r \in Run : pc[r] \notin OutPC => batch.status # "absent"
    /\ \A r \in Run : pc[r] = "notify" => batch.status = "copied"
    /\ fill.status # "absent" => /\ Copied("filled")
                                 /\ batch.status # "absent"
                                 /\ batch.enabled # {}
    /\ \A r \in Run : pc[r] \in FillingPC => batch.enabled # {}

\* A batch stays, and so do the switches it was made with.
LEMMA BatchStays ==
    ASSUME Inv, NEW r \in Run, RunStep(r), batch.status # "absent"
    PROVE  batch'.status # "absent" /\ batch'.enabled = batch.enabled
<1> USE DEF Inv, TypeOK, RecordTypes
<1>1. CASE Create(r)
  BY <1>1 DEF Create
<1>2. CASE Complete(r)
  BY <1>2 DEF Complete
<1>3. QED  BY <1>1, <1>2, SharedWrites

\* Every step of a run keeps Begun.
LEMMA BegunKept ==
    ASSUME Inv, TypeOK', Begun, NEW r \in Run, RunStep(r)
    PROVE  Begun'
<1> USE DEF Inv, TypeOK
<1>1. Stable(r) /\ Placed(r) /\ pc[r] \in PC /\ pc'[r] \in PC
  BY StepIsStable DEF Holds, RunTypes
<1>2. /\ batch.status # "absent" => /\ batch'.status # "absent"
                                    /\ batch'.enabled = batch.enabled
      /\ \A q \in Run \ {r} : pc'[q] = pc[q]
      /\ Copied("filled") => Copied("filled")'
      /\ batch.status = "copied" => batch'.status = "copied"
  BY <1>1, BatchStays DEF Stable, Copied, Stage
<1>3. Decided' => batch'.status # "absent"
  <2>1. CASE Save(r)
    BY <1>2, <2>1 DEF Save, Begun, OutPC
  <2>2. CASE outcome' = outcome
    BY <1>2, <2>2 DEF Decided, Begun
  <2>3. QED  BY <2>1, <2>2, SharedWrites
<1>4. pc'[r] \notin OutPC => batch'.status # "absent"
  <2>1. CASE pc[r] \notin OutPC
    BY <1>2, <2>1 DEF Begun
  <2>2. CASE pc[r] \in OutPC /\ pc'[r] \notin OutPC
    <3>1. Load(r) \/ Create(r)
      BY <1>1, <2>2, Arrivals, Places DEF PC, OutPC
    <3>2. CASE Load(r)
      BY <1>1, <2>2, <3>2
         DEF Load, Goto, OutPC, store, drive, RunTypes
    <3>3. CASE Create(r)
      BY <1>1, <2>2, <3>3 DEF Create, Fail, OutPC, RunTypes
    <3>4. QED  BY <3>1, <3>2, <3>3
  <2>3. QED  BY <2>1, <2>2
<1>5. pc'[r] = "notify" => batch'.status = "copied"
  <2>1. CASE pc[r] = "notify"
    BY <1>2, <2>1 DEF Begun
  <2>2. CASE pc[r] # "notify" /\ pc'[r] = "notify"
    <3>1. Complete(r)
      BY <2>2, Arrivals
    <3>2. QED
      BY <2>2, <3>1 DEF Complete, Fail, RecordTypes, RunTypes
  <2>3. QED  BY <2>1, <2>2
<1>6. fill'.status # "absent" => /\ Copied("filled")'
                                 /\ batch'.status # "absent"
                                 /\ batch'.enabled # {}
  <2>2. CASE fill' = fill
    BY <1>2, <2>2 DEF Begun
  <2>3. CASE Claim(r)
    BY <1>1, <1>2, <2>3 DEF Claim, Begun, Placed, FillPC, FillingPC, OutPC
  <2>4. CASE FinishFill(r)
    BY <1>1, <1>2, <2>4 DEF FinishFill, Begun, Placed, FillPC, FillingPC,
       OutPC
  <2>5. QED  BY <2>2, <2>3, <2>4, SharedWrites
<1>7. pc'[r] \in FillingPC => batch'.enabled # {}
  <2>1. pc[r] \in FillingPC => batch'.enabled # {}
    BY <1>2 DEF Begun, FillingPC, FillPC, OutPC
  <2>2. CASE Decide(r)
    BY <1>1, <1>2, <2>2
       DEF Decide, Begun, Goto, Fail, FillingPC, FillPC, OutPC, RunTypes
  <2>3. CASE pc[r] \notin FillingPC /\ pc'[r] \in FillingPC
    <3>1. Decide(r)
      BY <2>3, Arrivals, Places DEF FillingPC, FillPC
    <3>2. QED  BY <2>2, <2>3, <3>1
  <2>4. QED  BY <2>1, <2>3
<1>8. /\ \A q \in Run : pc'[q] \notin OutPC => batch'.status # "absent"
      /\ \A q \in Run : pc'[q] = "notify" => batch'.status = "copied"
  BY <1>2, <1>4, <1>5 DEF Begun
<1>9. ASSUME NEW q \in Run, pc'[q] \in FillingPC PROVE batch'.enabled # {}
  <2>1. CASE q = r
    BY <1>7, <1>9, <2>1
  <2>2. CASE q # r
    BY <1>2, <1>9, <2>2 DEF Begun, FillingPC, FillPC, OutPC
  <2>3. QED  BY <2>1, <2>2
<1>10. QED
  BY <1>3, <1>6, <1>8, <1>9 DEF Begun

-----------------------------------------------------------------------------
(* The fill: who holds it, and what a run may believe of it.               *)

\* What is filled in the processing backup is what was planned, or there was
\* nothing to fill.
Sound == batch.enabled = {} \/ fill.status = "completed"

\* Who fills holds the record of the fill; what a run believes of the fill,
\* and what was decided on that belief, is so.
Claims ==
    /\ \A r \in Run :
          /\ pc[r] \in {"filling", "finishfill"} =>
                fill = [status |-> "running", attempt |-> r]
          /\ pc[r] = "finishfill" =>
                verdict[r] \in {"needs_review", "retryable", "completed"}
          /\ pc[r] = "details" /\ verdict[r] = "completed" =>
                fill.status = "completed"
          /\ pc[r] = "save" /\ ~degraded[r] => Sound
    /\ outcome.from = "filled" => Sound

\* A completed fill stays, and so does one that another run has in hand.
LEMMA FillStays ==
    ASSUME NEW r \in Run, RunStep(r)
    PROVE  /\ fill.status = "completed" => fill' = fill
           /\ fill.status = "running" /\ fill.attempt # r => fill' = fill
<1>1. CASE Claim(r)
  BY <1>1 DEF Claim
<1>2. CASE FinishFill(r)
  BY <1>2 DEF FinishFill
<1>3. QED  BY <1>1, <1>2, SharedWrites

\* A fill once sound stays so.
LEMMA SoundStays ==
    ASSUME Inv, Begun, NEW r \in Run, RunStep(r), batch.status # "absent",
           Sound
    PROVE  Sound'
  BY FillStays, BatchStays DEF Sound

\* What fillers report is a verdict on a fill that is over.
LEMMA Reports ==
    ASSUME NEW r \in Run
    PROVE  /\ Interrupted \subseteq {"needs_review", "retryable"}
           /\ Report(r) \subseteq {"needs_review", "retryable", "completed"}
  BY DEF Interrupted, Report

\* Every step of a run keeps Claims.
LEMMA ClaimsKept ==
    ASSUME Inv, TypeOK', Begun, Claims, NEW r \in Run, RunStep(r)
    PROVE  Claims'
<1> USE DEF Inv, TypeOK
<1>1. \A q \in Run \ {r} : /\ pc'[q] = pc[q]
                           /\ verdict'[q] = verdict[q]
                           /\ degraded'[q] = degraded[q]
  BY FixedLocals, OwnLocals
<1>2. batch.status # "absent" /\ Sound => Sound'
  BY SoundStays
<1>3. ASSUME NEW q \in Run \ {r}
      PROVE  /\ pc'[q] \in {"filling", "finishfill"} =>
                   fill' = [status |-> "running", attempt |-> q]
             /\ pc'[q] = "finishfill" =>
                   verdict'[q] \in {"needs_review", "retryable", "completed"}
             /\ pc'[q] = "details" /\ verdict'[q] = "completed" =>
                   fill'.status = "completed"
             /\ pc'[q] = "save" /\ ~degraded'[q] => Sound'
  <2>1. pc[q] \in {"filling", "finishfill"} => fill' = fill
    BY FillStays DEF Claims
  <2>2. fill.status = "completed" => fill'.status = "completed"
    BY FillStays
  <2>3. pc[q] = "save" => batch.status # "absent"
    BY DEF Begun, OutPC
  <2>4. QED
    BY <1>1, <1>2, <2>1, <2>2, <2>3 DEF Claims
<1>4. pc'[r] \in {"filling", "finishfill"} =>
         fill' = [status |-> "running", attempt |-> r]
  <2>1. CASE pc'[r] = pc[r]
    <3>1. fill' = fill \/ pc[r] \notin {"filling", "finishfill"}
      BY <2>1, Stays DEF FillWrite, LateWrite, GetStep, store
    <3>2. QED  BY <2>1, <3>1 DEF Claims
  <2>2. CASE Claim(r)
    BY <2>2 DEF Claim, Goto, RunTypes
  <2>3. CASE FillWriteLost(r) \/ FillReturn(r)
    BY <2>3 DEF FillWriteLost, FillReturn, Claims, store
  <2>4. QED
    BY <2>1, <2>2, <2>3, Arrivals
<1>5. pc'[r] = "finishfill" =>
         verdict'[r] \in {"needs_review", "retryable", "completed"}
  <2>1. CASE pc'[r] = pc[r] /\ pc[r] = "finishfill"
    BY <2>1, Stays DEF FillWrite, LateWrite, GetStep, local, Claims
  <2>2. CASE FillWriteLost(r) \/ FillReturn(r)
    BY <2>2, Reports DEF FillWriteLost, FillReturn, RunTypes
  <2>3. QED
    BY <2>1, <2>2, Arrivals
<1>6. pc'[r] = "details" /\ verdict'[r] = "completed" =>
         fill'.status = "completed"
  <2>1. CASE pc'[r] = pc[r] /\ pc[r] = "details"
    BY <2>1, Stays DEF FillWrite, LateWrite, GetStep, local, store, Claims
  <2>2. CASE FillGet(r)
    BY <2>2 DEF FillGet, store, RunTypes
  <2>3. CASE FinishFill(r)
    BY <2>3 DEF FinishFill, local, RunTypes, RecordTypes, Goto
  <2>4. QED
    BY <2>1, <2>2, <2>3, Arrivals
<1>7. pc'[r] = "save" /\ ~degraded'[r] => Sound'
  <2>1. CASE pc'[r] = pc[r] /\ pc[r] = "save"
    BY <1>2, <2>1, Stays
       DEF FillWrite, LateWrite, GetStep, local, Claims, Begun, OutPC
  <2>2. CASE Decide(r)
    BY <2>2 DEF Decide, Goto, Fail, store, Sound, RunTypes
  <2>3. CASE Details(r)
    BY <1>2, <2>3
       DEF Details, Goto, Fail, Degrade, Sound, RunTypes, Claims, Begun, OutPC
  <2>4. CASE FillError(r)
    BY <2>4 DEF FillError, Goto, Fail, Degrade, RunTypes
  <2>5. QED
    BY <2>1, <2>2, <2>3, <2>4, Arrivals
<1>8. outcome'.from = "filled" => Sound'
  <2>1. CASE Save(r)
    <3>1. batch.status # "absent"
      BY <2>1 DEF Save, Begun, OutPC
    <3>2. outcome'.from = "filled" => Sound
      BY <2>1 DEF Save, Claims, RunTypes
    <3>3. QED  BY <1>2, <3>1, <3>2
  <2>2. CASE outcome' = outcome
    BY <1>2, <2>2 DEF Claims, Begun, Decided
  <2>3. QED  BY <2>1, <2>2, SharedWrites
<1>9. QED
  BY <1>3, <1>4, <1>5, <1>6, <1>7, <1>8 DEF Claims

-----------------------------------------------------------------------------
(* The name of the processing backup.                                      *)

\* The name of the processing backup changes once, from the one a copy has to
\* the one the decision calls for: the title first, then the record, then the
\* delivery.
Names ==
    /\ step["filled"].name # "incomplete" =>
          /\ Decided
          /\ step["filled"].name = FinalName
          /\ title[step["filled"].attempt] = FinalName
    /\ batch.status = "copied" => step["filled"].name = FinalName
    /\ \A r \in Run :
          /\ title[r] # "incomplete" => /\ Decided
                                        /\ step["filled"].attempt = r
                                        /\ title[r] = FinalName
          /\ name[r] # "incomplete" => /\ Decided
                                       /\ name[r] = step["filled"].name
          /\ pc[r] = "namesave" => title[step["filled"].attempt] = FinalName
          /\ (pc[r] \in CopyPC /\ stage[r] = "delivery") \/ pc[r] = "complete"
             => step["filled"].name = FinalName

\* What is decided stays: the backup, and the name it is to bear.
LEMMA DecisionStays ==
    ASSUME Inv, Begun, NEW r \in Run, RunStep(r), Decided
    PROVE  /\ Decided'
           /\ outcome' = outcome
           /\ FinalName' = FinalName
           /\ step["filled"].attempt \in Run
           /\ step'["filled"].attempt = step["filled"].attempt
<1>1. /\ Stable(r)
      /\ batch'.enabled = batch.enabled
      /\ Copied("filled") /\ step["filled"].attempt \in Run
  BY StepIsStable, BatchStays DEF Begun, Inv, Records, Copied, Present, Stage
<1>2. QED
  BY <1>1 DEF Stable, Decided, FinalName, Stage

\* Only finish_step_rename changes the name of a confirmed backup.
LEMMA FilledName ==
    ASSUME Inv, NEW r \in Run, RunStep(r)
    PROVE  \/ step'["filled"].name = step["filled"].name
           \/ step'["filled"].name = "incomplete" /\ ~Copied("filled")
           \/ Decided /\ NameSave(r) /\ step'["filled"].name = FinalName
<1> USE DEF Inv, TypeOK, RecordTypes
<1>1. Placed(r) /\ stage[r] \in Stage /\ "filled" \in Stage
  BY DEF Holds, RunTypes, Stage
<1>2. CASE BeginStep(r)
  BY <1>1, <1>2 DEF BeginStep, Copied, Present
<1>3. CASE CancelStep(r)
  BY <1>1, <1>3 DEF CancelStep, Mine, Copied, NoStep
<1>4. CASE FinishStep(r)
  BY <1>1, <1>4 DEF FinishStep
<1>5. CASE NameSave(r)
  BY <1>1, <1>5 DEF NameSave, Placed
<1>6. QED
  BY <1>2, <1>3, <1>4, <1>5, SharedWrites

\* The final name stays.
LEMMA FinalNameStays ==
    ASSUME Inv, Begun, NEW r \in Run, RunStep(r), Decided,
           step["filled"].name = FinalName
    PROVE  step'["filled"].name = FinalName'
<1>1. Copied("filled")
  BY DEF Inv, Records
<1>2. QED
  BY <1>1, FilledName, DecisionStays

\* A run that is to deliver, or has delivered, comes from there, or from the
\* naming.
LEMMA ToDelivery ==
    ASSUME TypeOK, NEW r \in Run, RunStep(r), Placed(r),
           (pc'[r] \in CopyPC /\ stage'[r] = "delivery") \/ pc'[r] = "complete"
    PROVE  \/ pc[r] \in CopyPC /\ stage[r] = "delivery"
           \/ pc[r] = "complete"
           \/ Deliver(r) /\ pc'[r] = "get"
           \/ NameSave(r) /\ pc'[r] = "get"
<1> USE DEF TypeOK, RunTypes, local, Goto, Fail, Answer
<1>1. CASE pc'[r] = pc[r]
  BY <1>1, Stays DEF FillWrite, LateWrite, CopyPC
<1>2. CASE Deliver(r) \/ NameSave(r)
  BY <1>2 DEF CopyPC, Deliver, NameSave
<1>3. CASE BeginStep(r) \/ CopyRejected(r) \/ CopyOk(r)
  BY <1>3 DEF BeginStep, CopyRejected, CopyOk, CopyPC
<1>4. CASE GetStep(r) \/ FinishStep(r)
  <2>1. pc[r] \in CopyPC /\ stage[r] \in Stage
    BY <1>4 DEF GetStep, FinishStep, CopyPC
  <2>2. CASE stage[r] # "delivery"
    BY <1>4, <2>1, <2>2
       DEF GetStep, FinishStep, After, NextStage, Stage, CopyPC
  <2>3. QED  BY <2>1, <2>2
<1>5. CASE Check(r)
  BY <1>5 DEF Check, Placed, CopyPC
<1>6. QED
  BY <1>1, <1>2, <1>3, <1>4, <1>5, Arrivals DEF CopyPC

\* Every step of a run keeps Names.
LEMMA NamesKept ==
    ASSUME Inv, Inv', Begun, Names, NEW r \in Run, RunStep(r)
    PROVE  Names'
<1> USE DEF Inv, TypeOK
<1>1. /\ Placed(r)
      /\ \A q \in Run \ {r} : /\ pc'[q] = pc[q]
                              /\ stage'[q] = stage[q]
                              /\ name'[q] = name[q]
  BY FixedLocals, OwnLocals DEF Holds
<1>2. Decided => /\ Decided'
                 /\ FinalName' = FinalName
                 /\ step'["filled"].attempt = step["filled"].attempt
                 /\ step["filled"].attempt \in Run
  BY DecisionStays
<1>3. Decided /\ step["filled"].name = FinalName =>
         step'["filled"].name = FinalName'
  BY FinalNameStays
<1>4. \A q \in Run : \/ title'[q] = title[q]
                     \/ /\ Decided
                        /\ q = step["filled"].attempt
                        /\ title'[q] = FinalName
                        /\ Rename(r)
  <2>1. CASE Rename(r)
    BY <1>1, <1>2, <2>1 DEF Rename, Placed, DriveTypes
  <2>2. QED  BY <2>1, SharedWrites
<1>5. Decided /\ title[step["filled"].attempt] = FinalName =>
         title'[step'["filled"].attempt] = FinalName'
  BY <1>2, <1>4
<1>6. step'["filled"].name # "incomplete" =>
         /\ Decided'
         /\ step'["filled"].name = FinalName'
         /\ title'[step'["filled"].attempt] = FinalName'
  <2>1. CASE step'["filled"].name = step["filled"].name
    BY <1>2, <1>3, <1>5, <2>1 DEF Names
  <2>2. CASE Decided /\ NameSave(r) /\ step'["filled"].name = FinalName
    BY <1>2, <1>5, <2>2 DEF NameSave, Names
  <2>3. QED  BY <2>1, <2>2, FilledName
<1>7. batch'.status = "copied" => step'["filled"].name = FinalName'
  <2>1. CASE Create(r)
    BY <2>1, <1>3 DEF Create, Names, Records, Copied, Present
  <2>2. CASE Complete(r)
    <3>1. Decided /\ step["filled"].name = FinalName
      BY <1>1, <2>2
         DEF Complete, Placed, Names, Records, Copied, Present
    <3>2. QED  BY <1>3, <3>1
  <2>3. CASE batch' = batch
    BY <1>3, <2>3 DEF Names, Records, Copied, Present
  <2>4. QED  BY <2>1, <2>2, <2>3, SharedWrites
<1>8. \A q \in Run : title'[q] # "incomplete" =>
                        /\ Decided'
                        /\ step'["filled"].attempt = q
                        /\ title'[q] = FinalName'
  BY <1>2, <1>4 DEF Names
<1>9. \A q \in Run : name[q] # "incomplete" =>
                        Decided' /\ name[q] = step'["filled"].name
  BY <1>2, <1>3 DEF Names
<1>10. name'[r] # "incomplete" => Decided' /\ name'[r] = step'["filled"].name
  <2> USE DEF RunTypes
  <2>1. CASE name' = name
    BY <1>9, <2>1
  <2>2. CASE GetStep(r)
    <3>1. step' = step
      BY <2>2 DEF GetStep, store
    <3>2. name'[r] \in {name[r], step["filled"].name}
      BY <2>2 DEF GetStep
    <3>3. QED  BY <1>2, <1>9, <3>1, <3>2 DEF Names
  <2>3. CASE FinishStep(r)
    BY <1>9, <2>3 DEF FinishStep
  <2>4. CASE NameSave(r)
    <3>1. CASE step["filled"].name = name[r]
      BY <1>1, <1>2, <2>4, <3>1 DEF NameSave, Placed, RecordTypes, Stage
    <3>2. CASE step["filled"].name # name[r]
      BY <1>9, <2>4, <3>2 DEF NameSave
    <3>3. QED  BY <3>1, <3>2
  <2>5. CASE Close(r) \/ Crash(r)
    BY <2>5 DEF Close, Crash, Discard
  <2>6. QED
    BY <2>1, <2>2, <2>3, <2>4, <2>5, LocalWrites
<1>11. ASSUME NEW q \in Run
       PROVE  name'[q] # "incomplete" =>
                 Decided' /\ name'[q] = step'["filled"].name
  BY <1>1, <1>9, <1>10
<1>12. ASSUME NEW q \in Run, pc'[q] = "namesave"
       PROVE  title'[step'["filled"].attempt] = FinalName'
  <2>1. CASE pc[q] = "namesave"
    <3>1. Decided
      BY <2>1 DEF Holds, Placed
    <3>2. QED  BY <1>5, <2>1, <3>1 DEF Names
  <2>2. CASE pc[q] # "namesave"
    <3>1. q = r /\ Rename(r)
      BY <1>1, <1>12, <2>2, Arrivals
    <3>2. Decided
      BY <1>1, <3>1 DEF Placed, Rename
    <3>3. title' = [title EXCEPT ![step["filled"].attempt] = FinalName]
      BY <3>1 DEF Rename
    <3>4. QED  BY <1>2, <3>2, <3>3 DEF DriveTypes
  <2>3. QED  BY <2>1, <2>2
<1>13. ASSUME NEW q \in Run,
              (pc'[q] \in CopyPC /\ stage'[q] = "delivery")
              \/ pc'[q] = "complete"
       PROVE  step'["filled"].name = FinalName'
  <2>1. CASE (pc[q] \in CopyPC /\ stage[q] = "delivery") \/ pc[q] = "complete"
    <3>1. Decided
      BY <2>1 DEF Holds, Placed, Records, Copied, Present
    <3>2. QED  BY <1>3, <2>1, <3>1 DEF Names
  <2>2. CASE q = r /\ Deliver(r) /\ pc'[r] = "get"
    <3>1. Decided /\ pc[r] = "deliver"
      BY <1>1, <2>2 DEF Placed, Deliver
    <3>2. seen[r] = "copied" \/ name[r] = FinalName
      BY <2>2 DEF Deliver, Goto, Fail, RunTypes
    <3>3. step["filled"].name = FinalName
      <4>1. CASE seen[r] = "copied"
        BY <4>1 DEF Holds, Knows, Names
      <4>2. CASE name[r] = FinalName /\ name[r] # "incomplete"
        BY <4>2 DEF Names
      <4>3. CASE name[r] = FinalName /\ name[r] = "incomplete"
        BY <4>3 DEF Names
      <4>4. QED  BY <3>2, <4>1, <4>2, <4>3
    <3>4. QED  BY <1>3, <3>1, <3>3
  <2>3. CASE q = r /\ NameSave(r) /\ pc'[r] = "get"
    BY <1>1, <1>2, <2>3
       DEF NameSave, Placed, Answer, Goto, Fail, RunTypes, RecordTypes, Stage
  <2>4. QED
    BY <1>1, <1>13, <2>1, <2>2, <2>3, ToDelivery
<1>14. QED
  BY <1>6, <1>7, <1>8, <1>11, <1>12, <1>13 DEF Names

-----------------------------------------------------------------------------
(* The files: which exist, and what they contain.                          *)

\* A confirmed copy is there.
Made ==
    /\ \A s \in Stage : Copied(s) => file[Token(s)] # NoFile
    /\ \A r \in Run : pc[r] = "finish" => file[<<stage[r], r>>] # NoFile

\* What the files contain: the capture, the capture as far as it is filled,
\* the backup the decision calls for.
Contents ==
    \A r \in Run :
       /\ file[<<"original", r>>] # NoFile =>
             /\ file[<<"original", r>>].base \in Edition
             /\ file[<<"original", r>>].body = "clean"
       /\ file[<<"filled", r>>] # NoFile =>
             /\ file[<<"filled", r>>].base = file[Token("original")].base
             /\ fill.status \in {"absent", "retryable"} =>
                   file[<<"filled", r>>].body = "clean"
             /\ fill.status = "completed" =>
                   file[<<"filled", r>>].body \in {"clean", "full"}
       /\ file[<<"delivery", r>>] # NoFile =>
             Decided /\ file[<<"delivery", r>>] = file[outcome.token]

\* What a fill has written, or may still write, is in its record before
\* anybody else may fill.
Writes ==
    \A r \in Run :
       /\ pc[r] = "filling" /\ ~writing[r] => Filled.body = "clean"
       /\ pc[r] = "finishfill" /\ verdict[r] = "completed" =>
             Filled.body \in {"clean", "full"}
       /\ pc[r] = "finishfill" /\ verdict[r] = "retryable" =>
             Filled.body = "clean"
       /\ r \in late => /\ fill.attempt = r
                        /\ fill.status \in {"running", "needs_review"}
                        /\ pc[r] # "filling"
                        /\ pc[r] = "finishfill" => verdict[r] = "needs_review"
       /\ writing[r] =>
             /\ fill.attempt = r
             /\ fill.status \in {"running", "needs_review", "completed"}
             /\ pc[r] = "finishfill" => verdict[r] # "retryable"

\* A file changes when it is made, and the processing backup when somebody
\* fills it.
LEMMA FileWrites ==
    ASSUME Inv, NEW r \in Run, RunStep(r), NEW f \in FileId, file'[f] # file[f]
    PROVE  \/ /\ pc[r] = "copy"
              /\ f = <<stage[r], r>>
              /\ file[f] = NoFile
              /\ file'[f] = IF Wanted(stage[r]) = Sheet
                            THEN [base |-> edition, body |-> "clean"]
                            ELSE file[Wanted(stage[r])]
           \/ /\ FillWrite(r) \/ LateWrite(r)
              /\ Copied("filled")
              /\ f = Token("filled")
              /\ file'[f].base = file[f].base
              /\ file'[f].body \in {"partial", "full"}
<1> USE DEF Inv, TypeOK, DriveTypes
<1>1. CASE CopyOk(r) \/ CopyUnknown(r)
  <2>1. pc[r] = "copy" /\ MakeFile(r) /\ file[<<stage[r], r>>] = NoFile
    BY <1>1 DEF CopyOk, CopyUnknown, Holds, Placed
  <2>2. QED
    BY <2>1 DEF MakeFile
<1>2. CASE FillWrite(r)
  <2>1. pc[r] = "filling" /\ Copied("filled")
    BY <1>2 DEF FillWrite, Holds, Placed, FillPC
  <2>2. PICK b \in {"partial", "full"} :
           file' = [file EXCEPT ![Token("filled")].body = b]
    BY <1>2 DEF FillWrite
  <2>3. QED
    BY <1>2, <2>1, <2>2
<1>3. CASE LateWrite(r)
  <2>1. /\ r \in late /\ Copied("filled")
        /\ file' = [file EXCEPT ![Token("filled")].body = "partial"]
    BY <1>3 DEF LateWrite, Holds, Knows
  <2>2. QED
    BY <1>3, <2>1
<1>4. QED
  BY <1>1, <1>2, <1>3, SharedWrites

\* A file that is there stays there.
LEMMA FilesStay ==
    ASSUME Inv, NEW r \in Run, RunStep(r), NEW f \in FileId, file[f] # NoFile
    PROVE  file'[f] # NoFile
  BY FileWrites DEF NoFile

\* A token of a confirmed copy stays.
LEMMA TokenStays ==
    ASSUME Inv, NEW r \in Run, RunStep(r), NEW s \in Stage, Copied(s)
    PROVE  /\ Copied(s)'
           /\ Token(s)' = Token(s)
           /\ Token(s) \in FileId
           /\ step[s].attempt \in Run
<1>1. Stable(r)
  BY StepIsStable
<1>2. step[s].attempt \in Run
  BY DEF Inv, Records, Copied, Present
<1>3. QED
  BY <1>1, <1>2 DEF Stable, Copied, Token, FileId

\* The source of a copy is there when the copy is made.
LEMMA SourceThere ==
    ASSUME Inv, Made, NEW r \in Run, pc[r] = "copy"
    PROVE  /\ Wanted("original") = Sheet
           /\ stage[r] # "original" => Wanted(stage[r]) # Sheet
           /\ stage[r] # "original" => file[Wanted(stage[r])] # NoFile
           /\ stage[r] = "filled" => Wanted("filled") = Token("original")
           /\ stage[r] = "filled" => Copied("original")
           /\ stage[r] = "delivery" => Decided
           /\ stage[r] = "delivery" => Wanted("delivery") = outcome.token
           /\ stage[r] = "delivery" => outcome.token = Token(outcome.from)
<1> USE DEF Inv, Made
<1>1. stage[r] \in Stage /\ Placed(r)
  BY DEF TypeOK, RunTypes, Holds
<1>2. \A s \in Stage : Present(s) => Token(s) # Sheet
  <2>1. ASSUME NEW s \in Stage, Present(s) PROVE Token(s) # Sheet
    BY <2>1, ThreeCopyAssumption DEF Records, Token, Sheet, Stage
  <2>2. QED  BY <2>1
<1>3. CASE stage[r] = "original"
  BY <1>3 DEF Wanted
<1>4. CASE stage[r] = "filled"
  <2>1. Copied("original") /\ Present("original")
    BY <1>1, <1>4 DEF Placed, CopyPC, Copied, Present
  <2>2. QED
    BY <1>2, <1>4, <2>1 DEF Wanted, Stage
<1>5. CASE stage[r] = "delivery"
  <2>1. Decided
    BY <1>1, <1>5 DEF Placed, CopyPC
  <2>2. /\ outcome.token = Token(outcome.from)
        /\ outcome.from \in {"original", "filled"}
        /\ Copied("original") /\ Copied("filled")
    BY <2>1 DEF Records, Decided, TypeOK, RecordTypes
  <2>3. Copied(outcome.from) /\ Present(outcome.from)
    BY <2>2 DEF Copied, Present
  <2>4. QED
    BY <1>2, <1>5, <2>1, <2>2, <2>3 DEF Wanted, Stage
<1>6. QED  BY <1>1, <1>3, <1>4, <1>5 DEF Stage

\* Every step of a run keeps Made.
LEMMA MadeKept ==
    ASSUME Inv, TypeOK', Made, NEW r \in Run, RunStep(r)
    PROVE  Made'
<1> USE DEF Inv, TypeOK
<1>1. /\ Placed(r) /\ stage[r] \in Stage
      /\ \A q \in Run \ {r} : pc'[q] = pc[q] /\ stage'[q] = stage[q]
  BY FixedLocals DEF Holds, RunTypes
<1>2. ASSUME NEW s \in Stage, Copied(s)' PROVE file'[Token(s)'] # NoFile
  <2>1. CASE Copied(s)
    <3>1. file[Token(s)] # NoFile /\ Token(s) \in FileId
      BY <2>1, TokenStays DEF Made
    <3>2. file'[Token(s)] # NoFile
      BY <3>1, FilesStay
    <3>3. QED  BY <2>1, <3>2, TokenStays
  <2>2. CASE ~Copied(s)
    <3>1. FinishStep(r) /\ s = stage[r] /\ step'[s].attempt = r
      <4> USE DEF RecordTypes
      <4>1. CASE BeginStep(r)
        BY <1>2, <2>2, <4>1 DEF BeginStep, Copied
      <4>2. CASE CancelStep(r)
        BY <1>2, <2>2, <4>2 DEF CancelStep, Copied, NoStep
      <4>3. CASE FinishStep(r)
        BY <1>2, <2>2, <4>3 DEF FinishStep, Mine, Copied
      <4>4. CASE NameSave(r)
        BY <1>2, <2>2, <4>4 DEF NameSave, Copied
      <4>5. QED
        BY <1>2, <2>2, <4>1, <4>2, <4>3, <4>4, SharedWrites DEF Copied
    <3>2. file' = file /\ pc[r] = "finish"
      BY <3>1 DEF FinishStep, drive
    <3>3. QED  BY <3>1, <3>2 DEF Made, Token
  <2>3. QED  BY <2>1, <2>2
<1>3. ASSUME NEW q \in Run, pc'[q] = "finish"
      PROVE  file'[<<stage'[q], q>>] # NoFile
  <2>1. CASE pc[q] = "finish"
    <3>1. stage'[q] = stage[q]
      BY <1>1, <1>3, <2>1, Stays DEF FillWrite, LateWrite, GetStep, local
    <3>2. <<stage[q], q>> \in FileId /\ file[<<stage[q], q>>] # NoFile
      BY <2>1 DEF Made, FileId, RunTypes
    <3>3. QED  BY <3>1, <3>2, FilesStay
  <2>2. CASE pc[q] # "finish"
    <3>1. q = r /\ CopyOk(r)
      BY <1>1, <1>3, <2>2, Arrivals
    <3>2. /\ pc[r] = "copy" /\ stage' = stage
          /\ file'[<<stage[r], r>>] = IF Wanted(stage[r]) = Sheet
                                      THEN [base |-> edition, body |-> "clean"]
                                      ELSE file[Wanted(stage[r])]
      BY <1>1, <3>1 DEF CopyOk, MakeFile, local, DriveTypes, FileId
    <3>3. CASE stage[r] = "original"
      BY <3>1, <3>2, <3>3, SourceThere DEF NoFile
    <3>4. CASE stage[r] # "original"
      BY <3>1, <3>2, <3>4, SourceThere
    <3>5. QED  BY <3>3, <3>4
  <2>3. QED  BY <2>1, <2>2
<1>4. \A s \in Stage : Copied(s)' => file'[Token(s)'] # NoFile
  BY <1>2
<1>5. QED
  BY <1>3, <1>4 DEF Made, NoFile

-----------------------------------------------------------------------------
(* Files whose record is confirmed stay as they are.                       *)

\* A sheet that is not being filled, and waits for no late write, stays.
LEMMA FilledStays ==
    ASSUME Inv, Made, Copied("filled"), NEW r \in Run, RunStep(r),
           ~FillWrite(r), ~LateWrite(r)
    PROVE  Filled' = Filled
<1>1. Token("filled") \in FileId /\ Token("filled")' = Token("filled")
  BY TokenStays DEF Stage
<1>2. file[Token("filled")] # NoFile
  BY DEF Made, Stage
<1>3. file'[Token("filled")] = file[Token("filled")]
  BY <1>1, <1>2, FileWrites
<1>4. QED  BY <1>1, <1>3 DEF Filled

\* Who writes to the processing backup is the run that the record of the fill
\* names, and the record is open.
LEMMA WriterClaimed ==
    ASSUME Inv, Claims, Writes, NEW r \in Run, FillWrite(r) \/ LateWrite(r)
    PROVE  /\ fill.attempt = r
           /\ fill.status \in {"running", "needs_review"}
           /\ fill' = fill
           /\ Copied("filled")
<1>1. CASE FillWrite(r)
  <2>1. pc[r] = "filling" /\ fill' = fill
    BY <1>1 DEF FillWrite, store
  <2>2. Copied("filled")
    BY <2>1 DEF Inv, Holds, Placed, FillPC
  <2>3. fill = [status |-> "running", attempt |-> r]
    BY <2>1 DEF Claims
  <2>4. QED  BY <2>1, <2>2, <2>3
<1>2. CASE LateWrite(r)
  BY <1>2 DEF LateWrite, Writes, store, Inv, Holds, Knows
<1>3. QED  BY <1>1, <1>2

\* The backup the decision calls for never changes.
LEMMA SourceStays ==
    ASSUME Inv, Begun, Claims, Made, Writes, NEW r \in Run, RunStep(r), Decided
    PROVE  /\ outcome' = outcome
           /\ outcome.token = Token(outcome.from)
           /\ outcome.token \in FileId
           /\ file'[outcome.token] = file[outcome.token]
           /\ file[outcome.token] # NoFile
<1>1. /\ outcome' = outcome
      /\ outcome.token = Token(outcome.from)
      /\ outcome.from \in {"original", "filled"}
      /\ Copied("original") /\ Copied("filled")
  BY DecisionStays DEF Inv, TypeOK, RecordTypes, Records, Decided
<1>2. Copied(outcome.from) /\ outcome.from \in Stage
  BY <1>1 DEF Copied, Stage
<1>3. outcome.token \in FileId /\ file[outcome.token] # NoFile
  BY <1>1, <1>2, TokenStays DEF Made
<1>4. file'[outcome.token] = file[outcome.token]
  <2>1. CASE outcome.from = "original"
    BY <1>1, <1>3, <2>1, FileWrites DEF Token
  <2>2. CASE outcome.from = "filled"
    <3>1. fill.status \in {"absent", "completed"}
      BY <2>2 DEF Claims, Sound, Begun
    <3>2. ~FillWrite(r) /\ ~LateWrite(r)
      BY <3>1, WriterClaimed
    <3>3. QED  BY <1>3, <3>2, FileWrites
  <2>3. QED  BY <1>1, <2>1, <2>2
<1>5. QED  BY <1>1, <1>3, <1>4

\* The capture never changes.
LEMMA CaptureStays ==
    ASSUME Inv, Made, NEW r \in Run, RunStep(r), Copied("original")
    PROVE  /\ Token("original")' = Token("original")
           /\ Token("original") \in FileId
           /\ file[Token("original")] # NoFile
           /\ file'[Token("original")] = file[Token("original")]
<1>1. /\ Token("original")' = Token("original")
      /\ Token("original") \in FileId
      /\ file[Token("original")] # NoFile
  BY TokenStays DEF Made, Stage
<1>2. Token("original") # Token("filled")
  BY DEF Token
<1>3. QED  BY <1>1, <1>2, FileWrites

\* Every step of a run keeps Contents.
LEMMA ContentsKept ==
    ASSUME Inv, Inv', Begun, Claims, Made, Contents, Writes,
           NEW r \in Run, RunStep(r)
    PROVE  Contents'
<1> USE DEF Inv, TypeOK
<1>1. stage[r] \in Stage /\ Placed(r)
  BY DEF Holds, RunTypes
<1>2. ASSUME NEW q \in Run, file'[<<"original", q>>] # NoFile
      PROVE  /\ file'[<<"original", q>>].base \in Edition
             /\ file'[<<"original", q>>].body = "clean"
  <2> DEFINE f == <<"original", q>>
  <2>1. f \in FileId /\ f # Token("filled")
    BY DEF FileId, Stage, Token
  <2>2. CASE file'[f] = file[f]
    BY <1>2, <2>2 DEF Contents
  <2>3. CASE file'[f] # file[f]
    <3>1. pc[r] = "copy" /\ stage[r] = "original"
          /\ file'[f] = IF Wanted(stage[r]) = Sheet
                        THEN [base |-> edition, body |-> "clean"]
                        ELSE file[Wanted(stage[r])]
      BY <2>1, <2>3, FileWrites
    <3>2. file'[f] = [base |-> edition, body |-> "clean"]
      BY <3>1, SourceThere
    <3>3. QED  BY <3>2 DEF DriveTypes
  <2>4. QED  BY <2>2, <2>3
<1>3. ASSUME NEW q \in Run, file'[<<"filled", q>>] # NoFile
      PROVE  /\ file'[<<"filled", q>>].base = file'[Token("original")'].base
             /\ fill'.status \in {"absent", "retryable"} =>
                   file'[<<"filled", q>>].body = "clean"
             /\ fill'.status = "completed" =>
                   file'[<<"filled", q>>].body \in {"clean", "full"}
  <2> DEFINE f == <<"filled", q>>
  <2>1. f \in FileId
    BY DEF FileId, Stage
  <2>2. CASE file'[f] = file[f]
    <3>1. /\ file[f] # NoFile /\ Copied("original")
          /\ step["filled"].attempt = q
      BY <1>3, <2>2 DEF FileOfStep, Records, Stage
    <3>2. file'[f].base = file'[Token("original")'].base
      BY <2>2, <3>1, CaptureStays DEF Contents
    <3>3. Filled = file[f]
      BY <3>1 DEF Filled, Token
    <3>4. CASE fill' = fill
      BY <2>2, <3>1, <3>2, <3>4 DEF Contents
    <3>5. CASE Claim(r)
      BY <2>2, <3>1, <3>2, <3>5 DEF Contents, Claim
    <3>6. CASE FinishFill(r) /\ fill' # fill
      <4>1. pc[r] = "finishfill" /\ fill'.status = verdict[r]
        BY <3>6 DEF FinishFill
      <4>2. verdict[r] \in {"needs_review", "retryable", "completed"}
        BY <4>1 DEF Claims
      <4>3. QED  BY <2>2, <3>2, <3>3, <4>1, <4>2 DEF Writes
    <3>7. QED  BY <3>4, <3>5, <3>6, SharedWrites
  <2>3. CASE /\ pc[r] = "copy" /\ stage[r] = "filled"
             /\ file'[f] = IF Wanted(stage[r]) = Sheet
                           THEN [base |-> edition, body |-> "clean"]
                           ELSE file[Wanted(stage[r])]
    <3>1. file'[f] = file[Token("original")] /\ Copied("original")
      BY <2>3, SourceThere
    <3>2. file'[f] = file'[Token("original")']
      BY <3>1, CaptureStays
    <3>3. file[Token("original")].body = "clean"
      <4>1. step["original"].attempt \in Run /\ file[Token("original")] # NoFile
        BY <3>1, TokenStays, CaptureStays DEF Stage
      <4>2. QED  BY <4>1 DEF Contents, Token
    <3>4. QED  BY <3>1, <3>2, <3>3
  <2>4. CASE /\ file'[f] # file[f]
             /\ FillWrite(r) \/ LateWrite(r)
             /\ f = Token("filled")
             /\ file'[f].base = file[f].base
    <3>1. /\ fill' = fill /\ fill.status \in {"running", "needs_review"}
          /\ Copied("filled")
      BY <2>4, WriterClaimed
    <3>2. Copied("original") /\ file[f] # NoFile
      BY <2>4, <3>1 DEF Records, Copied, Present, Made, Stage
    <3>3. file'[f].base = file'[Token("original")'].base
      BY <2>4, <3>2, CaptureStays DEF Contents
    <3>4. QED  BY <3>1, <3>3
  <2>5. QED
    BY <2>1, <2>2, <2>3, <2>4, FileWrites
<1>4. ASSUME NEW q \in Run, file'[<<"delivery", q>>] # NoFile
      PROVE  Decided' /\ file'[<<"delivery", q>>] = file'[outcome'.token]
  <2> DEFINE f == <<"delivery", q>>
  <2>1. f \in FileId /\ f # Token("filled")
    BY DEF FileId, Stage, Token
  <2>2. Decided => Decided' /\ file'[outcome'.token] = file[outcome.token]
    BY DecisionStays, SourceStays
  <2>3. CASE file'[f] = file[f]
    BY <1>4, <2>2, <2>3 DEF Contents
  <2>4. CASE file'[f] # file[f]
    <3>1. /\ pc[r] = "copy" /\ stage[r] = "delivery"
          /\ file'[f] = IF Wanted(stage[r]) = Sheet
                        THEN [base |-> edition, body |-> "clean"]
                        ELSE file[Wanted(stage[r])]
      BY <2>1, <2>4, FileWrites
    <3>2. Decided /\ file'[f] = file[outcome.token]
      BY <3>1, SourceThere
    <3>3. QED  BY <2>2, <3>2
  <2>5. QED  BY <2>3, <2>4
<1>5. QED
  BY <1>2, <1>3, <1>4 DEF Contents, NoFile

-----------------------------------------------------------------------------
(* What is written, and what is reported of it.                            *)

\* What a filler reports tells what it wrote.
LEMMA ReportsTell ==
    ASSUME ReportFails = FALSE, NEW r \in Run
    PROVE  /\ Interrupted = {"needs_review"}
           /\ \A v \in Report(r) :
                 /\ v \in {"needs_review", "retryable", "completed"}
                 /\ v = "retryable" => ~writing[r]
                 /\ v = "completed" => Filled.body \in {"clean", "full"}
  BY DEF Interrupted, Report

\* Every step of a run keeps Writes, if the report of a fill is saved.
LEMMA WritesKept ==
    ASSUME ReportFails = FALSE, Inv, Inv', Begun, Claims, Made, Contents,
           Writes, NEW r \in Run, RunStep(r)
    PROVE  Writes'
<1> USE DEF Inv, TypeOK
<1>1. /\ Placed(r)
      /\ \A q \in Run \ {r} : /\ pc'[q] = pc[q]
                              /\ verdict'[q] = verdict[q]
                              /\ writing'[q] = writing[q]
  BY FixedLocals, OwnLocals DEF Holds
<1>2. \A q \in Run : pc[q] \in {"filling", "finishfill"} =>
                        /\ fill = [status |-> "running", attempt |-> q]
                        /\ fill.status = "running"
                        /\ fill.attempt = q
                        /\ Copied("filled")
  <2>1. \A q \in Run : pc[q] \in {"filling", "finishfill"} =>
                          Copied("filled")
    BY DEF Holds, Placed, FillPC
  <2>2. QED  BY <2>1 DEF Claims
<1>3. \A q \in Run : pc[q] \in {"filling", "finishfill"} /\ q # r =>
                        Filled' = Filled
  <2>1. FillWrite(r) \/ LateWrite(r) => fill.attempt = r
    BY WriterClaimed
  <2>2. QED  BY <1>2, <2>1, FilledStays
<1>4. \A q \in Run : \/ q \in late' => q \in late
                     \/ FillWriteLost(r) /\ q = r
  <2>1. CASE FillWriteLost(r)
    BY <2>1 DEF FillWriteLost
  <2>2. CASE LateWrite(r)
    BY <2>2 DEF LateWrite
  <2>3. QED  BY <2>1, <2>2, SharedWrites
<1>5. pc'[r] = "filling" /\ ~writing'[r] => Filled'.body = "clean"
  <2>1. CASE Claim(r)
    <3>1. /\ fill.status \in {"absent", "retryable"} \/ pc'[r] # "filling"
          /\ Copied("filled")
          /\ ~FillWrite(r) /\ ~LateWrite(r)
      <4>1. pc[r] = "claim" /\ fill.status \notin {"absent", "retryable"} =>
               pc'[r] # "filling"
        BY <2>1 DEF Claim, Goto, RunTypes
      <4>2. pc[r] = "claim"
        BY <2>1 DEF Claim
      <4>3. Copied("filled")
        BY <1>1, <4>2 DEF Placed, FillPC
      <4>4. ~FillWrite(r)
        BY <4>2 DEF FillWrite
      <4>5. CASE fill.status \in {"absent", "retryable"}
        BY <4>3, <4>4, <4>5, WriterClaimed
      <4>6. CASE fill.status \notin {"absent", "retryable"}
        <5>1. fill' = fill /\ file' = file /\ pc'[r] = "fillerror"
          BY <2>1, <4>6 DEF Claim, drive, Goto, RunTypes
        <5>2. late' = late
          BY <2>1 DEF Claim, drive
        <5>3. ~LateWrite(r)
          BY <5>2 DEF LateWrite
        <5>4. QED  BY <4>1, <4>2, <4>3, <4>4, <4>6, <5>3
      <4>7. QED  BY <4>5, <4>6, <4>3, <4>4
    <3>2. CASE fill.status \in {"absent", "retryable"}
      <4>1. step["filled"].attempt \in Run /\ file[Token("filled")] # NoFile
        BY <3>1, TokenStays DEF Made, Stage
      <4>2. Filled.body = "clean"
        BY <3>2, <4>1 DEF Contents, Token, Filled
      <4>3. QED  BY <3>1, <4>2, FilledStays
    <3>3. QED  BY <3>1, <3>2
  <2>2. CASE pc'[r] = pc[r] /\ pc[r] = "filling"
    <3>1. CASE FillWrite(r)
      BY <3>1 DEF FillWrite, RunTypes
    <3>2. CASE LateWrite(r)
      BY <2>2, <3>2 DEF LateWrite, Writes
    <3>3. CASE GetStep(r)
      BY <2>2, <3>3 DEF GetStep
    <3>4. QED  BY <2>2, <3>1, <3>2, <3>3, Stays
  <2>3. QED  BY <2>1, <2>2, Arrivals
<1>6. pc'[r] = "finishfill" =>
         /\ verdict'[r] = "completed" => Filled'.body \in {"clean", "full"}
         /\ verdict'[r] = "retryable" => Filled'.body = "clean"
         /\ r \in late' => verdict'[r] = "needs_review"
         /\ writing'[r] => verdict'[r] # "retryable"
  <2>1. CASE FillWriteLost(r)
    <3>1. verdict' = [verdict EXCEPT ![r] = "needs_review"]
      BY <2>1, ReportsTell DEF FillWriteLost
    <3>2. QED  BY <3>1 DEF RunTypes
  <2>2. CASE FillReturn(r)
    <3>1. /\ pc[r] = "filling" /\ verdict'[r] \in Report(r)
          /\ file' = file /\ step' = step /\ late' = late
          /\ writing' = writing
      BY <2>2 DEF FillReturn, RunTypes, store, drive
    <3>2. Filled' = Filled
      BY <3>1 DEF Filled, Token
    <3>3. QED  BY <3>1, <3>2, ReportsTell DEF Writes
  <2>3. CASE pc'[r] = pc[r] /\ pc[r] = "finishfill"
    <3>1. LateWrite(r)
      BY <2>3, Stays DEF FillWrite, GetStep
    <3>2. r \in late /\ verdict' = verdict
      BY <3>1 DEF LateWrite, local
    <3>3. verdict'[r] = "needs_review"
      BY <2>3, <3>2 DEF Writes
    <3>4. QED  BY <3>3
  <2>4. QED  BY <2>1, <2>2, <2>3, Arrivals
<1>7. ASSUME NEW q \in Run, fill.attempt = q,
             fill.status \in {"running", "needs_review", "completed"},
             FinishFill(r) => verdict[q] # "retryable"
      PROVE  /\ fill'.attempt = q
             /\ fill'.status \in {"running", "needs_review", "completed"}
             /\ fill' = fill \/ (q = r /\ pc[r] = "finishfill"
                                 /\ fill'.status = verdict[r])
  <2>1. CASE Claim(r)
    BY <1>7, <2>1 DEF Claim
  <2>2. CASE FinishFill(r)
    <3>1. CASE fill = [status |-> "running", attempt |-> r]
      <4>1. fill' = [fill EXCEPT !.status = verdict[r]] /\ pc[r] = "finishfill"
        BY <2>2, <3>1 DEF FinishFill
      <4>2. verdict[r] \in {"needs_review", "retryable", "completed"}
        BY <4>1 DEF Claims
      <4>3. q = r
        BY <1>7, <3>1
      <4>4. QED  BY <1>7, <2>2, <4>1, <4>2, <4>3 DEF RecordTypes
    <3>2. CASE fill # [status |-> "running", attempt |-> r]
      BY <1>7, <2>2, <3>2 DEF FinishFill
    <3>3. QED  BY <3>1, <3>2
  <2>3. QED  BY <1>7, <2>1, <2>2, SharedWrites
<1>8. ASSUME NEW q \in Run, q \in late'
      PROVE  /\ fill'.attempt = q
             /\ fill'.status \in {"running", "needs_review"}
             /\ pc'[q] # "filling"
             /\ pc'[q] = "finishfill" => verdict'[q] = "needs_review"
  <2>1. CASE FillWriteLost(r) /\ q = r
    <3>1. pc[r] = "filling" /\ fill' = fill /\ pc'[r] = "finishfill"
      BY <2>1 DEF FillWriteLost, store, Goto, RunTypes
    <3>2. QED  BY <1>2, <1>6, <1>8, <2>1, <3>1
  <2>2. CASE q \in late
    <3>1. /\ fill.attempt = q
          /\ fill.status \in {"running", "needs_review"}
          /\ pc[q] # "filling"
          /\ pc[q] = "finishfill" => verdict[q] = "needs_review"
      BY <2>2 DEF Writes
    <3>2. FinishFill(r) => verdict[q] # "retryable" \/ q # r
      BY <3>1 DEF FinishFill
    <3>3. /\ fill'.attempt = q
          /\ fill'.status \in {"running", "needs_review"}
      <4>1. CASE FinishFill(r) /\ q # r
        BY <3>1, <4>1 DEF FinishFill
      <4>2. CASE ~FinishFill(r) \/ q = r
        BY <1>7, <3>1, <3>2, <4>2
      <4>3. QED  BY <4>1, <4>2
    <3>4. pc'[q] # "filling"
      <4>1. CASE q # r
        BY <1>1, <3>1, <4>1
      <4>2. CASE q = r
        <5>1. Claim(r) => pc'[r] # "filling"
          BY <3>1, <4>2 DEF Claim, Goto, RunTypes
        <5>2. QED  BY <3>1, <4>2, <5>1, Arrivals
      <4>3. QED  BY <4>1, <4>2
    <3>5. pc'[q] = "finishfill" => verdict'[q] = "needs_review"
      BY <1>1, <1>6, <1>8, <3>1
    <3>6. QED  BY <3>3, <3>4, <3>5
  <2>3. QED  BY <1>4, <1>8, <2>1, <2>2
<1>9. ASSUME NEW q \in Run, writing'[q]
      PROVE  /\ fill'.attempt = q
             /\ fill'.status \in {"running", "needs_review", "completed"}
             /\ pc'[q] = "finishfill" => verdict'[q] # "retryable"
  <2>1. CASE q = r /\ FillWrite(r)
    <3>1. pc[r] = "filling" /\ fill' = fill /\ pc'[r] = "filling"
      BY <2>1 DEF FillWrite, store
    <3>2. QED  BY <1>2, <2>1, <3>1
  <2>2. CASE writing[q]
    <3>1. /\ fill.attempt = q
          /\ fill.status \in {"running", "needs_review", "completed"}
          /\ pc[q] = "finishfill" => verdict[q] # "retryable"
      BY <2>2 DEF Writes
    <3>2. /\ fill'.attempt = q
          /\ fill'.status \in {"running", "needs_review", "completed"}
      <4>1. CASE FinishFill(r) /\ q # r
        BY <3>1, <4>1 DEF FinishFill
      <4>2. CASE ~FinishFill(r)
        BY <1>7, <3>1, <4>2
      <4>3. CASE FinishFill(r) /\ q = r
        <5>1. verdict[q] # "retryable"
          BY <3>1, <4>3 DEF FinishFill
        <5>2. QED  BY <1>7, <3>1, <5>1
      <4>4. QED  BY <4>1, <4>2, <4>3
    <3>3. pc'[q] = "finishfill" => verdict'[q] # "retryable"
      BY <1>1, <1>6, <1>9, <3>1
    <3>4. QED  BY <3>2, <3>3
  <2>3. writing'[q] => writing[q] \/ (q = r /\ FillWrite(r))
    <3>1. CASE FillWrite(r)
      BY <1>1, <3>1
    <3>2. CASE Close(r) \/ Crash(r)
      BY <3>2 DEF Close, Crash, Discard, RunTypes
    <3>3. QED  BY <3>1, <3>2, LocalWrites
  <2>4. QED  BY <1>9, <2>1, <2>2, <2>3
<1>10. ASSUME NEW q \in Run \ {r}
       PROVE  /\ pc'[q] = "filling" /\ ~writing'[q] => Filled'.body = "clean"
              /\ pc'[q] = "finishfill" /\ verdict'[q] = "completed" =>
                    Filled'.body \in {"clean", "full"}
              /\ pc'[q] = "finishfill" /\ verdict'[q] = "retryable" =>
                    Filled'.body = "clean"
  BY <1>1, <1>3 DEF Writes
<1>11. QED
  BY <1>5, <1>6, <1>8, <1>9, <1>10 DEF Writes

-----------------------------------------------------------------------------
(* The end of a batch, and a run that works alone.                         *)

\* One run closes the batch, and it alone announces that.
Cards ==
    /\ announced \in {0, 1}
    /\ announced = 1 => batch.status = "copied"
    /\ \A r \in Run :
          /\ pc[r] = "notify" => announced = 0
          /\ \A q \in Run : pc[q] = "notify" /\ pc[r] = "notify" => q = r
          /\ result[r] \in {"copied", "unchanged"} => batch.status = "copied"

\* Where a run gets its result from.
LEMMA Results ==
    ASSUME TypeOK, NEW r \in Run, RunStep(r), result'[r] # result[r]
    PROVE  /\ result'[r] = "copied" => Complete(r)
           /\ result'[r] = "unchanged" => Reuse(r)
           /\ result'[r] = "blocked" =>
                 Check(r) \/ GetStep(r) \/ Details(r) \/ FillError(r)
           /\ result'[r] = "gap" => Check(r)
           /\ result'[r] = "raced" =>
                 Create(r) \/ BeginStep(r) \/ FinishStep(r) \/ NameSave(r)
                 \/ Complete(r)
<1> USE DEF TypeOK, RunTypes, Goto, Fail, Answer
<1>1. CASE Copying(r)
  BY <1>1 DEF Copying, GetStep, BeginStep, CopyOk, CopyRejected, CopyUnknown,
     CancelStep, FinishStep
<1>2. CASE Filling(r)
  BY <1>2 DEF Filling, Decide, FillGet, Claim, FillWrite, FillWriteLost,
     FillReturn, FinishFill, Details, FillFault, FillError, Save
<1>3. CASE Delivering(r)
  BY <1>3 DEF Delivering, Deliver, Rename, NameSave, Reuse, Complete, Notify
<1>4. CASE Acquire(r) \/ Skip(r) \/ Load(r) \/ Create(r) \/ ReadStep(r)
           \/ Check(r) \/ Abort(r) \/ Close(r) \/ Crash(r) \/ LateWrite(r)
  BY <1>4 DEF Acquire, Skip, Load, Create, ReadStep, Check, Abort, Close, Crash,
     LateWrite
<1>5. QED  BY <1>1, <1>2, <1>3, <1>4 DEF RunStep, Proceed

\* Every step of a run keeps Cards.
LEMMA CardsKept ==
    ASSUME Inv, Begun, Cards, NEW r \in Run, RunStep(r)
    PROVE  Cards'
<1> USE DEF Inv, TypeOK
<1>1. \A q \in Run \ {r} : pc'[q] = pc[q] /\ result'[q] = result[q]
  BY FixedLocals
<1>2. batch.status = "copied" => batch'.status = "copied"
  BY StepIsStable DEF Stable
<1>3. ASSUME NEW q \in Run, result'[q] \in {"copied", "unchanged"}
      PROVE  batch'.status = "copied"
  <2>1. CASE result'[q] = result[q]
    BY <1>2, <1>3, <2>1 DEF Cards
  <2>2. CASE q = r /\ Complete(r)
    BY <1>3, <2>2 DEF Complete, Fail, RunTypes, RecordTypes
  <2>3. CASE q = r /\ Reuse(r)
    BY <1>2, <2>3 DEF Reuse, Holds, Knows
  <2>4. QED  BY <1>1, <1>3, <2>1, <2>2, <2>3, Results
<1>4. CASE Notify(r)
  <2>1. pc[r] = "notify" /\ pc'[r] = "closing"
        /\ announced' \in {announced, announced + 1}
    BY <1>4 DEF Notify, Goto, RunTypes
  <2>2. announced = 0 /\ batch.status = "copied"
    BY <2>1 DEF Cards, Begun
  <2>3. \A q \in Run : pc'[q] # "notify"
    BY <1>1, <2>1 DEF Cards
  <2>4. announced' \in {0, 1}
    BY <2>1, <2>2
  <2>5. QED
    BY <1>2, <1>3, <2>2, <2>3, <2>4 DEF Cards
<1>5. CASE announced' = announced
  <2>1. CASE pc'[r] = "notify" /\ pc[r] # "notify"
    <3>1. Complete(r)
      BY <2>1, Arrivals
    <3>2. batch.status # "copied" \/ pc'[r] = "closing"
      BY <3>1 DEF Complete, Fail, RunTypes
    <3>3. announced = 0 /\ \A q \in Run : pc[q] # "notify"
      BY <2>1, <3>2 DEF Cards, Begun
    <3>4. QED
      BY <1>1, <1>2, <1>3, <1>5, <3>3 DEF Cards
  <2>2. CASE pc'[r] = "notify" => pc[r] = "notify"
    <3>1. \A q \in Run : pc'[q] = "notify" => pc[q] = "notify"
      BY <1>1, <2>2
    <3>2. QED
      BY <1>2, <1>3, <1>5, <3>1 DEF Cards
  <2>3. QED  BY <2>1, <2>2
<1>6. QED  BY <1>4, <1>5, SharedWrites

OverPC == {"idle", "done", "dead"}

\* Places where a run knows the name in the record of the processing backup.
NamedPC == FillPC \cup {"deliver", "rename", "namesave"}

\* As long as no run lost the lock, or stopped over a placeholder, the run
\* that holds the lock is the only one at work, and every placeholder is its
\* own.
Alone ==
    /\ \A r \in Run :
          /\ grace[r] = 0
          /\ \A s \in Stage : HasRead(r, s) => known[r][s] = step[s].status
          /\ pc[r] \notin OverPC => owner = r
          /\ pc[r] \notin OutPC \cup {"notify"} => seen[r] = batch.status
          /\ pc[r] = "create" => batch.status = "absent"
          /\ pc[r] = "begin" => ~Present(stage[r])
          /\ pc[r] \in NamedPC => name[r] = step["filled"].name
          /\ pc[r] = "details" => verdict[r] # "running"
          /\ result[r] \notin {"blocked", "raced", "gap"}
    /\ \A s \in Stage : step[s].status = "copying" =>
          /\ pc[step[s].attempt] \in {"copy", "cancel", "finish"}
          /\ stage[step[s].attempt] = s
    /\ fill.status = "running" =>
          fill.attempt \in Run /\ pc[fill.attempt] \in {"filling", "finishfill"}

\* Only the holder of the lock is at work.
LEMMA OnlyOwner ==
    ASSUME Inv, Alone, NEW r \in Run, pc[r] \notin OverPC
    PROVE  /\ owner = r
           /\ \A q \in Run \ {r} : pc[q] \in OverPC
           /\ \A s \in Stage : step[s].status = "copying" =>
                 /\ pc[r] \in {"copy", "cancel", "finish"}
                 /\ stage[r] = s
                 /\ step[s].attempt = r
           /\ fill.status = "running" =>
                 /\ pc[r] \in {"filling", "finishfill"}
                 /\ fill.attempt = r
<1>1. owner = r /\ \A q \in Run \ {r} : pc[q] \in OverPC
  BY DEF Alone
<1>2. \A s \in Stage : step[s].status = "copying" => step[s].attempt \in Run
  BY DEF Inv, Records, Present
<1>3. QED
  BY <1>1, <1>2 DEF Alone, OverPC

\* Who takes a step is at work, or takes the lock, or a late write of it
\* lands.
LEMMA AtWork ==
    ASSUME NEW r \in Run, RunStep(r), ~Acquire(r), ~LateWrite(r)
    PROVE  pc[r] \notin OverPC
<1> USE DEF OverPC
<1>1. CASE Copying(r)
  BY <1>1 DEF Copying, GetStep, BeginStep, CopyOk, CopyRejected, CopyUnknown,
     CancelStep, FinishStep
<1>2. CASE Filling(r)
  BY <1>2 DEF Filling, Decide, FillGet, Claim, FillWrite, FillWriteLost,
     FillReturn, FinishFill, Details, FillFault, FillError, Save
<1>3. CASE Delivering(r)
  BY <1>3 DEF Delivering, Deliver, Rename, NameSave, Reuse, Complete, Notify
<1>4. CASE Skip(r) \/ Load(r) \/ Create(r) \/ ReadStep(r) \/ Check(r)
           \/ Abort(r) \/ Close(r) \/ Crash(r)
  BY <1>4 DEF Skip, Load, Create, ReadStep, Check, Abort, Close, Crash
<1>5. QED  BY <1>1, <1>2, <1>3, <1>4 DEF RunStep, Proceed

\* A run that has the lock spends no late request, and keeps the lock until
\* it ends.
LEMMA LockSteps ==
    ASSUME LockTypes, NEW r \in Run, RunStep(r), owner = r
    PROVE  /\ \A q \in Run : grace'[q] = grace[q] \/ grace'[q] = 0
           /\ owner' = r \/ Close(r) \/ Acquire(r)
<1> USE DEF LockTypes, Pass
<1>1. CASE Copying(r)
  BY <1>1 DEF Copying, GetStep, BeginStep, CopyOk, CopyRejected, CopyUnknown,
     CancelStep, FinishStep
<1>2. CASE Filling(r)
  BY <1>2 DEF Filling, Decide, FillGet, Claim, FillWrite, FillWriteLost,
     FillReturn, FinishFill, Details, FillFault, FillError, Save
<1>3. CASE Delivering(r)
  BY <1>3 DEF Delivering, Deliver, Rename, NameSave, Reuse, Complete, Notify
<1>4. CASE Acquire(r) \/ Skip(r) \/ Load(r) \/ Create(r) \/ ReadStep(r)
           \/ Check(r) \/ Abort(r) \/ Close(r) \/ Crash(r) \/ LateWrite(r)
  BY <1>4 DEF Acquire, Skip, Load, Create, ReadStep, Check, Abort, Close, Crash,
     LateWrite, Discard
<1>5. QED  BY <1>1, <1>2, <1>3, <1>4 DEF RunStep, Proceed

\* Which steps leave a doubt: a lost answer, or an end over a placeholder.
LEMMA Doubts ==
    ASSUME NEW r \in Run, RunStep(r), doubt' # doubt
    PROVE  BeginStep(r) \/ CopyUnknown(r) \/ Claim(r) \/ FillFault(r)
           \/ Abort(r) \/ Crash(r)
<1>1. CASE Copying(r)
  BY <1>1 DEF Copying, GetStep, CopyOk, CopyRejected, CancelStep, FinishStep
<1>2. CASE Filling(r)
  BY <1>2 DEF Filling, Decide, FillGet, FillWrite, FillWriteLost,
     FillReturn, FinishFill, Details, FillError, Save
<1>3. CASE Delivering(r)
  BY <1>3 DEF Delivering, Deliver, Rename, NameSave, Reuse, Complete, Notify
<1>4. CASE Acquire(r) \/ Skip(r) \/ Load(r) \/ Create(r) \/ ReadStep(r)
           \/ Check(r) \/ Abort(r) \/ Close(r) \/ Crash(r) \/ LateWrite(r)
  BY <1>4 DEF Acquire, Skip, Load, Create, ReadStep, Check, Close, LateWrite
<1>5. QED  BY <1>1, <1>2, <1>3, <1>4 DEF RunStep, Proceed

\* A doubt stays.
LEMMA DoubtStays ==
    ASSUME LockTypes, NEW r \in Run, RunStep(r), doubt PROVE doubt'
<1>1. CASE doubt' = doubt
  BY <1>1
<1>2. CASE BeginStep(r)
  BY <1>2 DEF BeginStep
<1>3. CASE CopyUnknown(r)
  BY <1>3 DEF CopyUnknown
<1>4. CASE Claim(r)
  BY <1>4 DEF Claim
<1>5. CASE FillFault(r) \/ Abort(r) \/ Crash(r)
  <2>1. doubt' = (doubt \/ pc[r] = "finishfill")
        \/ doubt' = (doubt \/ pc[r] \in Held)
    BY <1>5 DEF FillFault, Abort, Crash
  <2>2. QED  BY <2>1
<1>6. QED  BY <1>1, <1>2, <1>3, <1>4, <1>5, Doubts

\* What a step that leaves no doubt cannot have been.
LEMMA NoDoubts ==
    ASSUME TypeOK, NEW r \in Run, RunStep(r), ~doubt'
    PROVE  /\ BeginStep(r) => pc'[r] = "copy" \/ Present(stage[r])
           /\ ~CopyUnknown(r)
           /\ Claim(r) => pc'[r] = "filling" \/ fill' = fill
           /\ FillFault(r) => pc[r] # "finishfill"
           /\ Abort(r) \/ Crash(r) => pc[r] \notin Held
<1>1. BeginStep(r) =>
         pc' = [pc EXCEPT ![r] = "copy"] \/ Present(stage[r])
  BY DEF BeginStep, Goto
<1>2. ~CopyUnknown(r)
  BY DEF CopyUnknown
<1>3. Claim(r) => pc' = [pc EXCEPT ![r] = "filling"] \/ fill' = fill
  BY DEF Claim, Goto
<1>4. FillFault(r) => pc[r] # "finishfill"
  <2>1. FillFault(r) => doubt' = (doubt \/ pc[r] = "finishfill")
    BY DEF FillFault
  <2>2. QED  BY <2>1
<1>5. Abort(r) \/ Crash(r) => pc[r] \notin Held
  <2>1. Abort(r) \/ Crash(r) => doubt' = (doubt \/ pc[r] \in Held)
    BY DEF Abort, Crash
  <2>2. QED  BY <2>1
<1>6. QED
  BY <1>1, <1>2, <1>3, <1>4, <1>5 DEF TypeOK, RunTypes

-----------------------------------------------------------------------------
(* Who works while the lock is not in doubt.                               *)

\* A late write that lands changes nothing runs go by.
LEMMA LateIsAlone ==
    ASSUME Alone, NEW r \in Run, LateWrite(r) PROVE Alone'
<1>1. UNCHANGED <<owner, grace, batch, step, fill, pc, stage, seen, known,
                  name, verdict, result>>
  BY DEF LateWrite, store, local
<1>2. QED
  BY <1>1 DEF Alone, Present, HasRead

\* Who takes the lock finds nobody at work.
LEMMA AcquireAlone ==
    ASSUME Inv, Alone, NEW r \in Run, Acquire(r) PROVE Alone'
<1> USE DEF Inv, TypeOK, RunTypes
<1>1. /\ \A q \in Run : pc[q] \in OverPC
      /\ owner' = r
      /\ pc' = [pc EXCEPT ![r] = "load"]
      /\ UNCHANGED <<grace, batch, step, fill, stage, seen, name, verdict,
                     result>>
  <2>1. owner = None /\ None \notin Run
    BY ThreeCopyAssumption DEF Acquire
  <2>2. \A q \in Run : pc[q] \in OverPC
    BY <2>1 DEF Alone
  <2>3. QED
    BY <2>2 DEF Acquire, Goto, store, local
<1>2. /\ \A s \in Stage : step[s].status # "copying"
      /\ fill.status # "running"
  <2>1. \A s \in Stage : step[s].status = "copying" => step[s].attempt \in Run
    BY DEF Records, Present
  <2>2. /\ \A s \in Stage : step[s].status = "copying" =>
              pc[step[s].attempt] \in {"copy", "cancel", "finish"}
        /\ fill.status = "running" =>
              fill.attempt \in Run
              /\ pc[fill.attempt] \in {"filling", "finishfill"}
    BY DEF Alone
  <2>3. QED
    BY <1>1, <2>1, <2>2 DEF OverPC
<1>3. \A q \in Run : pc'[q] \in OverPC \/ (q = r /\ pc'[q] = "load")
  BY <1>1
<1>4. ASSUME NEW q \in Run
      PROVE  /\ grace'[q] = 0
             /\ pc'[q] \notin OverPC => owner' = q
             /\ pc'[q] \notin OutPC \cup {"notify"} => seen'[q] = batch'.status
             /\ pc'[q] = "create" => batch'.status = "absent"
             /\ pc'[q] = "begin" => ~Present(stage[q])'
             /\ pc'[q] \in NamedPC => name'[q] = step'["filled"].name
             /\ pc'[q] = "details" => verdict'[q] # "running"
             /\ result'[q] \notin {"blocked", "raced", "gap"}
             /\ \A s \in Stage : ~HasRead(q, s)'
  BY <1>1, <1>3 DEF Alone, OverPC, OutPC, NamedPC, FillPC, HasRead
<1>5. QED
  BY <1>1, <1>2, <1>4 DEF Alone, Present

\* What the run at work knows of the records is so, and it leaves none of
\* its placeholders behind, unless it leaves a doubt.
LEMMA WorkerAlone ==
    ASSUME Inv, Inv', Begun, Claims, Names, Alone, NEW r \in Run, RunStep(r),
           ~Acquire(r), ~LateWrite(r), ~doubt'
    PROVE  Alone'
<1> USE DEF Inv, TypeOK, RunTypes
<1>1. pc[r] \notin OverPC /\ stage[r] \in Stage /\ Placed(r) /\ pc'[r] \in PC
  BY AtWork DEF Holds
<1>2. /\ owner = r
      /\ \A q \in Run \ {r} : pc[q] \in OverPC
      /\ \A s \in Stage : step[s].status = "copying" =>
            /\ pc[r] \in {"copy", "cancel", "finish"}
            /\ stage[r] = s
            /\ step[s].attempt = r
      /\ fill.status = "running" =>
            pc[r] \in {"filling", "finishfill"} /\ fill.attempt = r
  BY <1>1, OnlyOwner
<1>3. \A q \in Run \ {r} : /\ pc'[q] = pc[q] /\ pc'[q] \in OverPC
                           /\ result'[q] = result[q]
  BY <1>2, FixedLocals
<1>4. \A q \in Run : grace'[q] = 0
  <2>1. \A q \in Run : grace[q] = 0
    BY DEF Alone
  <2>2. QED  BY <1>2, <2>1, LockSteps
<1>5. \A q \in Run : pc'[q] \notin OverPC => owner' = q
  <2>1. Close(r) => pc'[r] \in OverPC
    BY DEF Close, Goto, OverPC
  <2>2. QED  BY <1>2, <1>3, <2>1, LockSteps
<1>6. pc'[r] \notin OutPC \cup {"notify"} => seen'[r] = batch'.status
  <2>1. CASE Load(r)
    BY <2>1 DEF Load, Goto, store, OutPC
  <2>2. CASE Create(r)
    BY <2>2 DEF Create, Fail, OutPC
  <2>3. CASE Close(r) \/ Crash(r)
    BY <2>3 DEF Close, Crash, Goto, OutPC
  <2>4. CASE Complete(r)
    BY <2>4 DEF Complete, Fail, OutPC
  <2>5. CASE seen' = seen /\ batch' = batch
    <3>1. CASE pc[r] \notin OutPC \cup {"notify"}
      BY <2>5, <3>1 DEF Alone
    <3>2. CASE pc[r] \in OutPC \cup {"notify"} /\ ~Load(r) /\ ~Create(r)
      BY <1>1, <3>2, Arrivals, Places DEF PC, OutPC
    <3>3. QED  BY <2>1, <2>2, <3>1, <3>2
  <2>6. QED
    BY <2>1, <2>2, <2>3, <2>4, <2>5, SharedWrites, LocalWrites
<1>7. pc'[r] = "create" => batch'.status = "absent"
  <2>1. CASE pc'[r] = pc[r] /\ pc[r] = "create"
    BY <2>1, Stays DEF FillWrite, LateWrite, GetStep
  <2>2. CASE Load(r)
    BY <2>2 DEF Load, Goto, store
  <2>3. QED  BY <2>1, <2>2, Arrivals
<1>8. pc'[r] = "begin" => ~Present(stage[r])'
  <2>1. CASE pc'[r] = pc[r] /\ pc[r] = "begin"
    BY <2>1, Stays DEF FillWrite, LateWrite, GetStep
  <2>2. CASE GetStep(r) /\ pc'[r] = "begin"
    <3>1. stage'[r] = stage[r] /\ step' = step /\ ~Present(stage[r])
      BY <1>1, <2>2 DEF GetStep, Goto, Fail, After, Stage, store
    <3>2. QED  BY <3>1 DEF Present
  <2>3. QED  BY <2>1, <2>2, Arrivals
<1>9. pc'[r] \in NamedPC => name'[r] = step'["filled"].name
  <2>1. CASE GetStep(r)
    <3>1. step' = step /\ pc[r] = "get"
      BY <2>1 DEF GetStep, store
    <3>2. pc'[r] \in NamedPC => name'[r] = step["filled"].name
      BY <1>1, <2>1 DEF GetStep, Goto, Fail, After, Stage, NamedPC, FillPC
    <3>3. QED  BY <3>1, <3>2
  <2>2. CASE FinishStep(r)
    <3>1. CASE stage[r] = "filled" /\ Mine(r)
      <4>1. name'[r] = "incomplete"
            /\ step'["filled"].name = step["filled"].name
        BY <2>2, <3>1 DEF FinishStep, RecordTypes, Stage
      <4>2. ~Decided
        BY <3>1 DEF Mine, Records, Copied
      <4>3. QED  BY <4>1, <4>2 DEF Names
    <3>2. CASE stage[r] # "filled" \/ ~Mine(r)
      BY <1>1, <2>2, <3>2 DEF FinishStep, Answer, Goto, Fail, After, Stage,
         NamedPC, FillPC
    <3>3. QED  BY <3>1, <3>2
  <2>3. CASE NameSave(r) \/ BeginStep(r) \/ CancelStep(r)
    BY <2>3 DEF NameSave, BeginStep, CancelStep, Answer, Goto, Fail, NamedPC,
       FillPC
  <2>4. CASE Close(r) \/ Crash(r)
    BY <2>4 DEF Close, Crash, Goto, NamedPC, FillPC
  <2>5. CASE /\ name' = name /\ step' = step
             /\ ~GetStep(r) /\ ~FinishStep(r)
    <3>1. pc'[r] \in NamedPC => pc[r] \in NamedPC
      BY <2>5, Arrivals, Places DEF NamedPC, FillPC
    <3>2. QED  BY <2>5, <3>1 DEF Alone
  <2>6. QED
    BY <2>1, <2>2, <2>3, <2>4, <2>5, SharedWrites, LocalWrites
<1>10. pc'[r] = "details" => verdict'[r] # "running"
  <2>1. CASE pc'[r] = pc[r] /\ pc[r] = "details"
    BY <2>1, Stays DEF FillWrite, LateWrite, GetStep, local, Alone
  <2>2. CASE FillGet(r)
    BY <1>2, <2>2 DEF FillGet
  <2>3. CASE FinishFill(r)
    BY <2>3 DEF FinishFill, local, Claims
  <2>4. QED  BY <2>1, <2>2, <2>3, Arrivals
<1>11. result'[r] \notin {"blocked", "raced", "gap"}
  <2>1. CASE result'[r] = result[r]
    BY <2>1 DEF Alone
  <2>2. CASE Create(r)
    BY <2>2 DEF Create, Answer, Goto, Fail, Alone
  <2>3. CASE Check(r)
    <3>1. pc[r] = "check" /\ \A s \in Stage : known[r][s] = step[s].status
      BY <2>3 DEF Check, Alone, HasRead
    <3>2. ~Gap(r)
      BY <3>1, NoGap DEF Holds, Knows
    <3>3. QED
      BY <1>2, <2>3, <3>1, <3>2 DEF Check, Goto, Fail, Alone
  <2>4. CASE GetStep(r)
    BY <1>1, <1>2, <2>4 DEF GetStep, Goto, Fail, Alone
  <2>5. CASE BeginStep(r)
    BY <1>1, <2>5 DEF BeginStep, Goto, Fail, Alone
  <2>6. CASE FinishStep(r)
    BY <1>1, <2>6 DEF FinishStep, Placed, Answer, Goto, Fail, Alone
  <2>7. CASE Details(r)
    BY <2>7 DEF Details, Goto, Fail, Alone
  <2>8. CASE FillError(r)
    BY <1>2, <2>8 DEF FillError, Goto, Fail, Alone
  <2>9. CASE NameSave(r)
    BY <2>9 DEF NameSave, Answer, Goto, Fail, Alone, NamedPC
  <2>10. CASE Complete(r)
    <3>1. batch.status = "copying"
      BY <2>10 DEF Complete, Begun, Alone, OutPC, RecordTypes
    <3>2. QED  BY <2>10, <3>1 DEF Complete, Fail
  <2>11. QED
    BY <2>1, <2>2, <2>3, <2>4, <2>5, <2>6, <2>7, <2>8, <2>9, <2>10, Results
<1>12. ASSUME NEW s \in Stage, step'[s].status = "copying"
       PROVE  /\ pc'[r] \in {"copy", "cancel", "finish"}
              /\ stage'[r] = s
              /\ step'[s].attempt = r
  <2> USE DEF RecordTypes
  <2>1. CASE BeginStep(r)
    <3>1. CASE ~Present(stage[r])
      <4>1. pc'[r] = "copy" /\ stage' = stage
        BY <2>1, <3>1, NoDoubts DEF BeginStep, local
      <4>2. step' = [step EXCEPT ![stage[r]] =
                        [status |-> "copying", attempt |-> r,
                         from |-> Wanted(stage[r]), name |-> "incomplete"]]
        BY <2>1, <3>1 DEF BeginStep
      <4>3. s = stage[r]
        BY <1>1, <1>2, <1>12, <2>1, <4>2 DEF BeginStep
      <4>4. QED  BY <1>1, <4>1, <4>2, <4>3
    <3>2. CASE Present(stage[r])
      BY <1>2, <1>12, <2>1, <3>2 DEF BeginStep
    <3>3. QED  BY <3>1, <3>2
  <2>2. CASE CancelStep(r)
    <3>1. pc[r] = "cancel" /\ Mine(r)
      BY <1>1, <2>2 DEF CancelStep, Placed
    <3>2. step' = [step EXCEPT ![stage[r]] = NoStep]
      BY <2>2, <3>1 DEF CancelStep
    <3>3. s # stage[r] /\ step'[s] = step[s]
      BY <1>1, <1>12, <3>2 DEF NoStep
    <3>4. QED  BY <1>2, <1>12, <3>3
  <2>3. CASE FinishStep(r)
    <3>1. pc[r] = "finish" /\ Mine(r)
      BY <1>1, <2>3 DEF FinishStep, Placed
    <3>2. step' = [step EXCEPT ![stage[r]].status = "copied"]
      BY <2>3, <3>1 DEF FinishStep
    <3>3. s # stage[r] /\ step'[s] = step[s]
      BY <1>1, <1>12, <3>2
    <3>4. QED  BY <1>2, <1>12, <3>3
  <2>4. CASE NameSave(r)
    <3>1. step[s].status = "copying" /\ pc[r] = "namesave"
      <4>1. /\ pc[r] = "namesave"
            /\ \/ step' = step
               \/ step' = [step EXCEPT !["filled"].name = FinalName]
        BY <2>4 DEF NameSave
      <4>2. step'[s].status = step[s].status
        <5>1. CASE s = "filled"
          BY <4>1, <5>1
        <5>2. CASE s # "filled"
          BY <4>1, <5>2
        <5>3. QED  BY <5>1, <5>2
      <4>3. QED  BY <1>12, <4>1, <4>2
    <3>2. QED  BY <1>2, <3>1
  <2>5. CASE step' = step
    <3>1. /\ pc[r] \in {"copy", "cancel", "finish"}
          /\ stage[r] = s /\ step[s].attempt = r
      BY <1>2, <1>12, <2>5
    <3>2. CopyOk(r) \/ CopyRejected(r)
      <4>1. ~CancelStep(r) /\ ~FinishStep(r)
        <5>1. Mine(r)
          BY <1>1, <3>1 DEF Placed
        <5>2. step'[s].status = "copying" /\ stage[r] = s
          BY <1>12, <3>1
        <5>3. ~CancelStep(r)
          BY <5>1, <5>2 DEF CancelStep, NoStep
        <5>4. ~FinishStep(r)
          BY <5>1, <5>2 DEF FinishStep
        <5>5. QED  BY <5>3, <5>4
      <4>2. ~CopyUnknown(r) /\ ~Abort(r) /\ ~Crash(r)
        BY <3>1, NoDoubts DEF Held
      <4>3. Copying(r) \/ Abort(r) \/ Crash(r)
        BY <3>1 DEF RunStep, Proceed, Acquire, Skip, Load, Create, ReadStep,
           Check, Filling, Decide, FillGet, Claim, FillWrite, FillWriteLost,
           FillReturn, FinishFill, Details, FillFault, FillError, Save,
           Delivering, Deliver, Rename, NameSave, Reuse, Complete, Notify,
           Close
      <4>4. QED
        BY <3>1, <4>1, <4>2, <4>3 DEF Copying, GetStep, BeginStep
    <3>3. pc'[r] \in {"cancel", "finish"} /\ stage' = stage
      BY <3>2 DEF CopyOk, CopyRejected, Goto, local
    <3>4. QED  BY <2>5, <3>1, <3>3
  <2>6. QED
    BY <2>1, <2>2, <2>3, <2>4, <2>5, SharedWrites
<1>13. fill'.status = "running" =>
          pc'[r] \in {"filling", "finishfill"} /\ fill'.attempt = r
  <2>1. CASE Claim(r)
    <3>1. fill' = fill => fill.status # "running"
      BY <1>2, <2>1 DEF Claim
    <3>2. fill' # fill => pc'[r] = "filling" /\ fill'.attempt = r
      <4>1. fill' # fill => fill' = [status |-> "running", attempt |-> r]
        BY <2>1 DEF Claim
      <4>2. fill' # fill => pc'[r] = "filling"
        BY <2>1, NoDoubts
      <4>3. QED  BY <4>1, <4>2
    <3>3. QED  BY <3>1, <3>2
  <2>2. CASE FinishFill(r)
    <3>1. pc[r] = "finishfill" /\ fill = [status |-> "running", attempt |-> r]
      BY <2>2 DEF FinishFill, Claims
    <3>2. fill' = [fill EXCEPT !.status = verdict[r]]
      BY <2>2, <3>1 DEF FinishFill
    <3>3. verdict[r] # "running"
      BY <3>1 DEF Claims
    <3>4. QED  BY <3>1, <3>2, <3>3
  <2>3. CASE fill' = fill /\ fill.status = "running" /\ ~FinishFill(r)
    <3>1. pc[r] \in {"filling", "finishfill"} /\ fill.attempt = r
      BY <1>2, <2>3
    <3>2. ~Crash(r) /\ ~Abort(r) /\ ~FillFault(r)
      BY <3>1, NoDoubts DEF Held, FillFault
    <3>3. FillWrite(r) \/ FillWriteLost(r) \/ FillReturn(r)
      BY <2>3, <3>1, <3>2 DEF RunStep, Proceed, Acquire, Skip, Load, Create,
         ReadStep, Check, Copying, GetStep, BeginStep, CopyOk, CopyRejected,
         CopyUnknown, CancelStep, FinishStep, Filling, Decide, FillGet, Claim,
         Details, FillError, Save, Delivering, Deliver, Rename, NameSave,
         Reuse, Complete, Notify, Close
    <3>4. pc'[r] \in {"filling", "finishfill"}
      BY <3>1, <3>3 DEF FillWrite, FillWriteLost, FillReturn, Goto
    <3>5. QED  BY <2>3, <3>1, <3>4
  <2>4. CASE fill' = fill /\ fill.status # "running"
    BY <2>4
  <2>5. QED
    BY <2>1, <2>2, <2>3, <2>4, SharedWrites
<1>14. ASSUME NEW s \in Stage, HasRead(r, s)'
       PROVE  known'[r][s] = step'[s].status
  <2>1. CASE ReadStep(r)
    <3>1. /\ known' = [known EXCEPT ![r][stage[r]] = step[stage[r]].status]
          /\ stage' = [stage EXCEPT ![r] = NextStep(stage[r])]
          /\ step' = step
          /\ pc[r] = "read"
      BY <2>1 DEF ReadStep, store
    <3>2. HasRead(r, s) \/ s = stage[r]
      BY <1>1, <1>14, <2>1, <3>1 DEF HasRead, NextStep, Stage, ReadStep, Goto
    <3>3. QED
      BY <1>1, <3>1, <3>2 DEF Alone
  <2>2. CASE ~ReadStep(r)
    <3>1. pc'[r] \in {"read", "check"} /\ pc'[r] # pc[r]
      BY <1>14, <2>2, Stays
         DEF HasRead, FillWrite, LateWrite, GetStep
    <3>2. pc'[r] = "read" /\ (Load(r) \/ Create(r))
      BY <2>2, <3>1, Arrivals
    <3>3. stage'[r] = "original"
      BY <1>1, <3>2 DEF Load, Create, Placed
    <3>4. QED  BY <1>14, <3>2, <3>3 DEF HasRead
  <2>3. QED  BY <2>1, <2>2
<1>15. \A q \in Run \ {r}, s \in Stage : ~HasRead(q, s)'
  BY <1>3 DEF HasRead, OverPC
<1>16. QED
  BY <1>3, <1>4, <1>5, <1>6, <1>7, <1>8, <1>9, <1>10, <1>11, <1>12, <1>13,
     <1>14, <1>15
     DEF Alone, OverPC, OutPC, NamedPC, FillPC

-----------------------------------------------------------------------------
(* The invariants, for the first state and for every step.                 *)

\* What is so however the report of a fill may fail.
Order == Inv /\ Begun /\ Claims /\ Made /\ Names /\ Cards

\* The environment: it writes to no record and to no file.
Around == Forget \/ LoseLock \/ Edit \/ UNCHANGED vars

\* The environment touches no record and no local variable of a run.
LEMMA AroundKeeps ==
    ASSUME Around
    PROVE  UNCHANGED <<batch, step, fill, outcome, file, title, late,
                       announced, pc, stage, seen, known, name, verdict,
                       degraded, writing, result>>
  BY DEF Around, Forget, LoseLock, Edit, vars, store, drive, local

\* What only speaks of records, files and local variables is kept by the
\* environment.
LEMMA AroundOrder ==
    ASSUME Begun, Claims, Made, Names, Cards, Around
    PROVE  Begun' /\ Claims' /\ Made' /\ Names' /\ Cards'
<1>1. Begun'
  BY AroundKeeps DEF Begun, Decided, Copied
<1>2. Claims'
  BY AroundKeeps DEF Claims, Sound
<1>3. Made'
  BY AroundKeeps DEF Made, Copied, Token, NoFile
<1>4. Names'
  BY AroundKeeps DEF Names, Decided, FinalName
<1>5. Cards'
  BY AroundKeeps DEF Cards
<1>6. QED  BY <1>1, <1>2, <1>3, <1>4, <1>5

\* Nor does it touch what the files of the batch contain.
LEMMA AroundContents ==
    ASSUME Contents, Writes, Around PROVE Contents' /\ Writes'
<1>1. Contents'
  BY AroundKeeps DEF Contents, Decided, Token, NoFile
<1>2. Writes'
  BY AroundKeeps DEF Writes, Filled, Token
<1>3. QED  BY <1>1, <1>2

\* Before the first run there is no batch, no record and no file.
LEMMA InitOrder == Init => Order
<1> SUFFICES ASSUME Init PROVE Order
  OBVIOUS
<1>1. Inv
  BY InitInv
<1> USE DEF Init
<1>2. Begun
  BY DEF Begun, Decided, NoOutcome, OutPC, NoFill, FillingPC, FillPC
<1>3. Claims
  BY DEF Claims, NoOutcome
<1>4. Made
  BY DEF Made, Copied, NoStep
<1>5. Names
  BY DEF Names, NoStep, NoBatch, CopyPC, Stage
<1>6. Cards
  BY DEF Cards
<1>7. QED
  BY <1>1, <1>2, <1>3, <1>4, <1>5, <1>6 DEF Order

\* There is nothing to write to either.
LEMMA InitContents == Init => Contents /\ Writes
<1> SUFFICES ASSUME Init PROVE Contents /\ Writes
  OBVIOUS
<1>1. Contents
  BY DEF Init, Contents, FileId, Stage
<1>2. Writes
  BY DEF Init, Writes
<1>3. QED  BY <1>1, <1>2

\* No run is at work, so the next one starts alone.
LEMMA InitAlone == Init => Alone
  BY DEF Init, Alone, OverPC, OutPC, NamedPC, FillPC, NoStep, NoFill, HasRead

\* The order holds after every step, of a run or of its environment.
LEMMA NextOrder == Order /\ [Next]_vars => Order'
<1> SUFFICES ASSUME Order, [Next]_vars PROVE Order'
  OBVIOUS
<1>1. Inv'
  BY NextInv DEF Order
<1>2. ASSUME NEW r \in Run, RunStep(r) PROVE Order'
  BY <1>1, <1>2, BegunKept, ClaimsKept, MadeKept, NamesKept, CardsKept
     DEF Order, Inv
<1>3. CASE Around
  BY <1>1, <1>3, AroundOrder DEF Order
<1>4. QED  BY <1>2, <1>3 DEF Next, RunStep, Around

\* So does what the files contain, if the report of a fill is saved.
LEMMA NextContents ==
    ASSUME ReportFails = FALSE, Order, Order', Contents, Writes, [Next]_vars
    PROVE  Contents' /\ Writes'
<1>1. ASSUME NEW r \in Run, RunStep(r) PROVE Contents' /\ Writes'
  BY <1>1, ContentsKept, WritesKept DEF Order
<1>2. CASE Around
  BY <1>2, AroundContents
<1>3. QED  BY <1>1, <1>2 DEF Next, RunStep, Around

\* A run stays alone until the lock of one that may be alive is taken over.
LEMMA NextAlone ==
    ASSUME Order, Order', doubt \/ Alone, [Next]_vars
    PROVE  doubt' \/ Alone'
<1> SUFFICES ASSUME ~doubt' PROVE Alone'
  OBVIOUS
<1>1. LockTypes
  BY DEF Order, Inv, TypeOK
<1>2. ASSUME NEW r \in Run, RunStep(r) PROVE Alone'
  <2>1. Alone
    BY <1>1, <1>2, DoubtStays
  <2>2. CASE Acquire(r)
    BY <2>1, <2>2, AcquireAlone DEF Order
  <2>3. CASE LateWrite(r)
    BY <2>1, <2>3, LateIsAlone
  <2>4. CASE ~Acquire(r) /\ ~LateWrite(r)
    BY <1>2, <2>1, <2>4, WorkerAlone DEF Order
  <2>5. QED  BY <2>2, <2>3, <2>4
<1>3. CASE Forget
  <2>1. Alone
    BY <1>3 DEF Forget
  <2>2. UNCHANGED <<grace, batch, step, fill, pc, stage, seen, known, name,
                    verdict, result>>
    BY <1>3 DEF Forget, store, local
  <2>3. \A q \in Run : pc[q] \in OverPC
    BY <1>3, <2>1 DEF Forget, Ended, Alone, OverPC
  <2>4. QED
    BY <2>1, <2>2, <2>3 DEF Alone, Present, HasRead
<1>4. ~LoseLock
  BY DEF LoseLock
<1>5. CASE Edit \/ UNCHANGED vars
  <2>1. UNCHANGED <<owner, doubt, grace, batch, step, fill, pc, stage, seen,
                    known, name, verdict, result>>
    BY <1>5 DEF Edit, vars, store, local
  <2>2. Alone
    BY <2>1
  <2>3. QED  BY <2>1, <2>2 DEF Alone, Present, HasRead
<1>6. QED  BY <1>2, <1>3, <1>4, <1>5 DEF Next, RunStep

-----------------------------------------------------------------------------
(* What a run at the head of run_three_copy has read, and what may have    *)
(* happened since.                                                         *)

\* Run r read the record of stage s, and there was none.
ReadAbsent(r, s) == HasRead(r, s) /\ known[r][s] = "absent"

\* A run q that makes stage s after r read it as absent has spent a late
\* request for the placeholder, and one more for the copy.
Spent(q, s) ==
    stage[q] = s => /\ pc[q] = "copy" => grace[q] < Grace
                    /\ pc[q] = "finish" => grace[q] + 1 < Grace

\* What a run has read of a later stage shows that the one before it is
\* confirmed.  What it read as absent is not confirmed, as long as it holds
\* the lock.
Reading ==
    \A r \in Run :
       /\ HasRead(r, "filled") /\ known[r]["filled"] # "absent"
          => Copied("original")
       /\ HasRead(r, "delivery") /\ known[r]["delivery"] # "absent"
          => Copied("filled")
       /\ owner = r =>
             \A s \in Stage : ReadAbsent(r, s) =>
                /\ ~Copied(s)
                /\ \A q \in Run \ {r} : Spent(q, s)

\* The holder of the lock finds no gap, whatever it read before.
LEMMA HolderReads ==
    ASSUME Inv, Reading, NEW r \in Run, pc[r] = "check", owner = r
    PROVE  ~Gap(r)
<1>1. \A s \in Stage : known[r][s] = "absent" => ~Copied(s)
  BY DEF Reading, ReadAbsent, HasRead
<1>2. /\ known[r]["filled"] # "absent" => Copied("original")
      /\ known[r]["delivery"] # "absent" => Copied("filled")
  BY DEF Reading, HasRead
<1>3. /\ Decided => Copied("original") /\ Copied("filled")
      /\ seen[r] = "copied" => Copied("delivery") /\ Decided
  BY DEF Inv, Holds, Knows, Records, Copied, Present
<1>4. /\ known[r]["original"] = "absent" => ~Copied("original")
      /\ known[r]["filled"] = "absent" => ~Copied("filled")
      /\ known[r]["delivery"] = "absent" => ~Copied("delivery")
  BY <1>1 DEF Stage
<1>5. ASSUME seen[r] = "copied", NEW s \in Stage PROVE known[r][s] # "absent"
  BY <1>3, <1>4, <1>5 DEF Stage
<1>6. QED
  BY <1>2, <1>3, <1>4, <1>5 DEF Gap

\* A run arrives at the head of run_three_copy before it has read anything.
LEMMA FirstRead ==
    ASSUME Inv, NEW r \in Run, RunStep(r), ~ReadStep(r), NEW s \in Stage,
           HasRead(r, s)'
    PROVE  /\ HasRead(r, s)
           /\ known'[r] = known[r]
           /\ pc'[r] = pc[r]
<1> USE DEF Inv, TypeOK, RunTypes
<1>1. pc'[r] \in {"read", "check"}
  BY DEF HasRead
<1>2. CASE pc'[r] # pc[r]
  <2>1. pc'[r] = "read" /\ (Load(r) \/ Create(r))
    BY <1>1, <1>2, Arrivals
  <2>2. stage'[r] = "original"
    BY <2>1 DEF Load, Create, Holds, Placed
  <2>3. QED  BY <2>1, <2>2 DEF HasRead
<1>3. CASE pc'[r] = pc[r]
  <2>1. LateWrite(r)
    BY <1>1, <1>3, Stays DEF FillWrite, GetStep
  <2>2. QED
    BY <1>3, <2>1 DEF LateWrite, local, HasRead
<1>4. QED  BY <1>2, <1>3

\* What a run learns from reading one more record.
LEMMA OneMoreRead ==
    ASSUME Inv, NEW r \in Run, ReadStep(r), NEW s \in Stage, HasRead(r, s)'
    PROVE  \/ HasRead(r, s) /\ known'[r][s] = known[r][s]
           \/ s = stage[r] /\ known'[r][s] = step[s].status
<1> USE DEF Inv, TypeOK, RunTypes
<1>1. /\ known' = [known EXCEPT ![r][stage[r]] = step[stage[r]].status]
      /\ stage' = [stage EXCEPT ![r] = NextStep(stage[r])]
      /\ pc[r] = "read"
      /\ stage[r] \in Stage
  BY DEF ReadStep
<1>2. HasRead(r, s) \/ s = stage[r]
  BY <1>1 DEF HasRead, NextStep, Stage, ReadStep, Goto
<1>3. QED  BY <1>1, <1>2

\* Who makes a stage spends a late request for every step of it.
LEMMA SpentKept ==
    ASSUME Inv, NEW r \in Run, NEW q \in Run, q # r, owner = r, RunStep(q),
           NEW s \in Stage, Spent(q, s)
    PROVE  Spent(q, s)'
<1> USE DEF Inv, TypeOK, RunTypes, LockTypes
<1>1. grace[q] \in 0..Grace /\ Grace \in Nat /\ stage[q] \in Stage
  BY ThreeCopyAssumption
<1>2. CASE BeginStep(q) \/ CopyOk(q)
  <2>1. /\ grace[q] > 0 /\ grace' = [grace EXCEPT ![q] = @ - 1]
        /\ stage' = stage
    BY <1>2 DEF BeginStep, CopyOk, Pass, local
  <2>2. grace'[q] = grace[q] - 1
    BY <2>1
  <2>3. CASE BeginStep(q)
    <3>1. pc'[q] \in {"copy", "closing"}
      BY <2>3 DEF BeginStep, Goto, Fail
    <3>2. QED  BY <1>1, <2>1, <2>2, <3>1 DEF Spent
  <2>4. CASE CopyOk(q)
    <3>1. pc[q] = "copy" /\ pc'[q] = "finish"
      BY <2>4 DEF CopyOk, Goto
    <3>2. QED  BY <1>1, <2>1, <2>2, <3>1 DEF Spent
  <2>5. QED  BY <1>2, <2>3, <2>4
<1>3. CASE ~BeginStep(q) /\ ~CopyOk(q)
  <2>1. pc'[q] # pc[q] => pc'[q] \notin {"copy", "finish"}
    BY <1>3, Arrivals
  <2>2. CASE pc'[q] = pc[q] /\ pc[q] \in {"copy", "finish"}
    <3>1. LateWrite(q)
      BY <2>2, Stays DEF FillWrite, GetStep
    <3>2. UNCHANGED <<grace, stage, pc>>
      BY <3>1 DEF LateWrite, local
    <3>3. QED  BY <3>2 DEF Spent
  <2>3. QED  BY <2>1, <2>2 DEF Spent
<1>4. QED  BY <1>2, <1>3

\* With two late requests a run cannot make a whole stage.
LEMMA NotConfirmed ==
    ASSUME Grace <= 2, Inv, NEW r \in Run, NEW q \in Run, q # r, owner = r,
           RunStep(q), NEW s \in Stage, ~Copied(s), Spent(q, s)
    PROVE  ~Copied(s)'
<1> USE DEF Inv, TypeOK, RunTypes, LockTypes, RecordTypes
<1>1. grace[q] \in Nat /\ Grace \in Nat /\ stage[q] \in Stage
  BY ThreeCopyAssumption
<1>2. CASE FinishStep(q)
  <2>1. pc[q] = "finish" /\ grace[q] > 0
    BY <1>2 DEF FinishStep, Pass
  <2>2. stage[q] # s
    BY <1>1, <2>1 DEF Spent
  <2>3. \/ step' = step
        \/ step' = [step EXCEPT ![stage[q]].status = "copied"]
    BY <1>2 DEF FinishStep
  <2>4. QED  BY <2>2, <2>3 DEF Copied
<1>3. CASE BeginStep(q)
  <2>1. \/ step' = step
        \/ step' = [step EXCEPT ![stage[q]] =
                      [status |-> "copying", attempt |-> q,
                       from |-> Wanted(stage[q]), name |-> "incomplete"]]
    BY <1>3 DEF BeginStep
  <2>2. QED  BY <1>1, <2>1 DEF Copied
<1>4. CASE CancelStep(q)
  BY <1>1, <1>4 DEF CancelStep, NoStep, Copied
<1>5. CASE NameSave(q)
  BY <1>5 DEF NameSave, Copied, Stage
<1>6. CASE step' = step
  BY <1>6 DEF Copied
<1>7. QED  BY <1>2, <1>3, <1>4, <1>5, <1>6, SharedWrites

\* A run that reads or has read leaves the records alone.
LEMMA ReaderWrites ==
    ASSUME Inv, NEW r \in Run, RunStep(r), NEW s \in Stage, HasRead(r, s)'
    PROVE  step' = step /\ \A q \in Run \ {r} : grace'[q] = grace[q]
<1> USE DEF Inv, TypeOK, LockTypes
<1>1. CASE ReadStep(r)
  BY <1>1 DEF ReadStep, store, Pass
<1>2. CASE ~ReadStep(r)
  <2>1. pc[r] \in {"read", "check"} /\ pc'[r] = pc[r]
    BY <1>2, FirstRead DEF HasRead
  <2>2. LateWrite(r)
    BY <1>2, <2>1, Stays DEF FillWrite, GetStep
  <2>3. QED  BY <2>2 DEF LateWrite, store
<1>3. QED  BY <1>1, <1>2

\* Who holds the lock after a step held it before, or has just taken it.
LEMMA HeldBefore ==
    ASSUME NEW r \in Run, NEW q \in Run, RunStep(q), owner' = r
    PROVE  owner = r \/ (q = r /\ Acquire(r))
<1>1. owner' = owner \/ Acquire(q) \/ Close(q)
  <2>1. CASE Copying(q)
    BY <2>1 DEF Copying, GetStep, BeginStep, CopyOk, CopyRejected,
       CopyUnknown, CancelStep, FinishStep
  <2>2. CASE Filling(q)
    BY <2>2 DEF Filling, Decide, FillGet, Claim, FillWrite, FillWriteLost,
       FillReturn, FinishFill, Details, FillFault, FillError, Save
  <2>3. CASE Delivering(q)
    BY <2>3 DEF Delivering, Deliver, Rename, NameSave, Reuse, Complete, Notify
  <2>4. CASE Skip(q) \/ Load(q) \/ Create(q) \/ ReadStep(q) \/ Check(q)
             \/ Abort(q) \/ Crash(q) \/ LateWrite(q)
    BY <2>4 DEF Skip, Load, Create, ReadStep, Check, Abort, Crash, LateWrite
  <2>5. QED  BY <2>1, <2>2, <2>3, <2>4 DEF RunStep, Proceed
<1>2. Acquire(q) => owner' = q
  BY DEF Acquire
<1>3. Close(q) => owner' \in {owner, None}
  BY DEF Close
<1>4. QED
  BY <1>1, <1>2, <1>3, ThreeCopyAssumption

\* A run spends only late requests of its own.
LEMMA OwnGrace ==
    ASSUME LockTypes, NEW r \in Run, RunStep(r), NEW q \in Run \ {r}
    PROVE  grace'[q] = grace[q]
<1> USE DEF LockTypes, Pass
<1>1. CASE Copying(r)
  BY <1>1 DEF Copying, GetStep, BeginStep, CopyOk, CopyRejected, CopyUnknown,
     CancelStep, FinishStep
<1>2. CASE Filling(r)
  BY <1>2 DEF Filling, Decide, FillGet, Claim, FillWrite, FillWriteLost,
     FillReturn, FinishFill, Details, FillFault, FillError, Save
<1>3. CASE Delivering(r)
  BY <1>3 DEF Delivering, Deliver, Rename, NameSave, Reuse, Complete, Notify
<1>4. CASE Acquire(r) \/ Skip(r) \/ Load(r) \/ Create(r) \/ ReadStep(r)
           \/ Check(r) \/ Abort(r) \/ Close(r) \/ Crash(r) \/ LateWrite(r)
  BY <1>4 DEF Acquire, Skip, Load, Create, ReadStep, Check, Abort, Close,
     Crash, LateWrite, Discard
<1>5. QED  BY <1>1, <1>2, <1>3, <1>4 DEF RunStep, Proceed

\* When a run reads that there is no record, nobody is at work on that stage.
LEMMA NobodyMakes ==
    ASSUME Inv, NEW s \in Stage, ~Present(s), NEW q \in Run
    PROVE  ~Copied(s) /\ Spent(q, s)
  BY DEF Inv, Holds, Placed, Mine, Present, Copied, Spent

\* Every step of a run keeps Reading, if there are at most two late requests.
LEMMA ReadingKept ==
    ASSUME Grace <= 2, Inv, Inv', Reading, NEW p \in Run, RunStep(p)
    PROVE  Reading'
<1>1. TypeOK /\ Stable(p)
  BY StepIsStable DEF Inv
<1>2. \A s \in Stage : Copied(s) => Copied(s)'
  BY <1>1 DEF Stable, Copied
<1>3. \A r \in Run \ {p}, s \in Stage : HasRead(r, s)' => HasRead(r, s)
  BY <1>1, FixedLocals DEF HasRead
<1>4. \A r \in Run \ {p} : known'[r] = known[r]
  BY <1>1, OwnLocals
<1>5. ASSUME NEW r \in Run, NEW s \in Stage, HasRead(r, s)'
      PROVE  \/ HasRead(r, s) /\ known'[r][s] = known[r][s]
             \/ r = p /\ ReadStep(p) /\ s = stage[p]
                /\ known'[r][s] = step[s].status
  BY <1>3, <1>4, <1>5, FirstRead, OneMoreRead
<1>6. ASSUME NEW r \in Run, HasRead(r, "filled")',
             known'[r]["filled"] # "absent"
      PROVE  Copied("original")'
  <2>1. CASE HasRead(r, "filled") /\ known[r]["filled"] # "absent"
    BY <1>2, <2>1 DEF Reading, Stage
  <2>2. CASE Present("filled")
    BY <1>2, <2>2 DEF Inv, Records, Stage
  <2>3. QED  BY <1>5, <1>6, <2>1, <2>2 DEF Present, Stage
<1>7. ASSUME NEW r \in Run, HasRead(r, "delivery")',
             known'[r]["delivery"] # "absent"
      PROVE  Copied("filled")'
  <2>1. CASE HasRead(r, "delivery") /\ known[r]["delivery"] # "absent"
    BY <1>2, <2>1 DEF Reading, Stage
  <2>2. CASE Present("delivery")
    BY <1>2, <2>2 DEF Inv, Records, Stage
  <2>3. QED  BY <1>5, <1>7, <2>1, <2>2 DEF Present, Stage
<1>8. ASSUME NEW r \in Run, owner' = r, NEW s \in Stage, ReadAbsent(r, s)'
      PROVE  ~Copied(s)' /\ \A q \in Run \ {r} : Spent(q, s)'
  <2>1. owner = r
    <3>1. CASE p = r /\ Acquire(r)
      BY <1>1, <1>8, <3>1
         DEF Acquire, Goto, ReadAbsent, HasRead, TypeOK, RunTypes
    <3>2. QED  BY <1>8, <3>1, HeldBefore
  <2>2. ~Copied(s) /\ \A q \in Run \ {r} : Spent(q, s)
    <3>1. CASE ReadAbsent(r, s)
      BY <2>1, <3>1 DEF Reading
    <3>2. CASE ~Present(s)
      BY <3>2, NobodyMakes
    <3>3. QED  BY <1>5, <1>8, <3>1, <3>2 DEF ReadAbsent, Present
  <2>3. CASE p = r
    <3>1. step' = step /\ \A q \in Run \ {r} : grace'[q] = grace[q]
      BY <1>8, <2>3, ReaderWrites DEF ReadAbsent
    <3>2. \A q \in Run \ {r} : pc'[q] = pc[q] /\ stage'[q] = stage[q]
      BY <1>1, <2>3, FixedLocals
    <3>3. QED  BY <2>2, <3>1, <3>2 DEF Copied, Spent
  <2>4. CASE p # r
    <3>1. ~Copied(s)' /\ Spent(p, s)'
      BY <2>1, <2>2, <2>4, NotConfirmed, SpentKept
    <3>2. ASSUME NEW q \in Run \ {r, p} PROVE Spent(q, s)'
      <4>1. grace'[q] = grace[q]
        BY <1>1, OwnGrace DEF TypeOK
      <4>2. pc'[q] = pc[q] /\ stage'[q] = stage[q]
        BY <1>1, FixedLocals
      <4>3. QED  BY <2>2, <4>1, <4>2 DEF Spent
    <3>3. QED  BY <3>1, <3>2
  <2>5. QED  BY <2>3, <2>4
<1>9. QED
  BY <1>6, <1>7, <1>8 DEF Reading

-----------------------------------------------------------------------------
(* The theorems.                                                           *)

\* The order of the records, of naming and of announcing holds.
THEOREM Ordered == Spec => []Order
  BY InitOrder, NextOrder, PTL DEF Spec

\* A closed batch's processing backup bears the name the decision calls for,
\* in Drive and in its record, however many runs rename it and lose the reply.
THEOREM NameMatches == Spec => []NameMatchesDecision
<1>1. Order => NameMatchesDecision
  <2> SUFFICES ASSUME Order, batch.status = "copied"
               PROVE  /\ step["filled"].name = FinalName
                      /\ title[step["filled"].attempt] = FinalName
    BY DEF NameMatchesDecision
  <2> USE DEF Order, Inv
  <2>1. step["filled"].name = FinalName
    BY DEF Names
  <2>2. step["filled"].attempt \in Run
    BY DEF Records, Copied, Present, Stage
  <2>3. title[step["filled"].attempt] = FinalName
    <3>1. CASE FinalName # "incomplete"
      BY <2>1, <3>1 DEF Names
    <3>2. CASE FinalName = "incomplete"
      BY <2>2, <3>2 DEF Names
    <3>3. QED  BY <3>1, <3>2
  <2>4. QED  BY <2>1, <2>3
<1>2. QED
  BY <1>1, Ordered, PTL

\* A batch needs a person only after a run lost the lock, or ended between a
\* placeholder and its answer: by a copy or a begin, claim or report whose
\* answer never came, or by a crash.
THEOREM NeverStuck == Spec => []StuckOnlyAfterDoubt
<1>1. Init => (doubt \/ Alone)
  BY InitAlone
<1>2. Order /\ Order' /\ (doubt \/ Alone) /\ [Next]_vars =>
         (doubt \/ Alone)'
  BY NextAlone
<1>3. Order /\ (doubt \/ Alone) => StuckOnlyAfterDoubt
  BY DEF Order, Inv, Holds, Knows, StuckOnlyAfterDoubt, Alone
<1>4. QED
  BY <1>1, <1>2, <1>3, Ordered, PTL DEF Spec

\* None of the sanity checks that stop a batch for good fires: those of
\* copy_step and of a closed batch in no run, the one for a gap not in a run
\* that holds the lock, if at most two requests of a run land after its lock.
\* Three make a whole stage: placeholder, copy, confirmation.
THEOREM HolderFindsNoGap == ASSUME Grace <= 2 PROVE Spec => NeverCorrupt
<1> DEFINE Sane ==
      \A r \in Run :
          /\ result'[r] = "corrupt" => result[r] = "corrupt"
          /\ owner = r /\ result'[r] = "gap" => result[r] = "gap"
<1>1. Init => Inv /\ Reading
  BY InitInv DEF Init, Reading, ReadAbsent, HasRead
<1>2. Inv /\ Inv' /\ Reading /\ [Next]_vars => Reading'
  <2> SUFFICES ASSUME Inv, Inv', Reading, [Next]_vars PROVE Reading'
    OBVIOUS
  <2>1. ASSUME NEW r \in Run, RunStep(r) PROVE Reading'
    BY <2>1, ReadingKept
  <2>2. CASE Around
    <3>1. UNCHANGED <<step, pc, stage, known>>
      BY <2>2, AroundKeeps
    <3>2. /\ owner' \in {owner, None}
          /\ owner' = owner => grace' = grace
      BY <2>2, ThreeCopyAssumption
         DEF Around, Forget, LoseLock, Edit, vars
    <3>3. \A r \in Run : owner' = r => owner = r /\ grace' = grace
      BY <3>2, ThreeCopyAssumption
    <3>4. QED
      BY <3>1, <3>3 DEF Reading, ReadAbsent, HasRead, Copied, Spent
  <2>3. QED  BY <2>1, <2>2 DEF Next, RunStep, Around
<1>3. Inv /\ Inv' /\ Reading /\ [Next]_vars => Sane
  <2> SUFFICES ASSUME Inv, Inv', Reading, [Next]_vars, NEW r \in Run,
                      owner = r, result'[r] = "gap", result[r] # "gap"
               PROVE  FALSE
    BY DEF Inv, Holds, Knows
  <2>1. PICK q \in Run : RunStep(q)
    BY AroundKeeps DEF Next, RunStep, Around
  <2>2. Check(r)
    BY <2>1, FixedLocals, Results DEF Inv, TypeOK
  <2>3. Gap(r) /\ pc[r] = "check"
    BY <2>2 DEF Check, Goto, Fail, Inv, TypeOK, RunTypes
  <2>4. QED  BY <2>3, HolderReads
<1>4. Sane => [\A r \in Run :
          /\ result'[r] = "corrupt" => result[r] = "corrupt"
          /\ owner = r /\ result'[r] = "gap" => result[r] = "gap"]_vars
  OBVIOUS
<1>5. QED
  BY <1>1, <1>2, <1>3, <1>4, Invariant, PTL DEF Spec, NeverCorrupt

\* What is written, and what is delivered of it.
THEOREM Verified ==
    ASSUME ReportFails = FALSE
    PROVE  Spec => [](Order /\ Contents /\ Writes)
<1>1. Init => Contents /\ Writes
  BY InitContents
<1>2. Order /\ Order' /\ Contents /\ Writes /\ [Next]_vars =>
         Contents' /\ Writes'
  BY NextContents
<1>3. QED
  BY <1>1, <1>2, Ordered, PTL DEF Spec

\* What the record of a step names is a file that is there.
LEMMA TokenThere ==
    ASSUME Order, NEW s \in Stage, Copied(s)
    PROVE  /\ Token(s) = <<s, step[s].attempt>>
           /\ step[s].attempt \in Run
           /\ file[Token(s)] # NoFile
  BY DEF Order, Inv, Records, Copied, Present, Made, Token

\* What was decided on is clean, or filled as planned.
LEMMA DecidedContent ==
    ASSUME Order, Contents, Decided
    PROVE  /\ file[outcome.token].base = file[Token("original")].base
           /\ file[Token("original")].base \in Edition
           /\ file[outcome.token].body \in {"clean", "full"}
           /\ outcome.from = "original" => file[outcome.token].body = "clean"
<1>1. /\ outcome.token = Token(outcome.from)
      /\ outcome.from \in {"original", "filled"}
      /\ Copied("original") /\ Copied("filled")
  BY DEF Order, Inv, Records, Decided, TypeOK, RecordTypes
<1>2. /\ file[Token("original")].base \in Edition
      /\ file[Token("original")].body = "clean"
  BY <1>1, TokenThere DEF Contents, Stage
<1>3. CASE outcome.from = "original"
  BY <1>1, <1>2, <1>3
<1>4. CASE outcome.from = "filled"
  <2>1. fill.status \in {"absent", "completed"}
    BY <1>4 DEF Order, Claims, Sound, Begun
  <2>2. /\ step["filled"].attempt \in Run
        /\ file[Token("filled")] # NoFile
        /\ Token("filled") = <<"filled", step["filled"].attempt>>
    BY <1>1, TokenThere DEF Stage
  <2>3. QED
    BY <1>1, <1>2, <1>4, <2>1, <2>2 DEF Contents
<1>5. QED  BY <1>1, <1>3, <1>4

\* A run that reports success leaves a closed batch and a delivered file that
\* is untouched or filled as planned, whatever wrote to the backup late.
THEOREM Delivers ==
    ASSUME ReportFails = FALSE
    PROVE  Spec => []ReportedIsDelivered
<1>1. Order /\ Contents /\ Writes => ReportedIsDelivered
  <2> SUFFICES ASSUME Order, Contents, batch.status = "copied"
               PROVE  /\ batch.target = Token("delivery")
                      /\ file[batch.target].body \in {"clean", "full"}
    BY DEF ReportedIsDelivered, Order, Cards
  <2>1. Copied("delivery") /\ batch.target = Token("delivery")
    BY DEF Order, Inv, Records
  <2>2. Decided /\ file[Token("delivery")] = file[outcome.token]
    BY <2>1, TokenThere DEF Contents, Stage
  <2>3. QED  BY <2>1, <2>2, DecidedContent
<1>2. QED
  BY <1>1, Verified, PTL

\* A fill that may be repeated has written nothing, and nothing of it is
\* under way.
THEOREM Repeatable ==
    ASSUME ReportFails = FALSE
    PROVE  Spec => []RetryableIsUntouched
<1>1. Order /\ Contents /\ Writes => RetryableIsUntouched
  <2> SUFFICES ASSUME Order, Contents, Writes, fill.status = "retryable"
               PROVE  Filled.body = "clean" /\ late = {}
    BY DEF RetryableIsUntouched
  <2>1. Copied("filled")
    BY DEF Order, Begun
  <2>2. Filled.body = "clean"
    BY <2>1, TokenThere DEF Contents, Filled, Stage
  <2>3. \A r \in Run : r \notin late
    BY DEF Writes
  <2>4. late \subseteq Run
    BY DEF Order, Inv, TypeOK, DriveTypes
  <2>5. QED  BY <2>2, <2>3, <2>4
<1>2. QED
  BY <1>1, Verified, PTL

\* Nothing writes to a processing backup whose fill was completed.
THEOREM FillIsFinal ==
    ASSUME ReportFails = FALSE
    PROVE  Spec => CompletedFillIsFinal
<1>1. Order /\ Contents /\ Writes /\ [Next]_vars =>
         [fill.status = "completed" =>
             file'[Token("filled")] = Filled]_vars
  <2> SUFFICES ASSUME Order, Writes, Next, fill.status = "completed"
               PROVE  file'[Token("filled")] = Filled
    OBVIOUS
  <2>1. ASSUME NEW r \in Run, RunStep(r)
        PROVE  file'[Token("filled")] = Filled
    <3>1. Copied("filled")
      BY DEF Order, Begun
    <3>2. ~FillWrite(r) /\ ~LateWrite(r)
      BY WriterClaimed DEF Order
    <3>3. Filled' = Filled /\ Token("filled")' = Token("filled")
      BY <2>1, <3>1, <3>2, FilledStays, TokenStays DEF Order, Stage
    <3>4. QED  BY <3>3 DEF Filled
  <2>2. CASE Forget \/ LoseLock \/ Edit
    BY <2>2, AroundKeeps DEF Around, Filled
  <2>3. QED  BY <2>1, <2>2 DEF Next, RunStep
<1>2. QED
  BY <1>1, Verified, PTL DEF Spec, CompletedFillIsFinal

-----------------------------------------------------------------------------
(* The batch implements module Delivery.                                  *)

\* A batch that has not begun promises nothing yet.
LEMMA PromiseInit == Init => Promise!Init
  BY DEF Init, Promise!Init, Captured, Delivered, Present, NoStep, NoOutcome,
     NoFile, Promise!NotDelivered, Stage

\* A stage is confirmed by finish_step of the run that made the file.
LEMMA Confirms ==
    ASSUME Inv, NEW r \in Run, RunStep(r), NEW s \in Stage,
           ~Copied(s), Copied(s)'
    PROVE  FinishStep(r) /\ s = stage[r]
<1> USE DEF Inv, TypeOK, RecordTypes, Copied
<1>1. CASE BeginStep(r)
  BY <1>1 DEF BeginStep
<1>2. CASE CancelStep(r)
  BY <1>2 DEF CancelStep, NoStep
<1>3. CASE FinishStep(r)
  BY <1>3 DEF FinishStep, Mine
<1>4. CASE NameSave(r)
  BY <1>4 DEF NameSave
<1>5. QED
  BY <1>1, <1>2, <1>3, <1>4, SharedWrites

\* The capture is taken once, by the step that confirms the original backup.
LEMMA CaptureOnce ==
    ASSUME Order, Order', Contents', NEW r \in Run, RunStep(r)
    PROVE  \/ Captured' = Captured
           \/ /\ Captured = None
              /\ Captured' \in Edition
              /\ FinishStep(r) /\ stage[r] = "original"
<1>1. CASE Copied("original")
  <2>1. Copied("original")'
    BY <1>1, TokenStays DEF Order, Stage
  <2>2. QED
    BY <1>1, <2>1, CaptureStays DEF Order, Captured, Copied
<1>2. CASE ~Copied("original") /\ ~Copied("original")'
  BY <1>2 DEF Captured, Copied
<1>3. CASE ~Copied("original") /\ Copied("original")'
  <2>1. FinishStep(r) /\ stage[r] = "original"
    BY <1>3, Confirms DEF Order, Stage
  <2>2. Captured = None /\ Captured' = file'[Token("original")'].base
    BY <1>3 DEF Captured, Copied
  <2>3. /\ step'["original"].attempt \in Run
        /\ file'[Token("original")'] # NoFile
    BY <1>3 DEF Order, Inv, Records, Copied, Present, Made, Stage, NoFile
  <2>4. file'[Token("original")'].base \in Edition
    BY <2>3 DEF Contents, Token, NoFile
  <2>5. QED  BY <2>1, <2>2, <2>4
<1>4. QED  BY <1>1, <1>2, <1>3

\* The delivered file appears when it is copied, and then stays.
LEMMA DeliveredOnce ==
    ASSUME Order, Order', NEW r \in Run, RunStep(r)
    PROVE  \/ Delivered' = Delivered
           \/ /\ Delivered = NoFile
              /\ pc[r] = "copy" /\ stage[r] = "delivery"
              /\ CopyOk(r) \/ CopyUnknown(r)
              /\ Delivered' = file[outcome.token]
<1> USE DEF Order, Inv, TypeOK
<1>1. stage[r] \in Stage /\ Placed(r)
  BY DEF RunTypes, Holds
<1>2. CASE BeginStep(r) /\ step' # step
  <2>1. /\ ~Present(stage[r]) /\ file' = file
        /\ step' = [step EXCEPT ![stage[r]] =
                       [status |-> "copying", attempt |-> r,
                        from |-> Wanted(stage[r]), name |-> "incomplete"]]
    BY <1>2 DEF BeginStep, drive
  <2>2. CASE stage[r] = "delivery"
    <3>1. ~Present("delivery") /\ file'[<<"delivery", r>>] = NoFile
      BY <2>1, <2>2 DEF FileOfStep, Stage
    <3>2. Present("delivery")' /\ Token("delivery")' = <<"delivery", r>>
      BY <1>1, <2>1, <2>2 DEF Present, Token, RecordTypes
    <3>3. QED  BY <3>1, <3>2 DEF Delivered, NoFile
  <2>3. CASE stage[r] # "delivery"
    <3>1. step'["delivery"] = step["delivery"]
      BY <2>1, <2>3 DEF RecordTypes, Stage
    <3>2. QED  BY <2>1, <3>1 DEF Delivered, Present, Token, NoFile
  <2>4. QED  BY <2>2, <2>3
<1>3. CASE CancelStep(r)
  <2>1. /\ Mine(r) /\ file[<<stage[r], r>>] = NoFile /\ file' = file
        /\ step' = [step EXCEPT ![stage[r]] = NoStep]
    BY <1>1, <1>3 DEF CancelStep, Placed, drive
  <2>2. CASE stage[r] = "delivery"
    <3>1. Delivered = NoFile
      BY <2>1, <2>2 DEF Delivered, Mine, Token
    <3>2. ~Present("delivery")'
      BY <1>1, <2>1, <2>2 DEF Present, NoStep, RecordTypes
    <3>3. QED  BY <3>1, <3>2 DEF Delivered, NoFile
  <2>3. CASE stage[r] # "delivery"
    <3>1. step'["delivery"] = step["delivery"]
      BY <2>1, <2>3 DEF RecordTypes, Stage
    <3>2. QED  BY <2>1, <3>1 DEF Delivered, Present, Token, NoFile
  <2>4. QED  BY <2>2, <2>3
<1>4. CASE FinishStep(r) \/ NameSave(r)
  <2>1. file' = file
    BY <1>4 DEF FinishStep, NameSave, drive
  <2>2. /\ Present("delivery")' <=> Present("delivery")
        /\ step'["delivery"].attempt = step["delivery"].attempt
    BY <1>4 DEF FinishStep, NameSave, Mine, Present, RecordTypes, Stage
  <2>3. QED  BY <2>1, <2>2 DEF Delivered, Token, NoFile
<1>5. CASE step' = step
  <2>1. CASE ~Present("delivery")
    BY <1>5, <2>1 DEF Delivered, Present, NoFile
  <2>2. CASE Present("delivery")
    <3> DEFINE f == <<"delivery", step["delivery"].attempt>>
    <3>1. /\ f \in FileId /\ f # Token("filled")
          /\ Delivered = file[f] /\ Delivered' = file'[f]
      BY <1>5, <2>2 DEF Delivered, Present, Token, Records, FileId, Stage
    <3>2. CASE file'[f] = file[f]
      BY <3>1, <3>2
    <3>3. CASE file'[f] # file[f]
      <4>1. /\ pc[r] = "copy" /\ stage[r] = "delivery"
            /\ file[f] = NoFile
            /\ file'[f] = IF Wanted(stage[r]) = Sheet
                          THEN [base |-> edition, body |-> "clean"]
                          ELSE file[Wanted(stage[r])]
        BY <3>1, <3>3, FileWrites
      <4>2. file'[f] = file[outcome.token]
        BY <4>1, SourceThere
      <4>3. CopyOk(r) \/ CopyUnknown(r)
        <5>1. ~FillWrite(r)
          BY <4>1 DEF FillWrite
        <5>2. LateWrite(r) => file'[f] = file[f]
          BY <3>1 DEF LateWrite, DriveTypes
        <5>3. QED  BY <3>3, <5>1, <5>2, SharedWrites
      <4>4. QED  BY <3>1, <4>1, <4>2, <4>3
    <3>4. QED  BY <3>2, <3>3
  <2>3. QED  BY <2>1, <2>2
<1>6. QED
  BY <1>2, <1>3, <1>4, <1>5, SharedWrites

\* Every step of a batch is a step of its promise, or changes nothing of it.
LEMMA PromiseStep ==
    ASSUME Order, Order', Contents, Contents', NEW r \in Run, RunStep(r)
    PROVE  Promise!Next \/ UNCHANGED Promise!vars
<1> USE DEF Order, Inv, TypeOK
<1>1. CASE Captured' # Captured
  <2>1. /\ Captured = None /\ Captured' \in Edition
        /\ FinishStep(r)
    BY <1>1, CaptureOnce
  <2>2. outcome' = outcome /\ announced' = announced /\ pc[r] = "finish"
    BY <2>1 DEF FinishStep
  <2>3. Delivered' = Delivered
    BY <2>2, DeliveredOnce
  <2>4. Promise!Capture
    BY <2>1, <2>2, <2>3 DEF Promise!Capture
  <2>5. QED  BY <2>4 DEF Promise!Next
<1>2. CASE Captured' = Captured /\ outcome' # outcome
  <2>1. Save(r)
    BY <1>2, SharedWrites
  <2>2. /\ pc[r] = "save" /\ announced' = announced
        /\ outcome.from = "open"
        /\ outcome'.from \in {"original", "filled"}
    BY <1>2, <2>1 DEF Save, Decided
  <2>3. Delivered' = Delivered
    BY <2>2, DeliveredOnce
  <2>4. Captured # None
    <3>1. Copied("original")
      BY <2>2 DEF Holds, Placed, FillPC
    <3>2. Captured \in Edition
      BY <3>1, TokenThere DEF Captured, Copied, Contents, Stage
    <3>3. QED  BY <3>2, ThreeCopyAssumption
  <2>5. Promise!Decide
    BY <1>2, <2>2, <2>3, <2>4 DEF Promise!Decide
  <2>6. QED  BY <2>5 DEF Promise!Next
<1>3. CASE /\ Captured' = Captured /\ outcome' = outcome
           /\ Delivered' # Delivered
  <2>1. /\ Delivered = NoFile
        /\ pc[r] = "copy" /\ stage[r] = "delivery"
        /\ CopyOk(r) \/ CopyUnknown(r)
        /\ Delivered' = file[outcome.token]
    BY <1>3, DeliveredOnce
  <2>2. announced' = announced
    BY <2>1 DEF CopyOk, CopyUnknown
  <2>3. Decided
    BY <2>1, SourceThere
  <2>4. /\ file[outcome.token].base = Captured
        /\ file[outcome.token].base \in Edition
        /\ file[outcome.token].body \in {"clean", "full"}
        /\ outcome.from = "original" => file[outcome.token].body = "clean"
    BY <2>3, DecidedContent DEF Captured, Records, Copied
  <2>5. file[outcome.token] \in
           [base : Edition \cup {None},
            body : {"missing", "clean", "partial", "full"}]
    <3>1. outcome.token \in FileId
      BY <2>3, TokenTypes DEF Records, Decided, RecordTypes, Copied, Present,
         Stage
    <3>2. QED  BY <3>1 DEF DriveTypes
  <2>6. Promise!Deliver
    BY <1>3, <2>1, <2>2, <2>3, <2>4, <2>5
       DEF Promise!Deliver, Promise!Content, Promise!NotDelivered, Decided,
           NoFile
  <2>7. QED  BY <2>6 DEF Promise!Next
<1>4. CASE /\ Captured' = Captured /\ outcome' = outcome
           /\ Delivered' = Delivered /\ announced' # announced
  <2>1. pc[r] = "notify" /\ announced' = announced + 1
    BY <1>4, SharedWrites DEF Notify
  <2>2. announced = 0 /\ batch.status = "copied"
    BY <2>1 DEF Cards, Begun
  <2>3. Delivered # NoFile
    <3>1. Copied("delivery")
      BY <2>2 DEF Records
    <3>2. QED  BY <3>1, TokenThere DEF Delivered, Copied, Present, Stage
  <2>4. Promise!Announce
    BY <1>4, <2>1, <2>2, <2>3 DEF Promise!Announce, Promise!NotDelivered,
       NoFile
  <2>5. QED  BY <2>4 DEF Promise!Next
<1>5. CASE UNCHANGED <<Captured, outcome, Delivered, announced>>
  BY <1>5 DEF Promise!vars
<1>6. QED  BY <1>1, <1>2, <1>3, <1>4, <1>5

\* A batch keeps the promise of Delivery: one capture, one decision, one
\* delivered file of the decided content, at most one announcement after it.
THEOREM Implements ==
    ASSUME ReportFails = FALSE
    PROVE  Spec => ImplementsDelivery
<1>1. Order /\ Order' /\ Contents /\ Contents' /\ [Next]_vars =>
         [Promise!Next]_Promise!vars
  <2> SUFFICES ASSUME Order, Order', Contents, Contents', [Next]_vars
               PROVE  Promise!Next \/ UNCHANGED Promise!vars
    OBVIOUS
  <2>1. CASE Around
    BY <2>1, AroundKeeps DEF Promise!vars, Captured, Delivered, Token, Present,
       NoFile
  <2>2. QED
    BY <2>1, PromiseStep DEF Next, RunStep, Around
<1>2. QED
  BY <1>1, PromiseInit, Verified, PTL
     DEF Spec, ImplementsDelivery, Promise!Spec

-----------------------------------------------------------------------------
(* The batch implements module Fill.                                       *)

\* A batch that has not begun has filled nothing.
LEMMA FillPromiseInit == Init => FillPromise!Init
  BY DEF Init, FillPromise!Init, Landed, Shown, NoStep, NoFill, Stage

\* A confirmed processing backup shows what its file contains.
LEMMA Shows ==
    ASSUME Inv, NEW r \in Run, RunStep(r), Copied("filled")
    PROVE  Shown = Filled.body /\ Shown' = Filled.body'
  BY TokenStays DEF Shown, Copied, Stage

\* No write is under way while its run still fills, or reports a fill that it
\* may be sure of.
LEMMA NoneLate ==
    ASSUME Order, Writes, NEW r \in Run, fill.attempt = r,
           \/ pc[r] = "filling"
           \/ pc[r] = "finishfill" /\ verdict[r] # "needs_review"
    PROVE  late = {}
<1>1. late \subseteq Run
  BY DEF Order, Inv, TypeOK, DriveTypes
<1>2. ASSUME NEW q \in late PROVE FALSE
  <2>1. q \in Run /\ q = r
    BY <1>1 DEF Writes
  <2>2. QED  BY <2>1 DEF Writes
<1>3. QED  BY <1>2

\* A claim starts the fill.
LEMMA ClaimKeeps ==
    ASSUME Order, NEW r \in Run, Claim(r)
    PROVE  FillPromise!Next \/ UNCHANGED FillPromise!vars
<1>1. late' = late /\ Landed' = Landed
  BY DEF Claim, drive, Landed, Shown, Filled, Token
<1>2. CASE fill' = fill
  BY <1>1, <1>2 DEF FillPromise!vars
<1>3. CASE fill' # fill
  <2>1. fill.status \in {"absent", "retryable"} /\ fill'.status = "running"
    BY <1>3 DEF Claim
  <2>2. QED
    BY <1>1, <2>1 DEF FillPromise!Next, FillPromise!Start
<1>4. QED  BY <1>2, <1>3

\* A report that is saved ends the fill.
LEMMA FinishKeeps ==
    ASSUME Order, Writes, NEW r \in Run, FinishFill(r)
    PROVE  FillPromise!Next \/ UNCHANGED FillPromise!vars
<1>1. late' = late /\ Landed' = Landed
  BY DEF FinishFill, drive, Landed, Shown, Filled, Token
<1>2. CASE fill' = fill
  BY <1>1, <1>2 DEF FillPromise!vars
<1>3. CASE fill' # fill
  <2>1. /\ pc[r] = "finishfill"
        /\ fill = [status |-> "running", attempt |-> r]
        /\ fill' = [fill EXCEPT !.status = verdict[r]]
    BY <1>3 DEF FinishFill
  <2>2. /\ fill.status = "running" /\ fill.attempt = r
        /\ fill'.status = verdict[r]
    BY <2>1
  <2>3. verdict[r] \in {"needs_review", "retryable", "completed"}
    BY <2>1 DEF Order, Claims
  <2>4. CASE verdict[r] = "needs_review"
    BY <1>1, <2>2, <2>4 DEF FillPromise!Next, FillPromise!Report
  <2>5. CASE verdict[r] = "retryable"
    <3>1. late = {} /\ Filled.body = "clean"
      BY <2>1, <2>2, <2>5, NoneLate DEF Writes
    <3>2. Landed = "nothing"
      BY <3>1 DEF Landed, Shown
    <3>3. QED
      BY <1>1, <2>2, <2>5, <3>1, <3>2
         DEF FillPromise!Next, FillPromise!Report, FillPromise!Retryable
  <2>6. CASE verdict[r] = "completed"
    <3>1. late = {} /\ Filled.body \in {"clean", "full"}
      BY <2>1, <2>2, <2>6, NoneLate DEF Writes
    <3>2. Landed # "part"
      BY <3>1 DEF Landed, Shown
    <3>3. QED
      BY <1>1, <2>2, <2>6, <3>1, <3>2
         DEF FillPromise!Next, FillPromise!Report, FillPromise!Completed
  <2>7. QED  BY <2>3, <2>4, <2>5, <2>6
<1>4. QED  BY <1>2, <1>3

\* What a filler sends, it sends while its fill runs and nothing is under way.
LEMMA SendKeeps ==
    ASSUME Order, Writes, NEW r \in Run, FillWrite(r) \/ FillWriteLost(r)
    PROVE  FillPromise!Next
<1> USE DEF Order
<1>1. pc[r] = "filling" /\ fill' = fill
  BY DEF FillWrite, FillWriteLost, store
<1>2. fill.status = "running" /\ fill.attempt = r
  BY <1>1 DEF Claims
<1>3. late = {}
  BY <1>1, <1>2, NoneLate
<1>4. Copied("filled") /\ RunStep(r)
  BY <1>1 DEF Inv, Holds, Placed, FillPC, RunStep, Proceed, Filling
<1>5. Shown = Filled.body /\ Shown' = Filled.body'
  BY <1>4, Shows
<1>6. CASE FillWrite(r)
  <2>1. late' = late /\ Filled.body # "full"
    BY <1>1, <1>6 DEF FillWrite, Writes
  <2>2. Filled'.body \in {"partial", "full"}
    <3>1. Token("filled") \in FileId /\ Token("filled")' = Token("filled")
      BY <1>4, TokenStays DEF Stage
    <3>2. PICK b \in {"partial", "full"} :
             file' = [file EXCEPT ![Token("filled")].body = b]
      BY <1>6 DEF FillWrite
    <3>3. file'[Token("filled")].body = b
      BY <3>1, <3>2 DEF Inv, TypeOK, DriveTypes
    <3>4. QED  BY <3>1, <3>3 DEF Filled
  <2>3. Landed # "all" /\ Landed' \in {"part", "all"}
    BY <1>5, <2>1, <2>2 DEF Landed
  <2>4. QED
    BY <1>1, <1>2, <1>3, <2>1, <2>3 DEF FillPromise!Next, FillPromise!Write
<1>7. CASE FillWriteLost(r)
  <2>1. late' # {} /\ Landed' = Landed
    BY <1>7 DEF FillWriteLost, store, Landed, Shown, Filled, Token
  <2>2. QED
    BY <1>1, <1>2, <1>3, <2>1 DEF FillPromise!Next, FillPromise!Lose
<1>8. QED  BY <1>6, <1>7

\* A write that lands late is the only one under way.
LEMMA LateKeeps ==
    ASSUME Order, Writes, NEW r \in Run, LateWrite(r)
    PROVE  FillPromise!Next
<1> USE DEF Order
<1>1. r \in late /\ late' = late \ {r} /\ fill' = fill
  BY DEF LateWrite, store
<1>2. late' = {}
  <2>1. late \subseteq Run
    BY DEF Inv, TypeOK, DriveTypes
  <2>2. \A q \in late : q = r
    BY <1>1, <2>1 DEF Writes
  <2>3. QED  BY <1>1, <2>2
<1>3. Copied("filled") /\ RunStep(r)
  BY WriterClaimed DEF RunStep
<1>4. Shown' = Filled.body'
  BY <1>3, Shows
<1>5. Filled'.body = "partial"
  <2>1. Token("filled") \in FileId /\ Token("filled")' = Token("filled")
    BY <1>3, TokenStays DEF Stage
  <2>2. file' = [file EXCEPT ![Token("filled")].body = "partial"]
    BY DEF LateWrite
  <2>3. file'[Token("filled")].body = "partial"
    BY <2>1, <2>2 DEF Inv, TypeOK, DriveTypes
  <2>4. QED  BY <2>1, <2>3 DEF Filled
<1>6. Landed' = "part"
  BY <1>4, <1>5 DEF Landed
<1>7. QED
  BY <1>1, <1>2, <1>6 DEF FillPromise!Next, FillPromise!Land

\* A processing backup is clean when it is confirmed: nobody fills before.
LEMMA CleanWhenMade ==
    ASSUME Order, Order', Contents', NEW r \in Run, RunStep(r),
           ~Copied("filled"), Copied("filled")'
    PROVE  UNCHANGED FillPromise!vars
<1> USE DEF Order
<1>1. FinishStep(r)
  BY Confirms DEF Stage
<1>2. fill' = fill /\ late' = late
  BY <1>1 DEF FinishStep, drive
<1>3. fill'.status = "absent"
  BY <1>2 DEF Begun
<1>4. /\ Token("filled")' = <<"filled", step'["filled"].attempt>>
      /\ step'["filled"].attempt \in Run
      /\ file'[Token("filled")'] # NoFile
  BY DEF Inv, Records, Copied, Present, Made, Token, Stage
<1>5. Filled'.body = "clean"
  BY <1>3, <1>4 DEF Contents, Filled
<1>6. Landed = "nothing" /\ Landed' = "nothing"
  BY <1>5 DEF Landed, Shown, Copied
<1>7. QED
  BY <1>2, <1>6 DEF FillPromise!vars

\* Every step of a run is one of the promise, or none.
LEMMA FillPromiseStep ==
    ASSUME Order, Order', Contents', Writes, NEW r \in Run, RunStep(r)
    PROVE  FillPromise!Next \/ UNCHANGED FillPromise!vars
<1>1. CASE Claim(r)
  BY <1>1, ClaimKeeps
<1>2. CASE FinishFill(r)
  BY <1>2, FinishKeeps
<1>3. CASE FillWrite(r) \/ FillWriteLost(r)
  BY <1>3, SendKeeps
<1>4. CASE LateWrite(r)
  BY <1>4, LateKeeps
<1>5. ASSUME ~Claim(r), ~FinishFill(r), ~FillWrite(r), ~FillWriteLost(r),
             ~LateWrite(r)
      PROVE  UNCHANGED FillPromise!vars
  <2>1. fill' = fill /\ late' = late
    BY <1>5, SharedWrites
  <2>2. CASE Copied("filled")
    <3>1. Shown' = Shown
      BY <1>5, <2>2, Shows, FilledStays DEF Order
    <3>2. QED  BY <2>1, <3>1 DEF Landed, FillPromise!vars
  <2>3. CASE ~Copied("filled") /\ ~Copied("filled")'
    BY <2>1, <2>3 DEF Landed, Shown, Copied, FillPromise!vars
  <2>4. CASE ~Copied("filled") /\ Copied("filled")'
    BY <2>4, CleanWhenMade
  <2>5. QED  BY <2>2, <2>3, <2>4
<1>6. QED  BY <1>1, <1>2, <1>3, <1>4, <1>5

\* What a batch records of a fill keeps the promise that the fill itself
\* keeps: no run takes it for more, or for less, than it has done.
THEOREM RecordsKeepPromise ==
    ASSUME ReportFails = FALSE
    PROVE  Spec => RecordsImplementFill
<1>1. Order /\ Order' /\ Contents' /\ Writes /\ [Next]_vars =>
         [FillPromise!Next]_FillPromise!vars
  <2> SUFFICES ASSUME Order, Order', Contents', Writes, [Next]_vars
               PROVE  FillPromise!Next \/ UNCHANGED FillPromise!vars
    OBVIOUS
  <2>1. CASE Around
    BY <2>1, AroundKeeps
       DEF FillPromise!vars, Landed, Shown, Filled, Token
  <2>2. QED
    BY <2>1, FillPromiseStep DEF Next, RunStep, Around
<1>2. QED
  BY <1>1, FillPromiseInit, Verified, PTL
     DEF Spec, RecordsImplementFill, FillPromise!Spec
=============================================================================
