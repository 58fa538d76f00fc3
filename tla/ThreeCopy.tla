----------------------------- MODULE ThreeCopy -----------------------------
(***************************************************************************)
(* One three-copy batch (services/copies.py, with run_record and           *)
(* _fill_copy of services/sync.py and the records of                       *)
(* infrastructure/redis.py): original backup, processing backup, delivery. *)
(*                                                                         *)
(* Run is the set of runs of the batch: the attempts of the queue worker   *)
(* and manual reruns with the same request id.  They take the business     *)
(* lock in turn.  A run goes on only while its lease holds (module Lease   *)
(* shows what that means), except for Grace requests that passed the       *)
(* guard before the lock went away and reach their server after it.  Every *)
(* request can fail unsent, and can take effect and lose its reply.        *)
(*                                                                         *)
(* A Redis record that does not exist has status "absent".  A file is      *)
(* named by its stage and by the run that made it, which also stands for   *)
(* the fresh attempt_id of the step: a run attempts a stage at most once.  *)
(***************************************************************************)
EXTENDS Naturals, FiniteSets

CONSTANTS Run,          \* the runs of this batch
          Edition,      \* the contents people give the requirement sheet
          None,
          Switches,     \* possible settings of the fill switches
          Grace,        \* requests of a run that may land after its lock
          ReportFails   \* whether the last report of a fill may fail to save

ASSUME ThreeCopyAssumption ==
    /\ None \notin Run
    /\ None \notin Edition
    /\ Switches \subseteq SUBSET {"legacy", "new"}
    /\ Grace \in Nat
    /\ ReportFails \in BOOLEAN

VARIABLES
    owner,      \* the run whose token is under the lock key, or None
    grace,      \* requests a run may still land without the lock
    doubt,      \* some run lost the lock, or stopped over a placeholder
    edition,    \* what the requirement sheet contains now
    batch,      \* the CopyState record
    step,       \* the CopyStep records
    fill,       \* the FillState record
    outcome,    \* the frozen delivery decision
    file,       \* the files in Drive
    title,      \* the titles of the processing backups in Drive
    late,       \* runs with an unanswered sheet write that may still land
    announced,  \* success cards sent
    pc, stage,  \* where each run is
    seen,       \* batch status in the state object a run works on
    known,      \* status of each step as run_three_copy has read it
    name,       \* name of the processing backup a run read
    verdict,    \* result of the fill as a run knows it
    degraded,   \* summary.fill_degraded
    writing,    \* the filler's flag: writes have begun
    result      \* summary.result, failures told apart by their cause

store == <<batch, step, fill, outcome>>
drive == <<edition, file, title, late>>
local == <<stage, seen, known, name, verdict, degraded, writing>>
vars == <<owner, grace, doubt, edition, batch, step, fill, outcome, file,
          title, late, announced, pc, stage, seen, known, name, verdict,
          degraded, writing, result>>

Stage == {"original", "filled", "delivery"}
FileId == Stage \X Run
Sheet == <<"sheet", None>>
NoFile == [base |-> None, body |-> "missing"]
NoBatch == [status |-> "absent", attempt |-> None, enabled |-> {},
            target |-> Sheet]
NoStep == [status |-> "absent", attempt |-> None, from |-> Sheet,
           name |-> "incomplete"]
NoFill == [status |-> "absent", attempt |-> None]
NoOutcome == [from |-> "open", token |-> Sheet]
NothingKnown == [s \in Stage |-> "absent"]

Name == {"incomplete", "complete", "none"}
PC == {"idle", "load", "create", "read", "check", "get", "begin", "copy",
       "cancel", "finish", "decide", "fillget", "claim", "filling",
       "finishfill", "details", "fillerror", "save", "deliver", "rename",
       "namesave", "complete", "notify", "closing", "done", "dead"}
Result == {"none", "skipped", "copied", "unchanged", "failed", "blocked",
           "raced", "gap", "corrupt"}
Verdict == {"absent", "running", "completed", "retryable", "needs_review"}

LockTypes ==
    /\ owner \in Run \cup {None}
    /\ grace \in [Run -> 0..Grace]
    /\ doubt \in BOOLEAN

RecordTypes ==
    /\ batch \in [status : {"absent", "copying", "copied"},
                  attempt : Run \cup {None},
                  enabled : SUBSET {"legacy", "new"},
                  target : FileId \cup {Sheet}]
    /\ step \in [Stage -> [status : {"absent", "copying", "copied"},
                           attempt : Run \cup {None},
                           from : FileId \cup {Sheet},
                           name : Name]]
    /\ fill \in [status : Verdict, attempt : Run \cup {None}]
    /\ outcome \in [from : {"open", "original", "filled"},
                    token : FileId \cup {Sheet}]

DriveTypes ==
    /\ edition \in Edition
    /\ file \in [FileId -> [base : Edition \cup {None},
                            body : {"missing", "clean", "partial", "full"}]]
    /\ title \in [Run -> Name]
    /\ late \subseteq Run
    /\ announced \in Nat

RunTypes ==
    /\ pc \in [Run -> PC]
    /\ result \in [Run -> Result]
    /\ stage \in [Run -> Stage]
    /\ seen \in [Run -> {"absent", "copying", "copied"}]
    /\ known \in [Run -> [Stage -> {"absent", "copying", "copied"}]]
    /\ name \in [Run -> Name]
    /\ verdict \in [Run -> Verdict]
    /\ degraded \in [Run -> BOOLEAN]
    /\ writing \in [Run -> BOOLEAN]

TypeOK == LockTypes /\ RecordTypes /\ DriveTypes /\ RunTypes

Init ==
    /\ owner = None
    /\ grace = [r \in Run |-> 0]
    /\ doubt = FALSE
    /\ edition \in Edition
    /\ batch = NoBatch
    /\ step = [s \in Stage |-> NoStep]
    /\ fill = NoFill
    /\ outcome = NoOutcome
    /\ file = [f \in FileId |-> NoFile]
    /\ title = [r \in Run |-> "incomplete"]
    /\ late = {}
    /\ announced = 0
    /\ pc = [r \in Run |-> "idle"]
    /\ stage = [r \in Run |-> "original"]
    /\ seen = [r \in Run |-> "absent"]
    /\ known = [r \in Run |-> NothingKnown]
    /\ name = [r \in Run |-> "incomplete"]
    /\ verdict = [r \in Run |-> "absent"]
    /\ degraded = [r \in Run |-> FALSE]
    /\ writing = [r \in Run |-> FALSE]
    /\ result = [r \in Run |-> "none"]

-----------------------------------------------------------------------------
(* How a step begins and ends. *)

\* assert_run_lock lets a request of r through.
Pass(r) ==
    \/ /\ owner = r
       /\ UNCHANGED grace
    \/ /\ owner # r
       /\ grace[r] > 0
       /\ grace' = [grace EXCEPT ![r] = @ - 1]

Goto(r, next) ==
    /\ pc' = [pc EXCEPT ![r] = next]
    /\ UNCHANGED result

Fail(r, cause) ==
    /\ pc' = [pc EXCEPT ![r] = "closing"]
    /\ result' = [result EXCEPT ![r] = cause]

\* The request took effect: its reply is read, or lost.
Answer(r, next) == Goto(r, next) \/ Fail(r, "failed")

\* Places where a run holds a placeholder only it can resolve.
Held == {"copy", "cancel", "finish", "filling", "finishfill"}

Token(s) == <<s, step[s].attempt>>
Filled == file[Token("filled")]

\* Mutant: the processing backup is copied from the requirement sheet again.
MutantWanted(s) == CASE s = "original" -> Sheet
                     [] s = "filled" -> Sheet
                     [] s = "delivery" -> outcome.token

\* The copy source copy_step is called with.
Wanted(s) == CASE s = "original" -> Sheet
               [] s = "filled" -> Token("original")
               [] s = "delivery" -> outcome.token

\* Where run_three_copy goes when copy_step returns.
After(s) == CASE s = "original" -> "get"
              [] s = "filled" -> "decide"
              [] s = "delivery" -> "complete"

NextStage(s) == IF s = "original" THEN "filled" ELSE s

\* The order in which run_three_copy reads the steps before it uses them.
NextStep(s) == CASE s = "original" -> "filled"
                 [] s = "filled" -> "delivery"
                 [] s = "delivery" -> "original"

-----------------------------------------------------------------------------
(* run_record: lock, record, batch. *)

\* acquire_run_lock.  (SyncBusyError leaves the run where it was.)
Acquire(r) ==
    /\ pc[r] = "idle"
    /\ owner = None
    /\ owner' = r
    /\ Goto(r, "load")
    /\ UNCHANGED <<grace, doubt, announced, store, drive, local>>

\* The record no longer asks for a copy, or its link is empty or excluded.
Skip(r) ==
    /\ pc[r] = "load"
    /\ Pass(r)
    /\ Fail(r, "skipped")
    /\ UNCHANGED <<owner, doubt, announced, store, drive, local>>

\* get_state.
Load(r) ==
    /\ pc[r] = "load"
    /\ Pass(r)
    /\ seen' = [seen EXCEPT ![r] = batch.status]
    /\ Goto(r, IF batch.status = "absent" THEN "create" ELSE "read")
    /\ UNCHANGED <<owner, doubt, announced, store, drive, stage, known, name,
                   verdict, degraded, writing>>

\* begin_copy: SET NX of a batch that freezes the switches of the moment.
Create(r) ==
    /\ pc[r] = "create"
    /\ Pass(r)
    /\ \/ /\ batch.status = "absent"
          /\ \E e \in Switches :
                batch' = [status |-> "copying", attempt |-> r, enabled |-> e,
                          target |-> Sheet]
          /\ seen' = [seen EXCEPT ![r] = "copying"]
          /\ Answer(r, "read")
       \/ /\ batch.status # "absent"
          /\ Fail(r, "raced")
          /\ UNCHANGED <<batch, seen>>
    /\ UNCHANGED <<owner, doubt, announced, step, fill, outcome, drive, stage,
                   known, name, verdict, degraded, writing>>

Present(s) == step[s].status # "absent"
Decided == outcome.from # "open"

\* What the run has read has a gap: the records do not follow one another.
Gap(r) ==
    LET Known(s) == known[r][s] # "absent"
    IN  \/ Known("filled") /\ ~Known("original")
        \/ Known("delivery") /\ ~Known("filled")
        \/ Decided /\ ~(Known("original") /\ Known("filled"))
        \/ seen[r] = "copied" /\ ~(Decided /\ \A s \in Stage : Known(s))

\* The head of run_three_copy: get_step for each stage, in their order ...
ReadStep(r) ==
    LET s == stage[r]
    IN  /\ pc[r] = "read"
        /\ Pass(r)
        /\ known' = [known EXCEPT ![r][s] = step[s].status]
        /\ stage' = [stage EXCEPT ![r] = NextStep(s)]
        /\ Goto(r, IF s = "delivery" THEN "check" ELSE "read")
        /\ UNCHANGED <<owner, doubt, announced, store, drive, seen, name,
                       verdict, degraded, writing>>

\* ... then get_outcome, and the checks of what was read.
Check(r) ==
    /\ pc[r] = "check"
    /\ Pass(r)
    /\ \/ /\ Gap(r)
          /\ Fail(r, "gap")
       \/ /\ ~Gap(r)
          /\ \E s \in Stage : known[r][s] = "copying"
          /\ Fail(r, "blocked")
       \/ /\ ~Gap(r)
          /\ \A s \in Stage : known[r][s] # "copying"
          /\ Goto(r, "get")
    /\ known' = [known EXCEPT ![r] = NothingKnown]
    /\ UNCHANGED <<owner, doubt, announced, store, drive, stage, seen, name,
                   verdict, degraded, writing>>

-----------------------------------------------------------------------------
(* copy_step *)

\* get_step: the stage is to be made, is made, or must be left alone.
GetStep(r) ==
    LET s == stage[r]
    IN  /\ pc[r] = "get"
        /\ Pass(r)
        /\ \/ /\ ~Present(s)
              /\ Goto(r, "begin")
              /\ UNCHANGED <<stage, name>>
           \/ /\ Present(s)
              /\ step[s].from # Wanted(s)
              /\ Fail(r, "corrupt")
              /\ UNCHANGED <<stage, name>>
           \/ /\ step[s].status = "copying"
              /\ step[s].from = Wanted(s)
              /\ Fail(r, "blocked")
              /\ UNCHANGED <<stage, name>>
           \/ /\ step[s].status = "copied"
              /\ step[s].from = Wanted(s)
              /\ Goto(r, After(s))
              /\ stage' = [stage EXCEPT ![r] = NextStage(s)]
              /\ name' = [name EXCEPT ![r] = IF s = "filled"
                                             THEN step[s].name ELSE @]
        /\ UNCHANGED <<owner, doubt, announced, store, drive, seen, known,
                       verdict, degraded, writing>>

\* begin_step: SET NX.
BeginStep(r) ==
    LET s == stage[r]
    IN  /\ pc[r] = "begin"
        /\ Pass(r)
        /\ \/ /\ ~Present(s)
              /\ step' = [step EXCEPT ![s] =
                             [status |-> "copying", attempt |-> r,
                              from |-> Wanted(s), name |-> "incomplete"]]
              /\ \/ Goto(r, "copy") /\ UNCHANGED doubt
                 \/ Fail(r, "failed") /\ doubt' = TRUE
           \/ /\ Present(s)
              /\ Fail(r, "raced")
              /\ UNCHANGED <<step, doubt>>
        /\ UNCHANGED <<owner, announced, batch, fill, outcome, drive, local>>

\* copy_spreadsheet made the file.
MakeFile(r) ==
    file' = [file EXCEPT ![<<stage[r], r>>] =
               IF Wanted(stage[r]) = Sheet
               THEN [base |-> edition, body |-> "clean"]
               ELSE file[Wanted(stage[r])]]

CopyOk(r) ==
    /\ pc[r] = "copy"
    /\ Pass(r)
    /\ MakeFile(r)
    /\ Goto(r, "finish")
    /\ UNCHANGED <<owner, doubt, announced, store, edition, title, late, local>>

\* Mutant: the placeholder of a rejected copy is kept.
MutantCopyRejected(r) ==
    /\ pc[r] = "copy"
    /\ Pass(r)
    /\ Fail(r, "failed")
    /\ UNCHANGED <<owner, doubt, announced, store, drive, local>>

\* CopyRejected: the server refused, there is no file.
CopyRejected(r) ==
    /\ pc[r] = "copy"
    /\ Pass(r)
    /\ Goto(r, "cancel")
    /\ UNCHANGED <<owner, doubt, announced, store, drive, local>>

\* Mutant: a copy without a usable answer is taken for a rejected one.
MutantCopyUnknown(r) ==
    /\ pc[r] = "copy"
    /\ Pass(r)
    /\ MakeFile(r)
    /\ Goto(r, "cancel")
    /\ UNCHANGED <<owner, doubt, announced, store, edition, title, late, local>>

\* CopyOutcomeUnknown although the file was made.  (When it was not, this is
\* Abort.)
CopyUnknown(r) ==
    /\ pc[r] = "copy"
    /\ Pass(r)
    /\ MakeFile(r)
    /\ Fail(r, "failed")
    /\ doubt' = TRUE
    /\ UNCHANGED <<owner, announced, store, edition, title, late, local>>

\* The step record is the one r wrote before it copied.
Mine(r) == step[stage[r]].status = "copying" /\ step[stage[r]].attempt = r

\* cancel_step: compare and delete; the refusal is raised again.
CancelStep(r) ==
    /\ pc[r] = "cancel"
    /\ Pass(r)
    /\ step' = IF Mine(r) THEN [step EXCEPT ![stage[r]] = NoStep] ELSE step
    /\ Fail(r, "failed")
    /\ UNCHANGED <<owner, doubt, announced, batch, fill, outcome, drive, local>>

\* finish_step: compare and set.
FinishStep(r) ==
    LET s == stage[r]
    IN  /\ pc[r] = "finish"
        /\ Pass(r)
        /\ \/ /\ Mine(r)
              /\ step' = [step EXCEPT ![s].status = "copied"]
              /\ Answer(r, After(s))
              /\ stage' = [stage EXCEPT ![r] = NextStage(s)]
              /\ name' = [name EXCEPT ![r] = IF s = "filled"
                                             THEN "incomplete" ELSE @]
           \/ /\ ~Mine(r)
              /\ Fail(r, "raced")
              /\ UNCHANGED <<step, stage, name>>
        /\ UNCHANGED <<owner, doubt, announced, batch, fill, outcome, drive,
                       seen, known, verdict, degraded, writing>>

-----------------------------------------------------------------------------
(* The fill of the processing backup: _fill_copy and the fillers. *)

\* get_outcome after the processing backup.  With every switch of the batch
\* off, _fill_copy does nothing.
Decide(r) ==
    /\ pc[r] = "decide"
    /\ Pass(r)
    /\ \/ /\ Decided
          /\ Goto(r, "deliver")
       \/ /\ ~Decided
          /\ seen[r] = "copied"
          /\ Fail(r, "corrupt")
       \/ /\ ~Decided
          /\ seen[r] # "copied"
          /\ Goto(r, IF batch.enabled = {} THEN "save" ELSE "fillget")
    /\ UNCHANGED <<owner, doubt, announced, store, drive, local>>

\* get_fill.  The switches it compares are those of the batch, frozen.
FillGet(r) ==
    /\ pc[r] = "fillget"
    /\ Pass(r)
    /\ verdict' = [verdict EXCEPT ![r] = fill.status]
    /\ Goto(r, IF fill.status \in {"absent", "retryable"}
               THEN "claim" ELSE "details")
    /\ UNCHANGED <<owner, doubt, announced, store, drive, stage, seen, known,
                   name, degraded, writing>>

\* begin_fill: SET NX, or compare and set of a retryable record.
Claim(r) ==
    /\ pc[r] = "claim"
    /\ Pass(r)
    /\ \/ /\ fill.status \in {"absent", "retryable"}
          /\ fill' = [status |-> "running", attempt |-> r]
          /\ \/ Goto(r, "filling") /\ UNCHANGED doubt
             \/ Goto(r, "fillerror") /\ doubt' = TRUE
       \/ /\ fill.status \notin {"absent", "retryable"}
          /\ Goto(r, "fillerror")
          /\ UNCHANGED <<fill, doubt>>
    /\ UNCHANGED <<owner, announced, batch, step, outcome, drive, local>>

\* The filler writes to the sheet: layout steps and values, of which only
\* the last leaves it as planned.
FillWrite(r) ==
    /\ pc[r] = "filling"
    /\ Pass(r)
    /\ ~(writing[r] /\ Filled.body = "full")
    /\ \E b \in {"partial", "full"} :
          file' = [file EXCEPT ![Token("filled")].body = b]
    /\ writing' = [writing EXCEPT ![r] = TRUE]
    /\ UNCHANGED <<owner, doubt, announced, store, edition, title, late, stage,
                   seen, known, name, verdict, degraded, pc, result>>

\* A filler that began to write reports needs_review, unless the forecast
\* filler fails to save the report of the history filler it delegated to.
Interrupted == {"needs_review"}
               \cup (IF ReportFails THEN {"retryable"} ELSE {})

\* Mutant: a write that times out is taken for done.
MutantFillWriteLost(r) ==
    /\ pc[r] = "filling"
    /\ Pass(r)
    /\ late' = late \cup {r}
    /\ verdict' = [verdict EXCEPT ![r] = "completed"]
    /\ Goto(r, "finishfill")
    /\ UNCHANGED <<owner, doubt, announced, store, edition, file, title, stage,
                   seen, known, name, degraded, writing>>

\* A write is not answered, and may still land.
FillWriteLost(r) ==
    /\ pc[r] = "filling"
    /\ Pass(r)
    /\ late' = late \cup {r}
    /\ \E v \in Interrupted : verdict' = [verdict EXCEPT ![r] = v]
    /\ Goto(r, "finishfill")
    /\ UNCHANGED <<owner, doubt, announced, store, edition, file, title, stage,
                   seen, known, name, degraded, writing>>

LateWrite(r) ==
    /\ r \in late
    /\ late' = late \ {r}
    /\ file' = [file EXCEPT ![Token("filled")].body = "partial"]
    /\ UNCHANGED <<owner, grace, doubt, announced, store, edition, title, local,
                   pc, result>>

\* Mutants: the sheet is not read back; the flag is set after the writes.
MutantReportBlind(r) ==
    IF writing[r] THEN Interrupted \cup {"completed"}
    ELSE {"needs_review", "retryable", "completed"}
MutantReportUnflagged(r) ==
    {"needs_review", "retryable"}
    \cup (IF Filled.body \in {"clean", "full"} THEN {"completed"} ELSE {})

\* What a filler may report: completed only for a sheet read back as
\* planned, retryable only before it writes.
Report(r) ==
    IF writing[r]
    THEN Interrupted \cup (IF Filled.body = "full" THEN {"completed"} ELSE {})
    ELSE {"needs_review", "retryable"}
         \cup (IF Filled.body \in {"clean", "full"} THEN {"completed"} ELSE {})

FillReturn(r) ==
    /\ pc[r] = "filling"
    /\ \E v \in Report(r) : verdict' = [verdict EXCEPT ![r] = v]
    /\ Goto(r, "finishfill")
    /\ UNCHANGED <<owner, grace, doubt, announced, store, drive, stage, seen,
                   known, name, degraded, writing>>

\* finish_fill: compare and set.
FinishFill(r) ==
    /\ pc[r] = "finishfill"
    /\ Pass(r)
    /\ \/ /\ fill = [status |-> "running", attempt |-> r]
          /\ fill' = [fill EXCEPT !.status = verdict[r]]
          /\ Goto(r, "details") \/ Goto(r, "fillerror")
       \/ /\ fill # [status |-> "running", attempt |-> r]
          /\ Goto(r, "fillerror")
          /\ UNCHANGED fill
    /\ UNCHANGED <<owner, doubt, announced, batch, step, outcome, drive, local>>

Degrade(r, yes) == degraded' = [degraded EXCEPT ![r] = yes]

\* The second get_fill.  A fill seen running stays a failure, unless the
\* record meanwhile holds the statuses of a completed one.
Details(r) ==
    /\ pc[r] = "details"
    /\ Pass(r)
    /\ \/ /\ verdict[r] = "running"
          /\ Fail(r, "blocked")
          /\ UNCHANGED degraded
       \/ /\ verdict[r] # "running" \/ fill.status = "completed"
          /\ Degrade(r, verdict[r] # "completed")
          /\ Goto(r, "save")
    /\ UNCHANGED <<owner, doubt, announced, store, drive, stage, seen, known,
                   name, verdict, writing>>

\* A call of _fill_copy raised.
FillFault(r) ==
    /\ pc[r] \in {"fillget", "claim", "finishfill", "details"}
    /\ doubt' = (doubt \/ pc[r] = "finishfill")
    /\ Goto(r, "fillerror")
    /\ UNCHANGED <<owner, grace, announced, store, drive, local>>

\* run_three_copy looks whether the fill was left running.
FillError(r) ==
    /\ pc[r] = "fillerror"
    /\ Pass(r)
    /\ \/ /\ fill.status = "running"
          /\ Fail(r, "blocked")
          /\ UNCHANGED degraded
       \/ /\ fill.status # "running"
          /\ Degrade(r, TRUE)
          /\ Goto(r, "save")
    /\ UNCHANGED <<owner, doubt, announced, store, drive, stage, seen, known,
                   name, verdict, writing>>

\* Mutant: a degraded batch delivers the requirement sheet as it is now.
MutantSave(r) ==
    /\ pc[r] = "save"
    /\ Pass(r)
    /\ outcome' = IF Decided THEN outcome
                  ELSE IF degraded[r]
                  THEN [from |-> "original", token |-> Sheet]
                  ELSE [from |-> "filled", token |-> Token("filled")]
    /\ Answer(r, "deliver")
    /\ UNCHANGED <<owner, doubt, announced, batch, step, fill, drive, local>>

\* save_outcome: SET NX, then whatever decision is stored.
Save(r) ==
    /\ pc[r] = "save"
    /\ Pass(r)
    /\ outcome' = IF Decided THEN outcome
                  ELSE IF degraded[r]
                  THEN [from |-> "original", token |-> Token("original")]
                  ELSE [from |-> "filled", token |-> Token("filled")]
    /\ Answer(r, "deliver")
    /\ UNCHANGED <<owner, doubt, announced, batch, step, fill, drive, local>>

-----------------------------------------------------------------------------
(* Naming, delivery, notification. *)

\* The name of the processing backup, from the switches and the decision.
FinalName == IF "legacy" \notin batch.enabled THEN "none"
             ELSE IF outcome.from = "original" THEN "incomplete"
             ELSE "complete"

\* The decision names a confirmed backup; a new delivery names it first.
Deliver(r) ==
    /\ pc[r] = "deliver"
    /\ \/ /\ outcome.token # Token(outcome.from)
          /\ Fail(r, "corrupt")
          /\ UNCHANGED stage
       \/ /\ outcome.token = Token(outcome.from)
          /\ seen[r] # "copied"
          /\ name[r] # FinalName
          /\ Goto(r, "rename")
          /\ UNCHANGED stage
       \/ /\ outcome.token = Token(outcome.from)
          /\ seen[r] = "copied" \/ name[r] = FinalName
          /\ Goto(r, "get")
          /\ stage' = [stage EXCEPT ![r] = "delivery"]
    /\ UNCHANGED <<owner, grace, doubt, announced, store, drive, seen, known,
                   name, verdict, degraded, writing>>

\* Mutant: the title is not read back.
MutantRename(r) ==
    /\ pc[r] = "rename"
    /\ Pass(r)
    /\ title' \in {title, [title EXCEPT ![step["filled"].attempt] = FinalName]}
    /\ Answer(r, "namesave")
    /\ UNCHANGED <<owner, doubt, announced, store, edition, file, late, local>>

\* rename_spreadsheet, which reads the title back.
Rename(r) ==
    /\ pc[r] = "rename"
    /\ Pass(r)
    /\ title' = [title EXCEPT ![step["filled"].attempt] = FinalName]
    /\ Answer(r, "namesave")
    /\ UNCHANGED <<owner, doubt, announced, store, edition, file, late, local>>

\* finish_step_rename: compare and set of the step as it was read.
NameSave(r) ==
    /\ pc[r] = "namesave"
    /\ Pass(r)
    /\ \/ /\ step["filled"].name = name[r]
          /\ step' = [step EXCEPT !["filled"].name = FinalName]
          /\ name' = [name EXCEPT ![r] = FinalName]
          /\ stage' = [stage EXCEPT ![r] = "delivery"]
          /\ Answer(r, "get")
       \/ /\ step["filled"].name # name[r]
          /\ Fail(r, "raced")
          /\ UNCHANGED <<step, name, stage>>
    /\ UNCHANGED <<owner, doubt, announced, batch, fill, outcome, drive, seen,
                   known, verdict, degraded, writing>>

\* A batch that was delivered before is reused: no request is sent.
Reuse(r) ==
    /\ pc[r] = "complete"
    /\ seen[r] = "copied"
    /\ Fail(r, IF batch.target = Token("delivery")
               THEN "unchanged" ELSE "corrupt")
    /\ UNCHANGED <<owner, grace, doubt, announced, store, drive, local>>

\* finish_copy: compare and set of the batch.
Complete(r) ==
    /\ pc[r] = "complete"
    /\ seen[r] # "copied"
    /\ Pass(r)
    /\ \/ /\ batch.status = "copying"
          /\ batch' = [batch EXCEPT !.status = "copied",
                                    !.target = Token("delivery")]
          /\ \/ /\ pc' = [pc EXCEPT ![r] = "notify"]
                /\ result' = [result EXCEPT ![r] = "copied"]
             \/ Fail(r, "failed")
       \/ /\ batch.status # "copying"
          /\ Fail(r, "raced")
          /\ UNCHANGED batch
    /\ UNCHANGED <<owner, doubt, announced, step, fill, outcome, drive, local>>

\* _notify_result: a card that cannot be sent is only logged.
Notify(r) ==
    /\ pc[r] = "notify"
    /\ \/ Pass(r) /\ announced' = announced + 1
       \/ UNCHANGED <<announced, grace>>
    /\ Goto(r, "closing")
    /\ UNCHANGED <<owner, doubt, store, drive, local>>

-----------------------------------------------------------------------------
(* The ends of a run, and what happens around it. *)

\* A request fails without effect, or the guard refuses it: run_record
\* catches everything.
Abort(r) ==
    /\ pc[r] \in {"load", "create", "read", "check", "get", "begin", "copy",
                  "cancel", "finish", "decide", "fillerror", "save", "rename",
                  "namesave", "complete"}
    /\ doubt' = (doubt \/ pc[r] \in Held)
    /\ Fail(r, "failed")
    /\ UNCHANGED <<owner, grace, announced, store, drive, local>>

\* The local variables of a run are gone.
Discard(r) ==
    /\ grace' = [grace EXCEPT ![r] = 0]
    /\ stage' = [stage EXCEPT ![r] = "original"]
    /\ seen' = [seen EXCEPT ![r] = "absent"]
    /\ known' = [known EXCEPT ![r] = NothingKnown]
    /\ name' = [name EXCEPT ![r] = "incomplete"]
    /\ verdict' = [verdict EXCEPT ![r] = "absent"]
    /\ degraded' = [degraded EXCEPT ![r] = FALSE]
    /\ writing' = [writing EXCEPT ![r] = FALSE]

\* The finally clause: release_run_lock, which may fail.
Close(r) ==
    /\ pc[r] = "closing"
    /\ owner' \in {owner, IF owner = r THEN None ELSE owner}
    /\ Discard(r)
    /\ Goto(r, "done")
    /\ UNCHANGED <<doubt, announced, store, drive>>

Crash(r) ==
    /\ pc[r] \notin {"idle", "done", "dead"}
    /\ doubt' = (doubt \/ pc[r] \in Held)
    /\ Discard(r)
    /\ Goto(r, "dead")
    /\ UNCHANGED <<owner, announced, store, drive>>

Ended(r) == pc[r] \in {"done", "dead"}

\* Mutant: the lock key is set without a time to live.
MutantForget ==
    /\ FALSE
    /\ UNCHANGED vars

\* Nobody renews the lock of a run that is over: Redis drops it.
Forget ==
    /\ owner # None
    /\ Ended(owner)
    /\ owner' = None
    /\ UNCHANGED <<grace, doubt, announced, store, drive, local, pc, result>>

\* A live run loses the lock; requests under way may still land.
LoseLock ==
    /\ owner # None
    /\ ~Ended(owner)
    /\ owner' = None
    /\ \E g \in 0..Grace : grace' = [grace EXCEPT ![owner] = g]
    /\ doubt' = TRUE
    /\ UNCHANGED <<announced, store, drive, local, pc, result>>

\* People edit the requirement sheet.
Edit ==
    /\ edition' \in Edition \ {edition}
    /\ UNCHANGED <<owner, grace, doubt, announced, store, file, title, late,
                   local, pc, result>>

Copying(r) == GetStep(r) \/ BeginStep(r) \/ CopyOk(r) \/ CopyRejected(r)
              \/ CopyUnknown(r) \/ CancelStep(r) \/ FinishStep(r)

Filling(r) == Decide(r) \/ FillGet(r) \/ Claim(r) \/ FillWrite(r)
              \/ FillWriteLost(r) \/ FillReturn(r) \/ FinishFill(r)
              \/ Details(r) \/ FillFault(r) \/ FillError(r) \/ Save(r)

Delivering(r) == Deliver(r) \/ Rename(r) \/ NameSave(r) \/ Reuse(r)
                 \/ Complete(r) \/ Notify(r)

\* The steps the program takes by itself once it has the lock.
Proceed(r) == Skip(r) \/ Load(r) \/ Create(r) \/ ReadStep(r) \/ Check(r)
              \/ Copying(r) \/ Filling(r) \/ Delivering(r) \/ Abort(r)
              \/ Close(r)

Next == \/ \E r \in Run : Acquire(r) \/ Proceed(r) \/ Crash(r) \/ LateWrite(r)
        \/ Forget \/ LoseLock \/ Edit

Spec == Init /\ [][Next]_vars

\* Every request is answered or times out, and Redis drops what nobody
\* renews.
FairSpec == /\ Spec
            /\ \A r \in Run : WF_vars(Proceed(r))
            /\ WF_vars(Forget)

-----------------------------------------------------------------------------
(* Properties *)

\* However many runs try, crash and overlap, a stage of a batch makes at most
\* one file (copy_step: "an unknown result keeps its placeholder").
OneFilePerStage ==
    \A s \in Stage : \A q, r \in Run :
        file[<<s, q>>] # NoFile /\ file[<<s, r>>] # NoFile => q = r

\* The records of a batch never contradict one another in Redis, whatever
\* lands late: a stage is only begun on a confirmed one before it, the
\* decision comes after both backups and names one of them as it is, and a
\* closed batch has them all (copies.py, run_three_copy and copy_step).
RecordsAgree ==
    /\ Present("filled") =>
          step["original"].status = "copied"
          /\ step["filled"].from = Token("original")
    /\ Decided =>
          step["original"].status = "copied"
          /\ step["filled"].status = "copied"
          /\ outcome.token = Token(outcome.from)
    /\ Present("delivery") =>
          Decided /\ step["delivery"].from = outcome.token
    /\ batch.status = "copied" =>
          step["delivery"].status = "copied"
          /\ batch.target = Token("delivery")

\* None of the sanity checks that stop a batch for good ever fires: those of
\* copy_step and of a closed batch never, and the one for a gap, at the head
\* of run_three_copy, not in a run that holds the lock.  It reads the records
\* one by one, so a run whose last read lands late may see a decision made
\* meanwhile on steps it has read as absent; its lock is gone, and it stops.
NeverCorrupt ==
    [][\A r \in Run :
          /\ result'[r] = "corrupt" => result[r] = "corrupt"
          /\ owner = r /\ result'[r] = "gap" => result[r] = "gap"]_vars

\* A batch needs a person only after a run lost the lock, or ended between a
\* placeholder and its answer: by a copy or a begin, claim or report whose
\* answer never came, or by a crash.  A run that fails otherwise, or whose
\* copy is rejected, leaves a batch the next run can go on with.
StuckOnlyAfterDoubt ==
    (\E r \in Run : result[r] \in {"blocked", "raced", "gap", "corrupt"}) =>
        doubt

\* What a run reports is what there is: after "copied" or "unchanged" the
\* batch is closed on a delivered file without half-written content.
ReportedIsDelivered ==
    (\E r \in Run : result[r] \in {"copied", "unchanged"}) =>
        /\ batch.status = "copied"
        /\ batch.target = Token("delivery")
        /\ file[batch.target].body \in {"clean", "full"}

\* A closed batch's processing backup bears, in Drive and in its record, the
\* name the decision calls for (run_three_copy, rename before delivery).
NameMatchesDecision ==
    batch.status = "copied" =>
        /\ step["filled"].name = FinalName
        /\ title[step["filled"].attempt] = FinalName

\* docs/architecture.md, naming of the processing backup: "complete", "not
\* complete" or "not filled".  A sheet that was filled is not named "not
\* filled".
NotFilledIsNotFilled ==
    (batch.status = "copied" /\ step["filled"].name = "none") =>
        Filled.body = "clean"

\* services/fill.py: "any write that has begun keeps the scene for review".
\* A fill that may be repeated has written nothing, and nothing it sent is
\* still under way.
RetryableIsUntouched ==
    fill.status = "retryable" => Filled.body = "clean" /\ late = {}

\* Nothing writes to the processing backup after its fill was completed, so
\* what was read back as planned is what is delivered.
CompletedFillIsFinal ==
    [][fill.status = "completed" => file'[Token("filled")] = Filled]_vars

\* A run that takes the lock ends, and the lock comes free, even after a
\* crash or a failed release.
LockComesFree == \A r \in Run : owner = r ~> (Ended(r) /\ owner # r)

Captured == IF step["original"].status = "copied"
            THEN file[Token("original")].base ELSE None

Delivered == IF Present("delivery") THEN file[Token("delivery")] ELSE NoFile

\* The batch keeps the promise of module Delivery.
Promise == INSTANCE Delivery WITH captured <- Captured,
                                  decision <- outcome.from,
                                  delivered <- Delivered

ImplementsDelivery == Promise!Spec

\* How much of a fill the processing backup shows.
Shown == IF step["filled"].status = "copied" THEN Filled.body ELSE "clean"
Landed == CASE Shown = "full" -> "all"
            [] Shown = "partial" -> "part"
            [] OTHER -> "nothing"

\* The records and files of a batch keep the promise of module Fill, which
\* SheetFill keeps for a sheet that people edit too (copies.py, _fill_copy).
FillPromise == INSTANCE Fill WITH landed <- Landed,
                                  flying <- late # {},
                                  status <- fill.status

RecordsImplementFill == FillPromise!Spec
=============================================================================
