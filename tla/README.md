# stocking-sheet-sync in TLA+

This directory specifies and verifies the parts of stocking-sheet-sync in which
something can go wrong between two lines of code: the lock and its lease, the
requests that are made under it, the batch of three copies, the task queue, the
filling of a sheet that people keep editing, and the planning of a fill from the
sales that are read to the numbers that are written. The modules follow the code
under `src/stocking_sheet_sync/` (paths below are relative to it); TLC checks
them on small instances, and TLAPS proves the most important properties for all
values of the constants.

    tlc -workers 2 -config MCQueue.cfg MCQueue
    tlapm QueueProofs.tla

`PROJECT.json` names every run, the mutants that show that each property can
fail, the source lines each definition stands for, the hazards and the theorems.

## 1. The system

A webhook call names a row of a Feishu table. The row holds a link to a
requirement sheet. The program makes three files of that sheet (an original
backup, a processing backup, and the delivery), fills sales and forecasts
into the processing backup, and announces the delivery. Everything that must
survive a crash is in Redis; everything that people see is in Feishu Drive.

| Component | State it keeps | Operations | Modelled by |
|---|---|---|---|
| Run lock and lease (`infrastructure/lease.py`, `redis.py`) | the lock key with its time to live; the local deadline, the `lost` flag and the renewal thread of a run | acquire, start, renew, `assert_run_lock`, close, release, expiry | `Lease` |
| Three-copy batches (`services/copies.py`, `sync.py`) | `CopyState`, `CopyStep` ×3, `FillState`, the frozen outcome; files and titles in Drive | `run_record`, `copy_step`, `_fill_copy`, decide, deliver, rename, finish, notify | `ThreeCopy`, `Delivery`, `Fill` |
| Task queue and worker (`infrastructure/queue.py`, `services/worker.py`, `consumer.py`, `entrypoints/server.py`) | stream, consumer group, result hashes, attempts | enqueue, take, status, begin, defer, finish; sessions, stop, restart | `Queue` |
| Webhook (`entrypoints/web.py`) | none | enqueue | `Queue` (Enqueue) |
| Manual rerun and fill (`entrypoints/rerun.py`, `fill.py`, `sales_fill.py`, `layout_apply.py`) | none of their own | take the business lock; run a record; fill a sheet in place | a run of `ThreeCopy`, `ManualStart`/`ManualEnd` of `Queue`, `SheetFill` |
| Fillers (`services/fill.py`) | the `writing` flag, the report | read, plan, lay out, write, verify, report | outcome in `ThreeCopy`, steps in `SheetFill` |
| Sheet access (`infrastructure/feishu/sheets.py`, `domain/sheets/validation.py`) | revision and cells of the sheet | `read_sheet`, `apply_update`, `write_sales_ranges`, `verify_*` | `SheetFill` |
| Sheet planning (`domain/sheets/*.py`) | none | entries and totals of a plan, scopes in conflict, the company column, projected layout | `FillPlan`, `Scopes`, `Company`; layout as a set of columns in `SheetFill` |
| Forecast (`domain/periods.py`, `forecast.py`, `services/calculation.py`) | none | calendar, inputs, reasons to leave it to a person, allocation | `Periods`, `Decimals`, `Forecast`, `Calculation` |
| Feishu client (`infrastructure/feishu/client.py`) | access token | requests, attempts, errors | `Client`, `Request` |
| Warehouse (`infrastructure/warehouse.py`, `company.py`, `services/sales.py`, `services/company.py`) | none | read-only queries, retries, coverage, fallbacks | `Warehouse`, `Company` |
| Artifacts (`infrastructure/artifacts.py`) | local files | clean-up | not modelled |
| Notifications (`services/notification*.py`) | none | cards | that one is sent, in `ThreeCopy` |
| Settings, logging, inspection commands | none | | not modelled |

How they meet. A process serves the queue in *sessions*; a session holds the
worker lock, and for each task it calls `run_record`, which takes the business
lock. Both locks are kept by the same lease code. A manual rerun calls
`run_record` with a request id of its own, or with that of an earlier batch.
`run_record` drives Redis records and Drive files, and hands the processing
backup to a filler; the filler reads the warehouse, calculates, and works on
the sheet. People edit all sheets at any time.

What is hard here:

* Nothing is transactional across Redis and Feishu, and Feishu has no
  compare-and-set: a copy, a rename or a write can be done and its answer lost,
  or can land later.
* A lease is a *local* belief about a remote key. Between the guard and the
  effect of a request the lock may change hands.
* A run may die between any two steps, and another run of the same batch, with
  other switches or other contents of the source, goes on from the records.
* Attempts are counted in requests that are separate from the ones that take,
  execute and settle a task.
* A snapshot of a sheet is put together from many requests while people type.
* The tables of the warehouse are loaded while they are read, query by query.
* Parts of a plan conflict with the sheet and are left out, while other parts
  (totals, forecasts) were computed with them.
* A column outlives the fill that made it: the next one, on another day, must
  tell whether its numbers are still the ones its title promises.
* Rounded arithmetic and calendars have edges that tests sample thinly.

What makes each component correct: a guard that passes means the lock is still
held, but for a lag with a bound, and a lock changes hands only through Redis
(lease); at most one request that leaves after that, and refusals that are final
(client); one file per stage, records that never contradict each other, the
delivery that was decided, a report that agrees with the files, and a lock that
comes free (batches); status and stream that agree, bounded attempts, earned and
final verdicts, no task lost or starved (queue); snapshots that are real,
completed fills that are whole, no column inserted twice, no typed value lost
(fill); numbers that are what was sold, conflicts that stay where they are,
totals that add up, forecasts beside the history they were made from, a company
column whose title is true (planning); windows that are over and comparable, a
forecast the rules give (forecast).

## 2. The modules and the code

### Lease

One clock, `now`, is read by Redis and by the processes. `key` and `expires` are
the Redis key; `deadline`, `lost`, `thread`, `waited`, `started` are the fields
and locals of `RunLease`. `Acquire` is SET NX EX when Redis executes it,
`Start` the construction of the lease when the answer has been read: the code
counts the deadline from there, at most `AcquireDelay` later. Until Redis has
executed a renewal the lease can therefore outlast the key, by that delay at most;
`Lagging` says that a lease is in that time. The renewal thread
is split where it can be overtaken: it takes the time (`RenewStart`), Redis
compares and extends (`RenewExec`), the answer arrives (`RenewConfirm`) and is
committed under the lock (`RenewCommit`), or the call raises or comes too
late. `Tick` lets time pass unless some step of the renewal thread is overdue
by more than `MaxStall`. `Stop`, `Join`, `Release` are `close` and
`release_run_lock`; `Crash` ends a run anywhere. A holder takes the lock once:
a run that tries again does so with a fresh token, as another holder.

### Client, on top of Lease, refining Request

`Client` EXTENDS `Lease` and gives some holders the method `_request`: `Call`,
`Pass` / `Stopped` (the guard before the loop and the one after the token),
`Token` / `TokenFails`, `Send`, and the answers `Ok`, `Refused`, `Unclear`, with
`Fail` as the common end of an attempt that failed (sleep and repeat, or raise).
`Land` is Feishu executing a request, also one that nobody waits for any more
(`stray`). Time passes between any two steps, so the lease can run out between
the guard and `Send`. The lease is closed only between calls (`Between`), as its
owner is the thread that makes them; a crash comes anywhere.

`Request` is what the callers of `retry=False` build on: such a request lands at
most once; "ok" means it has, "refused" means it never will, and after anything
else it may have or may still. `CopyOk`, `CopyRejected` and `CopyUnknown` of
`ThreeCopy` and the lost writes of `SheetFill` are these three outcomes. For
requests that are repeated the promise is not made, and `ImplementsRequest`
leaves them out.

### ThreeCopy, refining Delivery and Fill

`Run` are the runs of one batch. The records are `batch`, `step`, `fill`,
`outcome`; the files and titles are `file`, `title`. Each action is one request
with the code around it: `ReadStep`, three times, and `Check` are the head of
`run_three_copy`, which reads three steps and the outcome in four requests, each
with its own guard, before it compares them (`known` is what the run has read so
far); `GetStep`, `BeginStep`, `CopyOk` / `CopyRejected` /
`CopyUnknown`, `CancelStep`, `FinishStep` are `copy_step` and the copy request;
`Decide` freezes the outcome; `FillGet`, `Claim`, `FillWrite`, `FillReturn`,
`FinishFill`, `Details`, `FillError`, `Save` are `_fill_copy` and the filler;
`Deliver`, `Rename`, `NameSave`, `Complete`, `Notify` finish the batch;
`Abort` is every exception, `Close` the `finally` clause. `Pass(r)` is
`assert_run_lock`: the run holds the lock, or it has lost it and one of its
`Grace` requests under way still lands. `Forget` is the expiry of the key of a
run that is over, `LoseLock` of one that is not.

`Delivery` says the same of a batch in four steps: the sheet is captured once,
the decision is taken once, one file with the decided content is delivered and
does not change, and success is announced at most once after that.
`ImplementsDelivery` is the refinement: the capture is the content of the
original backup, the decision the frozen outcome, the delivery the file of the
last stage.

`Fill` is what a batch and a filler know of each other: what took effect, whether
a request is under way, and the recorded status. A fill that may be repeated has
changed nothing and never will; a completed one has written its whole plan, or
nothing was to be written, and nothing more happens; what is under review is not
filled again. `RecordsImplementFill` is the refinement for the record of the fill
and the processing backup, over all runs that claim, write, crash and report. The
four actions with which `ThreeCopy` stands for a filler know more than `Fill`
(which run, which lock), so they are not taken from it.

Abstractions: people edit the requirement sheet but not the
processing backup, which is what `SheetFill` is about; an attempt id is the
run that made it.

### Queue

`stream`, `pending`, `cursor` are the Redis stream and its consumer group,
`hash` the result of each task with its attempts. A process is in one session at
a time: `Acquire`, then `TakePending` or `TakeNew` (the guard is asked before
the read that blocks, not after it), `ReadStatus`, `Begin`, `RunStart` /
`RunEnd` around `run_record`, and `Complete`, `Exhaust`, `Retry`, `DeferBusy` or
`GiveUp`. `Enqueue` is one Lua script of `infrastructure/queue.py`; `Begin`,
`Retry`, `DeferBusy` and the three ends of a task are one MULTI/EXEC pipeline
each, so that each of them is atomic, but no part of the guard before it. The
guard is a look at a local clock: a session that has lost the worker lock may
land up to `Grace` more requests, and the history variable `stray` counts, for
each task, the ones that were about it. A request for the lock may be executed
and its reply lost: the key then stays until it expires, while the session tries
again. `Fault`, `Leave`, `Crash`, `LoseLock`, `LoseBusiness` and `ManualStart`
each cost one unit of `trouble`. `Expire` drops a result whose time to live is
over. A caller that repeats a call whose answer was lost enqueues another task.

### SheetFill, refining Fill

One sheet, one filler, and people. A *cell* stands for what the code decides as
one: a cell that is never written, a target (one metric of one style and
platform), a cell of a column to be inserted, or a summary whose formula is
replaced. `read_sheet` is `ReadRevision`, `ReadExport`, `ReadCell`, `ReadEnd` with
its comparisons of revision and export (`ReadStops`); it is used three times,
before, after the layout, and after the write. `Plan` is the preflight on the
projected sheet that raises the `writing` flag; `LayoutCheck`, `Insert`, `Reread`
are the loop of `apply_update`; `CheckLayout` is `verify_update`; `WriteCheck` and
`Write` are the two requests of `write_sales_ranges`; `Verify` is
`verify_sales_update`. `InsertLost`, `WriteLost` and `Crash` leave a request in
`flying`, and `LateLanding` lets it take effect at any later time.

`landed` is a history variable: nothing, part (columns), or all of the fill took
effect. `ImplementsFill` maps it, `flying` and `verdict` to `Fill`: the fill that
people disturb keeps the promise on which the batch relies. What people do to the
sheet is no step of `Fill`; `CompletedIsWhole` is about that.

Abstractions: the batch write is atomic; people type values but do not insert
or move columns; headers, widths and merged ranges are layout steps of the same
kind and left out; a fill is started again only when it was reported
retryable, as the program itself does.

### Periods, Decimals, Forecast, Calculation

`Periods` is `domain/periods.py` on dates and their ordinals. `Forecast` is
`domain/forecast.py`, computed in `Decimals`: every result is rounded to
`Precision` digits, as Python's decimal module does with 28; powers of ten and the
number of digits are recursive functions. `Calculation` takes
one style on one platform through `inspect_forecast`: labels and calendar, an
incremental fill that finds everything filled, the three windows, the base of
last year, the shares, the short windows, the allocation. A window is there
for all SKUs or lacking; whether it came from the warehouse or from a dated
column of the sheet makes no difference to the forecast.

### Products, Warehouse, Scopes, FillPlan

A sheet has SKUs (`Item`) of styles (`StyleOf`); `Products` has no more than that.

`Warehouse` is the loop of `inspect_sales` and the queries under it, for one
platform: from a summary, with the details as a fallback for a day or a SKU
that it lacks (`Present`, `Snapshot`), from the details alone (`Coverage`,
`Facts`), or from a snapshot. `QueryFails` is `_execute`, with its one repetition.
Between any two queries days are loaded or taken away, and the summary gets rows
(`LoadDay`, `DropDay`, `Summarise`): these actions are external, and are what the
code's own checks guard against.

`FillPlan` goes on from the numbers: `Take` fixes the sheet and the settings of the
fill, `Draft` is `build_sales_update` / `build_forecast_values` (a status for
every cell, a status for the total below every column, scopes known to be in
conflict), `WritePlan` is `isolate_scopes` and the write, with the sums that are
verified afterwards. `Scopes` has `isolate_scopes` by itself. A column is one
metric of one platform. Quantities other than sales are one number each, and
whether a scope has its data is chosen: how they come about is `Calculation`.

### Company

The column with the company's sales, over several days and fills
(`resolve_company_sales`, `read_company_sales`, `build_update`,
`append_company_values`): `StartFill`, then `Decline`, `Reuse` or `Query`, then
`SetTitle` and `WriteNumbers`; `Stop` is whatever ends a fill early. A number is
modelled by the day it was computed for. People type between fills; typing
during a fill is the subject of `SheetFill`.

### Planning

`Planning` puts `FillPlan`, `Company` and `Calculation` side by side. They work on
snapshots of their own and share no variable, so a behaviour follows one of
them and the state space is a sum, not a product.

## 3. What the runs check

All times are for two workers.

| Run | Instance | Shows | States |
|---|---|---|---|
| `client` | 2 runs, one of them with requests; TTL 3, delay 1, stalls up to 8, clock up to 5, 2 attempts | a guard that passes means the token is in Redis, or a lease that is lagging; the key changes hands only by expiry, release and SET; one late request at most; the refinement of `Request` | 76 s |
| `lease_prompt` | TTL 11, delay 1, stalls up to 2, clock up to 16 | the guard lags the key by at most the delay; a punctual thread keeps the lock | 18 s |
| `three_copy` | 2 runs, 2 editions, 3 switch settings, 1 late request per run; reports are saved | `OneFilePerStage`, `RecordsAgree`, `NeverCorrupt`, `ReportedIsDelivered`, `NameMatchesDecision`, and the refinement of `Delivery` | 1.4 M, 107 s |
| `three_copy_live` | 2 runs, no late requests, fairness; reports are saved | `StuckOnlyAfterDoubt`, `CompletedFillIsFinal`, the refinement of `Fill`, `LockComesFree` | 221 k, 86 s |
| `queue` | 2 processes, 2 tasks, 2 attempts, 2 troubles, 2 late requests per session | status and stream agree, the holder of the lock serves a task that is unsettled, verdicts are earned and final, a task is executed at most `max_attempts` times, each but for late requests on the task itself; waiting for the business lock is never charged | 3.9 M, 95 s |
| `queue_live` | 2 processes, 2 tasks, 2 troubles, no late requests, fairness | every task settles | 40 s |
| `sheet_fill` | 5 cells of all kinds, 2 edits, 2 fills | `SnapshotIsReal`, `CompletedIsWhole`, `ColumnsOnce`, `LostOnlyInTheGap`, and the refinement of `Fill` | 3.4 M, 55 s |
| `fill_plan` | 3 SKUs of 2 styles; a window of 2 days; 54 sheets with 5 kinds of cells below them; 3 days of fills of the company column; 8 days around season ends and leap days | `NumbersAreTrue`, `ConflictsStayLocal`, `TotalsAddUp`, `ForecastMatchesHistory`; `TitleTellsPeriod`, `SharesAreCurrent`, `StylesAreWhole`; `OnlyDaysThatAreOver`, `SameDaysLastYear`, `ForecastIsNear`, `SharesInOrder` | 730 k, 150 s |
| `three_copy_new`, `three_copy_report`, `company_title`, `calculation_half` | small | the findings of section 5 | seconds |

`RetryableIsUntouched`, which `three_copy_report` refutes when a report may
fail, is otherwise proved, and follows from the refinement of `Fill` that
`three_copy_live` checks. The type invariants of `Lease`, `ThreeCopy`, `Queue`,
`SheetFill` and `Client` are proved for all constants (section 4) and not
checked again.

Why the bounds are enough. Two holders suffice for the lease: all a third could
do to two others is hold the key, which either of them can. In `client` a stall
may be longer than two lives of the key; in `lease_prompt` the clock covers a
renewal, its retry, and the expiry. Two runs of a batch show every pair of an
abandoned and a following run, and the theorems about the records hold for any
number. One late request per run is the one it was waiting for when its lock
went away: the guard stops the next one, unless the lease is lagging. A session
of `queue` may land two, so that it can charge an attempt and settle the task
without the lock. Two tasks are needed for one to be behind another, two
attempts for the last to differ from the first, and two troubles for a fault in
the session that recovers from a fault. Two edits let people change a cell and
change another, or one before and one after a check; two fills show the
repetition of a retryable one. Two attempts of a request show the first and the
last. In `fill_plan` a style of two SKUs and one of one SKU show a part of a
style, a whole one, and the other style; a window of two days can lack its
first, its last, or both; one day taken away (`MaxDrops`) is enough to lose one
that was seen; three days of fills (`MaxDay`) leave room for a title two fills
old, and two typed cells (`MaxTyped`) for one in each style. The sheets have
every mixture of blank, agreeing and differing sales, and a formula; the other
columns are blank or filled in for one style each. The dates are those at which
a branch of the calendar changes; the season ends on February 28, which is
harder than the configured January 31. `Precision` is 4 because TLC computes
with 32 bits; `ForecastIsNear` allows for the nineteen roundings between the
sales and a share at that precision.

Deadlock is not checked: runs end, queues become empty, and bounds are reached.

### Fairness

Only the two liveness properties need it. `FairSpec` of `ThreeCopy` and `Queue`
assumes weak fairness of what a process does by itself (`Proceed`), because
every request has a time-out and every wait a limit; of `Forget` and
`ForgetBusiness`, because Redis drops a key that nobody renews; of `ManualEnd`,
because a manual run is a program of the same kind. In `Queue` weak fairness of
`Proceed` includes `Restart`: the service manager restarts the process. Nothing
is assumed of crashes, lost locks or people, except that in `Queue` the troubles
are finitely many: with infinitely many a task could be given up as soon as it
is taken.

## 4. What is proved

Each of the `*Proofs` modules has an inductive invariant, checked by TLC before it
was proved, and derives the properties from it.

* `LeaseProofs`. The renewal thread takes its time before it sends, so the
  deadline it will commit is never later than the expiry that Redis sets; the
  invariant relates the deadline, the last `started` and the last expiry, and
  says that a key with the token of a run has that expiry. `LagIsBounded`
  (`GuardLag`): a guard that passes is behind the key by at most `AcquireDelay`.
  `GuardIsSound` (`GuardMeansOwnership`), for every `AcquireDelay`: the run
  holds the lock, or its lease is lagging. The exception is real: the code
  counts the first deadline from the reading of the SET answer and not from the
  sending, so that, until the first renewal, a guard can pass for as long as
  that answer was under way after the key is gone. Renewals have no such lag,
  since their time is taken before the request. `HandsChangeByTheRules`
  (`LockChangesHands`): only expiry, the release of the run itself and SET
  change the token in Redis. `LeaseLasts` (`KeepsLock`): a lease is given up
  only if a renewal call raised, provided that delays are small against the time
  to live (`Margin`). The invariant `Timely` says how much of both deadlines is
  left when the thread waits and when it asks; the two inequalities of `Margin`
  are what an interval of a third leaves after a late answer to the last
  renewal, or to SET. The default of 300 s allows answers 66 s late, four
  time-outs of a request. With a time to live of 10 in the instance of
  `lease_prompt` the first fails (20 is not above 20), and TLC finds `KeepsLock`
  violated.
* `ClientProofs`. `ClientKeepsLease`: with requests made under it, the lease is
  still the one of `Lease`, so that what is proved of it holds on.
  `OneSendIsLate` (`OneLateSend`), for any number of holders and attempts and
  any `AcquireDelay`: a request is late when it leaves after the key of its run
  and after the lag of its guard. The argument is that a run never gets back a
  lock that is gone, so that a late request was past its last guard, and the
  guard of the next one fails. While the lease is lagging, requests do go out
  without the lock, as many as fit into the delay. `ClientPromises`
  (`ImplementsRequest`): every step of a request that is not repeated is one of
  `Request` or none. The invariant accounts for the attempts: what landed, what
  may still land and where the call is add up.
* `ThreeCopyProofs`. For any number of runs, editions, late requests and switch
  settings: `OneFile` (`OneFilePerStage`) and `Consistent` (`RecordsAgree`). The
  properties alone are not inductive: the invariant also says what the records
  imply at each program counter of each run, whose attempt a placeholder is, and
  that a file exists only under the attempt of its record, or under a
  placeholder that nobody will ever cancel.

  `HolderFindsNoGap` (`NeverCorrupt`) is about the checks of the program itself.
  Those of `copy_step` never fire. The one at the head of `run_three_copy`
  compares records that were read one by one. A run that has lost its lock can
  read steps as absent and, late, a decision that was made on them since: it
  finds a gap that is not there, and stops, as it would at its next guard. TLC
  reaches this with one late request (`gap` in `result`). The run that holds the
  lock is safe as long as a run without it lands at most two requests
  (`Grace <= 2`): a stage needs a placeholder, a copy and a confirmation, and the invariant
  `Reading` counts how many of these a late run has spent since the holder read
  the stage as absent. With three late requests and three runs TLC finds the
  holder's check fail: one run makes a stage entirely without the lock, and
  another goes on from it, between two reads of the holder. `Grace` is 1 unless
  a lease is lagging.

  The second half extends that invariant, again for any number of runs and
  editions, by parts that stand on each other. `Begun`: nothing is recorded
  before there is a batch. `Claims`: who fills holds the record of the fill, and
  what a run believes of it is so. `Made`: a confirmed copy is there. `Names`:
  the title changes once, to the name the decision calls for, first in Drive,
  then in the record, then follows the delivery. `Cards`: one run closes the
  batch, and it alone announces that. These hold for any `Grace` and whatever
  becomes of the report of a fill (`Ordered`), and give `NameMatches`
  (`NameMatchesDecision`).

  `NeverStuck` (`StuckOnlyAfterDoubt`) adds `Alone`: as long as `doubt` is
  false, the run that holds the lock is the only one at work, what it has read
  is still so (also of the steps that it reads one by one), and each placeholder
  is its own. `doubt` is raised by more than a lost lock: by a copy whose answer
  is not usable, by a lost reply to a `begin_step`, a claim or the report of a
  fill, and by a run that stops or crashes while a copy or a fill of its own is
  not confirmed. So the theorem does not say that a crash before a copy was sent
  lets the next run go on: the code stops then, and cannot know better.

  `Contents` and `Writes` say what each file holds and who may still write to
  it: a request under way belongs to the attempt in the record of the fill, and
  this record is neither retryable nor completed. They need that the report of a
  fill is saved (`ReportFails = FALSE`); without that they are false, as
  `three_copy_report` shows. They give `Delivers` (`ReportedIsDelivered`),
  `Repeatable` (`RetryableIsUntouched`), `FillIsFinal` (`CompletedFillIsFinal`),
  and `Implements` (`ImplementsDelivery`): every step of a batch is one of
  `Delivery` or none. `RecordsKeepPromise` (`RecordsImplementFill`) says the
  same of `Fill`.
* `QueueProofs`, for any number of processes, tasks, attempts, troubles and late
  requests: `StatusIsRight` (`StatusMatchesStream`), `Earned`
  (`VerdictIsEarned`), `HolderServes` (`HolderServesLiveTask`), and
  `FinalIsFinal` (`FinalStatusIsFinal`). The invariant says that the session
  with the worker lock has a task that is pending and unsettled and whose record
  it alone writes, unless a request on that task landed after the lock of its
  session (`stray`).

  What does not depend on `stray` holds however much lands late: a message in
  the stream is never settled, what was delivered of it is pending, and a
  completed task was executed with success. What does depend on it is what the
  code does not prevent: a late `finish` settles the task under the next
  session's hands, a late `begin` or `defer` makes a settled task look alive
  (even in a hash that has expired, where a late `defer` counts from zero to
  -1), and a late request changes the attempts by which a task is given up. The
  window is the one between a check of a local clock and the arrival of a
  request, one request wide unless the lease is lagging.

  The second part counts, for a finite set of processes. `RunsAreCharged`
  (`ChargedForRuns`): each attempt charged is paid for by an execution, a
  session that has not decided yet, or a trouble. `ExecutionsAreBounded`
  (`ExecutionsBounded`): executions and the sessions about to execute stay
  within the attempts and the late requests on the task; each of those can take
  one attempt back, or let one more session through.
* `SheetFillProofs`, for any cells, edits and fills: `SnapshotsAreReal`,
  `CompletedAreWhole`, `InsertedOnce`, `GapIsAll`. The invariant
  relates what the filler has read (`asRead`, `exported`, `got`) to the sheet as
  long as the revision has not moved, and what is in `flying` to the `writing` flag
  and the verdict. `KeepsPromise` (`ImplementsFill`) adds how far the fill has come
  (`Progress`): a fill that inserted a column cannot find that nothing is
  left to write, since that column is empty, and an empty one is to be written.
* `DecimalsProofs`, for any precision, is what the next module needs of the
  arithmetic. The powers of ten, the digits of a number and the sum of a function
  over a set are recursive functions: that they exist, and what holds of all
  their values, is derived from the least element of a set of natural numbers
  (`Induction`, `Recursion`, `Sums`). Then two things are shown of rounding.
  `OverInOrder`: the quotient of a smaller decimal is never larger. The
  exponents of the two quotients may differ; then a power of ten lies between
  them, and rounding does not pass it. `OperationsAreNear`: a product, sum or
  quotient is off by at most one of 2 * 10^(Precision - 1) parts of the result,
  half a unit of its last digit. Distances are kept as a number of such parts,
  with a rule for each operation on what is off already, so that the distance
  of a computation is counted, not computed.
* `CalculationProofs`, for any day and any ends of the seasons: `DaysAreOver`
  (`OnlyDaysThatAreOver`) and `DaysAreCompared` (`SameDaysLastYear`). A calendar is
  all cases; the lemmas reduce it to two numbers, the start of a year and the
  place in it, between which leap days are the only difference. The invariant
  `WindowInv` says that the windows are none or those of a season that is not
  over this year but was last year, and needs that one of the next ends of a
  season is less than a year away, and that the end of a season is never a leap
  day, so that it exists in every year.
  The second part is about the numbers, for any sales, cap, unit and number of
  SKUs. `ForecastInvariant`: `ForecastInv` adds that every quantity is a number,
  and that nothing is allocated unless the base of last year, the weights and the
  trends were accepted. It gives `NothingDividedByZero`: each divisor of
  `allocate_forecast` and `trend_factor` is a number other than 0.
  `SharesStayInOrder` (`SharesInOrder`), for any precision: the same chain of
  operations is applied to all weights of a style, and none of them changes the
  order. `ForecastsAreNear` (`ForecastIsNear`), for any precision from 4
  digits on: 6 roundings are made for a trend, 16 for the demand of a
  style, 19 for a share; what products of errors add stays below one more,
  which is where the 20 of `Slack` comes from. With fewer than 4 digits the parts
  are too coarse for that; the program has 28.
* `PlanningProofs`, first for the company column, for any SKUs, styles and days:
  `TitlesAreTrue` (`TitleTellsPeriod`), `SharesAreTrue` (`SharesAreCurrent`),
  `StylesStayWhole` (`StylesAreWhole`). Title and numbers are replaced by two
  requests; the invariant says that they belong together except between these,
  and that a fill that replaces a title is about to write the numbers of all SKUs.
  Then for the plan, for any tables, SKUs, columns of a platform and sheets:
  `ReadNumbersAreTrue` (`NumbersAreTrue`), `ConflictsAreLocal`
  (`ConflictsStayLocal`), `ForecastsHaveHistory` (`ForecastMatchesHistory`), and
  `SumsAreTrue` (`TotalsAddUp`). The
  second follows from two lemmas about `Active` alone, for any entries, totals and
  blocked scopes: a part of a plan fails only by what is in it, and what fails in
  the whole plan for a style fails for that style alone. The third needs that a
  forecast has data only for styles with all their history, and the plan as
  `Draft` made it. The fourth needs that what is written to a column with a
  verified total is what its total was computed from: the sum of equal numbers
  is equal, so nothing about sums is left to induction. `PlanningParts` carries
  the results, and those of `CalculationProofs`, over to the composition.
  `PlanningTypes` (`PlanningTypeOK`) puts the types of all parts together: the
  numbers that are read are sums over the window, so they need that the window
  is finite, and what `FillPlan` writes to the sheet are these numbers.

The theorems assume the named `ASSUME`s of the modules (disjoint sets of cells,
`None` outside the runs, positive numbers), which TLC evaluates in the runs. The
sets that are summed over, `Sku` and `Dates`, are finite. A day of a forecast is
after the year 2, since the day a year and 30 days before it must be a day of
the calendar too.

Only model-checked: the liveness properties `LockComesFree` and
`EveryTaskSettles`, since the prover has no fairness and no ENABLED; their runs have
no late requests (`Grace = 0`), which keeps the graphs small enough. Every
invariant, every action property and every refinement that a passing run checks
is also proved: for all late requests and all delays, except that `NeverCorrupt`
needs `Grace <= 2`, `KeepsLock` needs `Margin`, the properties of `Contents` and
`Writes` need `ReportFails = FALSE`, and `ForecastIsNear` needs `Precision >= 4`.

## 5. Findings

* `three_copy_new`: with only the switches for new products on, a sheet is filled
  and delivered filled, and its processing backup is named "not filled"
  (`services/copies.py:176` looks only at the other switches).
* `three_copy_report`: when the last report of a fill that one filler delegated
  to the other cannot be saved, a sheet that has been written is reported as
  retryable (`services/fill.py:502`).
* `company_title`: an overwriting fill that stops between the new title of the
  company column and its numbers leaves the old numbers under the new dates; the
  next ordinary fill of that day finds a complete column with the right title,
  keeps it, and computes shares from it (`services/company.py:72`).
  `TitleTellsPeriod` and `SharesAreCurrent` show that this is the only way.
* `calculation_half`: a share of exactly half a unit can be rounded down, since
  the quotients before it are rounded to the precision of the arithmetic. The
  instance uses 4 digits, and sales for which 28 digits round the same halves
  the same way: with 8 pieces this year and last, 2 and 0 of them in the last
  15 days, and 45 last season, `allocate_forecast` computes 44.99…9 and
  forecasts 40 instead of 50.

Not a finding, but a limit that the properties state: the write of a sheet names
no revision, so that a value typed between the check and the write is replaced
(`LostOnlyInTheGap` shows that this is the only way); a day that is taken out of
the details between the two queries is not noticed (`NumbersAreTrue` is about all
other numbers).

## 6. Plan

Done, in this order, the core first: `Lease`; `Delivery` and `ThreeCopy`, which
stand on it; `Queue`, which runs them; `SheetFill`, which is the inside of the
fill step; `Calculation`, which is the inside of its plan; `Client`, which is the
inside of every request; `Warehouse`, `FillPlan`, `Scopes` and `Company`, which are
the rest of the plan; and proofs of all the safety properties, the ones about
sums and digits last, and of all refinements: `Delivery`, `Request`, and `Fill`,
which both `SheetFill` and `ThreeCopy` implement.

Not modelled, and why:

* The single-copy workflow of `services/sync.py`: every configuration has a backup
  folder (`settings.py:128` requires it), so that only records of an older
  version lead there; nor the migration of those.
* The clean-up of local evidence (`infrastructure/artifacts.py`): files that the
  program never reads back.
* Company sales of windows other than 30 days (`infrastructure/company.py`), which
  nothing in the program asks for.
* The wording and layout of cards and headers, cell styles, merged ranges, the
  positions of columns and formulas of summary rows; SQL text.
* The parsing of settings and requests, logging, and the read-only inspection
  commands, which keep no state.
