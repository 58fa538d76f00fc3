------------------------------- MODULE Queue -------------------------------
(***************************************************************************)
(* The task queue (infrastructure/queue.py), the worker that serves it one *)
(* task at a time (services/worker.py) and the sessions in which a process *)
(* runs that worker (services/consumer.py, entrypoints/server.py).         *)
(*                                                                         *)
(* A process has one session at a time.  Sessions share one name in the    *)
(* consumer group, so a new one is given what an old one left              *)
(* unacknowledged; the worker lock keeps them apart, with the guard of     *)
(* module Lease before most requests and not before all.  That guard is a  *)
(* look at a clock and no part of the request, so a session that lost the  *)
(* lock may still land up to Grace requests; stray counts those that were  *)
(* about a task.  The work itself, run_record, takes the business lock,    *)
(* which manual reruns and fills take too; module ThreeCopy models it.     *)
(*                                                                         *)
(* Tasks are numbered in the order of their stream ids.  Everything that   *)
(* goes wrong, and every manual run, costs one unit of trouble.            *)
(***************************************************************************)
EXTENDS Integers, FiniteSets

CONSTANTS Process,      \* the processes that may serve the queue
          Manual,       \* a manual rerun or fill
          None,
          MaxTasks,     \* bound on the tasks enqueued
          MaxAttempts,  \* queue_max_attempts
          Grace,        \* requests of a session that may land after its lock
          MaxTrouble    \* bound on faults, crashes, stops and manual runs

ASSUME QueueAssumption ==
    /\ None \notin Process
    /\ Manual \notin Process
    /\ None # Manual
    /\ MaxTasks \in Nat
    /\ MaxAttempts \in Nat \ {0}
    /\ Grace \in Nat
    /\ MaxTrouble \in Nat

VARIABLES
    stream,     \* the tasks in the Redis stream
    pending,    \* delivered to the consumer and not acknowledged
    cursor,     \* the last task the group has delivered
    hash,       \* the result hash of each task
    owner,      \* the process whose session holds the worker lock, or None
    grace,      \* requests a session may still land without the lock
    business,   \* the holder of the business lock
    pc,         \* where each process is
    task,       \* the task it works on, 0 for none
    attempt,    \* the number begin returned
    verdict,    \* how run_record ended
    enqueued,   \* tasks enqueued so far
    executed,   \* times each task went through run_record (history)
    done,       \* tasks for which run_record reported no failure (history)
    stray,      \* requests on each task that landed after the lock (history)
    trouble     \* units of trouble so far

redis == <<stream, pending, cursor, hash>>
locks == <<owner, grace, business>>
local == <<task, attempt, verdict>>
results == <<enqueued, executed, done>>
history == <<results, stray>>
vars == <<stream, pending, cursor, hash, owner, grace, business, pc, task,
          attempt, verdict, enqueued, executed, done, stray, trouble>>

Task == 1..MaxTasks
Terminal == {"completed", "failed"}
Live == {"queued", "running", "retrying"}
Status == {"absent"} \cup Live \cup Terminal

\* A result hash; expires tells whether EXPIRE gave it a time to live, which
\* later writes leave alone.  A count in a hash that is gone begins at zero.
Hash == [status : Status, attempts : Int, expires : BOOLEAN]
NoHash == [status |-> "absent", attempts |-> 0, expires |-> FALSE]

TypeOK ==
    /\ stream \subseteq Task
    /\ pending \subseteq Task
    /\ cursor \in 0..MaxTasks
    /\ hash \in [Task -> Hash]
    /\ owner \in Process \cup {None}
    /\ grace \in [Process -> 0..Grace]
    /\ business \in Process \cup {None, Manual}
    /\ pc \in [Process -> {"idle", "take", "takenew", "status", "giveup",
                           "begin", "run", "running", "busy", "settle",
                           "closing", "leaving", "down"}]
    /\ task \in [Process -> 0..MaxTasks]
    /\ attempt \in [Process -> Int]
    /\ verdict \in [Process -> {"none", "ok", "failed"}]
    /\ enqueued \in 0..MaxTasks
    /\ executed \in [Task -> Nat]
    /\ done \subseteq Task
    /\ stray \in [Task -> Nat]
    /\ trouble \in 0..MaxTrouble

Init ==
    /\ stream = {}
    /\ pending = {}
    /\ cursor = 0
    /\ hash = [t \in Task |-> NoHash]
    /\ owner = None
    /\ grace = [p \in Process |-> 0]
    /\ business = None
    /\ pc = [p \in Process |-> "idle"]
    /\ task = [p \in Process |-> 0]
    /\ attempt = [p \in Process |-> 0]
    /\ verdict = [p \in Process |-> "none"]
    /\ enqueued = 0
    /\ executed = [t \in Task |-> 0]
    /\ done = {}
    /\ stray = [t \in Task |-> 0]
    /\ trouble = 0

-----------------------------------------------------------------------------
(* How a step begins and ends. *)

Oldest(t, S) == t \in S /\ \A u \in S : t <= u

\* What the group has not delivered yet.
New == {t \in stream : t > cursor}

\* assert_run_lock lets a request of p through, in time or too late.
Pass(p) ==
    \/ /\ owner = p
       /\ UNCHANGED <<grace, stray>>
    \/ /\ owner # p
       /\ grace[p] > 0
       /\ grace' = [grace EXCEPT ![p] = @ - 1]
       /\ stray' = [t \in Task |-> IF t = task[p] THEN stray[t] + 1
                                               ELSE stray[t]]

\* begin and defer: HINCRBY and HSET on a result hash, there or not.
Store(t, status, change) ==
    hash' = [hash EXCEPT ![t] = [status |-> status,
                                 attempts |-> @.attempts + change,
                                 expires |-> @.expires]]

Goto(p, next) == pc' = [pc EXCEPT ![p] = next]

Upset == trouble < MaxTrouble /\ trouble' = trouble + 1

\* The request took effect: its reply is read, or lost.
Answer(p, next) ==
    \/ Goto(p, next) /\ UNCHANGED trouble
    \/ Goto(p, "closing") /\ Upset

-----------------------------------------------------------------------------
(* The webhook. *)

\* enqueue: one script adds the message and its status.  A caller that does
\* not get the reply answers 503, and may be called again for a second task.
Enqueue ==
    /\ enqueued < MaxTasks
    /\ enqueued' = enqueued + 1
    /\ stream' = stream \cup {enqueued'}
    /\ hash' = [hash EXCEPT ![enqueued'] = [status |-> "queued", attempts |-> 0,
                                            expires |-> FALSE]]
    /\ UNCHANGED <<pending, cursor, locks, pc, local, executed, done, stray,
                   trouble>>

-----------------------------------------------------------------------------
(* A session: consume_session and process_one. *)

\* acquire_run_lock of the worker lock.  When the reply is lost, consume tries
\* again with another token, and the key stays until it expires.
Acquire(p) ==
    /\ pc[p] = "idle"
    /\ owner = None
    /\ owner' = p
    /\ \/ Goto(p, "take") /\ UNCHANGED trouble
       \/ Upset /\ UNCHANGED pc
    /\ UNCHANGED <<redis, grace, business, local, history>>

\* take: what was delivered and never acknowledged comes first ...
TakePending(p) ==
    /\ pc[p] = "take"
    /\ Pass(p)
    /\ \/ \E t \in pending :
             /\ Oldest(t, pending)
             /\ task' = [task EXCEPT ![p] = t]
             /\ Goto(p, "status")
       \/ /\ pending = {}
          /\ Goto(p, "takenew")
          /\ UNCHANGED task
    /\ UNCHANGED <<redis, owner, business, attempt, verdict, results, trouble>>

\* Mutant: the group's read position moves, and the entry is not kept pending.
MutantTakeNew(p) ==
    /\ pc[p] = "takenew"
    /\ \E t \in New :
          /\ Oldest(t, New)
          /\ cursor' = t
          /\ task' = [task EXCEPT ![p] = t]
    /\ Answer(p, "status")
    /\ UNCHANGED <<stream, pending, hash, locks, attempt, verdict, history>>

\* ... then a new message, by a read that may block and that no guard
\* precedes.
TakeNew(p) ==
    /\ pc[p] = "takenew"
    /\ \E t \in New :
          /\ Oldest(t, New)
          /\ cursor' = t
          /\ pending' = pending \cup {t}
          /\ task' = [task EXCEPT ![p] = t]
    /\ Answer(p, "status")
    /\ UNCHANGED <<stream, hash, locks, attempt, verdict, history>>

\* The read timed out: process_one returns, the loop goes round.
TakeNothing(p) ==
    /\ pc[p] = "takenew"
    /\ New = {}
    /\ Goto(p, "take")
    /\ UNCHANGED <<redis, locks, local, history, trouble>>

\* Mutant: the limit is checked one attempt too late.
MutantStatus(p) ==
    /\ pc[p] = "status"
    /\ Goto(p, IF hash[task[p]].attempts > MaxAttempts THEN "giveup"
                                                       ELSE "begin")
    /\ UNCHANGED <<redis, locks, local, history, trouble>>

\* status: read without a guard; a missing hash counts as no attempt.
ReadStatus(p) ==
    /\ pc[p] = "status"
    /\ Goto(p, IF hash[task[p]].attempts >= MaxAttempts THEN "giveup"
                                                        ELSE "begin")
    /\ UNCHANGED <<redis, locks, local, history, trouble>>

\* Mutant: the lock is not looked at.
MutantBegin(p) ==
    /\ pc[p] = "begin"
    /\ Store(task[p], "running", 1)
    /\ attempt' = [attempt EXCEPT ![p] = hash[task[p]].attempts + 1]
    /\ Answer(p, "run")
    /\ UNCHANGED <<stream, pending, cursor, locks, task, verdict, history>>

\* begin: the attempt is charged before the work.
Begin(p) ==
    /\ pc[p] = "begin"
    /\ Pass(p)
    /\ Store(task[p], "running", 1)
    /\ attempt' = [attempt EXCEPT ![p] = hash[task[p]].attempts + 1]
    /\ Answer(p, "run")
    /\ UNCHANGED <<stream, pending, cursor, owner, business, task, verdict,
                   results>>

\* run_record takes the business lock, or raises SyncBusyError.
RunStart(p) ==
    /\ pc[p] = "run"
    /\ \/ /\ business = None
          /\ business' = p
          /\ executed' = [executed EXCEPT ![task[p]] = @ + 1]
          /\ Goto(p, "running")
       \/ /\ business # None
          /\ Goto(p, "busy")
          /\ UNCHANGED <<business, executed>>
    /\ UNCHANGED <<redis, owner, grace, local, enqueued, done, stray, trouble>>

\* The request for the business lock fails, or its reply is lost and the key
\* stays until it expires: worker.py counts it as an execution that failed.
RunUnlocked(p) ==
    /\ pc[p] = "run"
    /\ Upset
    /\ business' \in {business, IF business = None THEN p ELSE business}
    /\ executed' = [executed EXCEPT ![task[p]] = @ + 1]
    /\ verdict' = [verdict EXCEPT ![p] = "failed"]
    /\ Goto(p, "settle")
    /\ UNCHANGED <<redis, owner, grace, task, attempt, enqueued, done, stray>>

\* run_record returns its summary; the lock it took is released, unless the
\* release itself fails.
RunEnd(p) ==
    /\ pc[p] = "running"
    /\ \/ /\ verdict' = [verdict EXCEPT ![p] = "ok"]
          /\ done' = done \cup {task[p]}
       \/ /\ verdict' = [verdict EXCEPT ![p] = "failed"]
          /\ UNCHANGED done
    /\ \/ /\ business' = IF business = p THEN None ELSE business
          /\ UNCHANGED trouble
       \/ Upset /\ UNCHANGED business
    /\ Goto(p, "settle")
    /\ UNCHANGED <<redis, owner, grace, task, attempt, enqueued, executed,
                   stray>>

\* Mutant: the lock is not looked at.
MutantFinishBlind(p, status) ==
    /\ hash' = [hash EXCEPT ![task[p]] = [status |-> status,
                                          attempts |-> @.attempts,
                                          expires |-> TRUE]]
    /\ pending' = pending \ {task[p]}
    /\ stream' = stream \ {task[p]}
    /\ task' = [task EXCEPT ![p] = 0]
    /\ Answer(p, "take")
    /\ UNCHANGED <<cursor, locks, attempt, verdict, history>>

\* finish: result, expiry, acknowledgement and removal in one transaction.
Finish(p, status) ==
    /\ Pass(p)
    /\ hash' = [hash EXCEPT ![task[p]] = [status |-> status,
                                          attempts |-> @.attempts,
                                          expires |-> TRUE]]
    /\ pending' = pending \ {task[p]}
    /\ stream' = stream \ {task[p]}
    /\ task' = [task EXCEPT ![p] = 0]
    /\ Answer(p, "take")
    /\ UNCHANGED <<cursor, owner, business, attempt, verdict, results>>

\* The limit was reached before this attempt: the last one never settled.
GiveUp(p) ==
    /\ pc[p] = "giveup"
    /\ Finish(p, "failed")

\* Mutant: whatever run_record returned, the task is completed.
MutantComplete(p) ==
    /\ pc[p] = "settle"
    /\ Finish(p, "completed")

\* run_record copied, skipped, or found everything done.
Complete(p) ==
    /\ pc[p] = "settle"
    /\ verdict[p] = "ok"
    /\ Finish(p, "completed")

\* run_record failed, and this attempt was the last.
Exhaust(p) ==
    /\ pc[p] = "settle"
    /\ verdict[p] = "failed"
    /\ attempt[p] >= MaxAttempts
    /\ Finish(p, "failed")

\* defer: the message stays pending and is taken again.
Retry(p) ==
    /\ pc[p] = "settle"
    /\ verdict[p] = "failed"
    /\ attempt[p] < MaxAttempts
    /\ Pass(p)
    /\ Store(task[p], "retrying", 0)
    /\ task' = [task EXCEPT ![p] = 0]
    /\ Answer(p, "take")
    /\ UNCHANGED <<stream, pending, cursor, owner, business, attempt, verdict,
                   results>>

\* Mutant: waiting for the lock consumes the attempt.
MutantDeferBusy(p) ==
    /\ pc[p] = "busy"
    /\ Pass(p)
    /\ Store(task[p], "retrying", 0)
    /\ task' = [task EXCEPT ![p] = 0]
    /\ Answer(p, "take")
    /\ UNCHANGED <<stream, pending, cursor, owner, business, attempt, verdict,
                   results>>

\* defer(busy=True) gives the attempt back.
DeferBusy(p) ==
    /\ pc[p] = "busy"
    /\ Pass(p)
    /\ Store(task[p], "retrying", -1)
    /\ task' = [task EXCEPT ![p] = 0]
    /\ Answer(p, "take")
    /\ UNCHANGED <<stream, pending, cursor, owner, business, attempt, verdict,
                   results>>

-----------------------------------------------------------------------------
(* How a session and a process end. *)

\* Places where the worker thread has a session.
InSession(p) == pc[p] \notin {"idle", "down"}

\* Places where the next request is preceded by assert_run_lock.
Guarded == {"take", "begin", "giveup", "settle", "busy"}

\* The guard raises and consume leaves the session; the message, if any,
\* stays pending.
Refused(p) ==
    /\ pc[p] \in Guarded
    /\ owner # p
    /\ Goto(p, "closing")
    /\ UNCHANGED <<redis, locks, local, history, trouble>>

\* A request fails unsent, or the lease gives up for fear of its deadline.
Fault(p) ==
    /\ pc[p] \in Guarded \cup {"takenew", "status"}
    /\ Upset
    /\ Goto(p, "closing")
    /\ UNCHANGED <<redis, locks, local, history>>

\* The stop event is seen between tasks.
Leave(p) ==
    /\ pc[p] \in {"idle", "take"}
    /\ Upset
    /\ Goto(p, IF pc[p] = "idle" THEN "down" ELSE "leaving")
    /\ UNCHANGED <<redis, locks, local, history>>

Forgotten(p) ==
    /\ task' = [task EXCEPT ![p] = 0]
    /\ attempt' = [attempt EXCEPT ![p] = 0]
    /\ verdict' = [verdict EXCEPT ![p] = "none"]
    /\ grace' = [grace EXCEPT ![p] = 0]

\* The ExitStack unwinds: lease.close, release_run_lock, which may fail.
Close(p) ==
    /\ pc[p] \in {"closing", "leaving"}
    /\ \/ /\ owner' = IF owner = p THEN None ELSE owner
          /\ UNCHANGED trouble
       \/ Upset /\ UNCHANGED owner
    /\ Forgotten(p)
    /\ Goto(p, IF pc[p] = "closing" THEN "idle" ELSE "down")
    /\ UNCHANGED <<redis, business, history>>

\* The process dies, or exits when thread.join(300) has waited long enough.
Crash(p) ==
    /\ pc[p] # "down"
    /\ Upset
    /\ Forgotten(p)
    /\ Goto(p, "down")
    /\ UNCHANGED <<redis, owner, business, history>>

\* The service manager starts the process again.
Restart(p) ==
    /\ pc[p] = "down"
    /\ Goto(p, "idle")
    /\ UNCHANGED <<redis, locks, local, history, trouble>>

-----------------------------------------------------------------------------
(* Redis, and the manual commands. *)

\* The worker lock of a live session goes away: its renewal came too late.
LoseLock ==
    /\ owner # None
    /\ InSession(owner)
    /\ Upset
    /\ owner' = None
    /\ \E g \in 0..Grace : grace' = [grace EXCEPT ![owner] = g]
    /\ UNCHANGED <<redis, business, pc, local, history>>

\* Nobody renews the worker lock of a session that is over.
Forget ==
    /\ owner # None
    /\ ~InSession(owner)
    /\ owner' = None
    /\ UNCHANGED <<redis, grace, business, pc, local, history, trouble>>

\* The business lock of a live run goes away.
LoseBusiness ==
    /\ business \in Process \cup {Manual}
    /\ business \in Process => pc[business] = "running"
    /\ Upset
    /\ business' = None
    /\ UNCHANGED <<redis, owner, grace, pc, local, history>>

\* Nobody renews the business lock of a run that is over.
ForgetBusiness ==
    /\ business \in Process
    /\ pc[business] # "running"
    /\ business' = None
    /\ UNCHANGED <<redis, owner, grace, pc, local, history, trouble>>

\* rerun and fill take the business lock and give it back, or crash and let
\* it expire.
ManualStart ==
    /\ business = None
    /\ Upset
    /\ business' = Manual
    /\ UNCHANGED <<redis, owner, grace, pc, local, history>>

ManualEnd ==
    /\ business = Manual
    /\ business' = None
    /\ UNCHANGED <<redis, owner, grace, pc, local, history, trouble>>

\* The time a result is kept is over, whatever has been written since.
Expire ==
    /\ \E t \in Task :
          /\ hash[t].expires
          /\ hash' = [hash EXCEPT ![t] = NoHash]
    /\ UNCHANGED <<stream, pending, cursor, locks, pc, local, history, trouble>>

-----------------------------------------------------------------------------
Serve(p) ==
    \/ TakePending(p) \/ TakeNew(p) \/ TakeNothing(p) \/ ReadStatus(p)
    \/ Begin(p) \/ RunStart(p) \/ RunEnd(p)
    \/ GiveUp(p) \/ Complete(p) \/ Exhaust(p) \/ Retry(p) \/ DeferBusy(p)

Proceed(p) == Acquire(p) \/ Serve(p) \/ Refused(p) \/ Close(p) \/ Restart(p)

Disturb(p) == RunUnlocked(p) \/ Fault(p) \/ Leave(p) \/ Crash(p)

Elsewhere == LoseLock \/ Forget \/ LoseBusiness \/ ForgetBusiness
             \/ ManualStart \/ ManualEnd \/ Expire

Next == \/ Enqueue
        \/ \E p \in Process : Proceed(p) \/ Disturb(p)
        \/ Elsewhere

Spec == Init /\ [][Next]_vars

\* Time-outs end every request, the service manager restarts the process,
\* Redis drops keys that nobody renews, and a manual run ends.
FairSpec == /\ Spec
            /\ \A p \in Process : WF_vars(Proceed(p))
            /\ WF_vars(Forget)
            /\ WF_vars(ForgetBusiness)
            /\ WF_vars(ManualEnd)

-----------------------------------------------------------------------------
(* Properties *)

\* What a caller reads under a task id agrees with what the stream still
\* holds: a message is there only under a status that is not final, and what
\* the group has delivered of it is pending (queue.py: "only deletes messages
\* that are finished and acknowledged").  A task whose message is gone shows
\* such a status again only if a request landed after its session's lock.
StatusMatchesStream ==
    /\ pending = {t \in stream : t <= cursor}
    /\ \A t \in 1..enqueued :
          /\ t \in stream => hash[t].status \in Live
          /\ t \notin stream /\ stray[t] = 0 => hash[t].status \notin Live

\* Through crashes, lost locks and second sessions, a task is executed at
\* most queue_max_attempts times, and once more for each request on it that
\* landed after its session had lost the lock (worker.py, process_one).
ExecutionsBounded ==
    \A t \in Task : executed[t] <= MaxAttempts + stray[t]

\* Attempts are charged for executions and for sessions that broke, never
\* for waiting on the business lock, whoever waits and however often
\* (docs/architecture.md: "a busy lock consumes no attempt").
ChargedForRuns ==
    \A t \in Task :
        LET Unsettled == {p \in Process : task[p] = t
                                          /\ pc[p] \in {"run", "busy"}}
        IN  hash[t].attempts <= executed[t] + trouble + Cardinality(Unsettled)

\* A session that still holds the worker lock works on a task that nobody has
\* settled, unless a request on it landed after the lock of its session: one
\* that lost the lock can go on executing a task that the next session has
\* given up, but not settle it under the next one's hands (process_one).
HolderServesLiveTask ==
    \A p \in Process :
        (/\ owner = p
         /\ pc[p] \in {"status", "giveup", "begin", "run", "running", "busy",
                       "settle"}
         /\ stray[task[p]] = 0) =>
            /\ task[p] \in pending
            /\ hash[task[p]].status \in Live

\* A task is reported completed only if some execution of it succeeded,
\* whatever lands late, and given up only when its attempts are used up, or
\* were changed by a late request (worker.py, process_one).
VerdictIsEarned ==
    \A t \in Task :
        /\ hash[t].status = "completed" => t \in done
        /\ hash[t].status = "failed" =>
              hash[t].attempts >= MaxAttempts \/ stray[t] > 0

\* A final status stays what it is until it expires, and does not come back,
\* unless a request landed after the lock of its session: no session that
\* held the lock when it wrote revives or overrules what is settled.
FinalStatusIsFinal ==
    [][\A t \in 1..enqueued :
          hash[t].status \notin Live /\ stray'[t] = 0 =>
              hash'[t].status \in {hash[t].status, "absent"}]_vars

\* The worker is not stuck behind a task: when troubles end, every message is
\* settled and the ones behind it get their turn.
EveryTaskSettles == \A t \in Task : t \in stream ~> t \notin stream
=============================================================================
