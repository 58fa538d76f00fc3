---------------------------- MODULE QueueProofs ----------------------------
(***************************************************************************)
(* Proofs about module Queue, for any number of processes, tasks and       *)
(* attempts, however much goes wrong, and however many requests of a       *)
(* session land after its lock is gone.                                    *)
(*                                                                         *)
(* The argument: a session learns what it believes about its task from     *)
(* requests made under the lock, so it is wrong only if someone else has   *)
(* written about that task since, and that can only be a request that      *)
(* landed late and that stray counts.                                      *)
(***************************************************************************)
EXTENDS Queue, TLAPS, FiniteSetTheorems

\* Places where a session has a task, and those where it has charged it.
Working == {"status", "giveup", "begin", "run", "running", "busy", "settle"}
Charging == {"run", "running", "busy", "settle"}

\* What has not been enqueued has left no trace, and what is still in the
\* stream does not expire.
Counted ==
    /\ stream \subseteq 1..enqueued
    /\ cursor <= enqueued
    /\ \A t \in Task : t > enqueued => hash[t] = NoHash
    /\ \A t \in stream : ~hash[t].expires

\* A session works on a task that exists, and its good news is true.
Informed(p) ==
    /\ pc[p] \in Working => task[p] \in 1..enqueued
    /\ pc[p] = "settle" /\ verdict[p] = "ok" => task[p] \in done

\* What the session that holds the worker lock knows about its task, as long
\* as no late request was about it.
Serving(p) ==
    (owner = p /\ pc[p] \in Working /\ stray[task[p]] = 0) =>
        /\ task[p] \in pending
        /\ pc[p] = "giveup" => hash[task[p]].attempts >= MaxAttempts
        /\ pc[p] \in Charging => attempt[p] = hash[task[p]].attempts

Inv == /\ TypeOK
       /\ Counted
       /\ StatusMatchesStream
       /\ VerdictIsEarned
       /\ \A p \in Process : Informed(p) /\ Serving(p)

Works == \A p \in Process : Informed(p) /\ Serving(p)

\* A step that forgets no late request.
Grown == \A t \in Task : stray'[t] = 0 => stray[t] = 0

-----------------------------------------------------------------------------
(* Helpers. *)

\* A request that passes the guard is the owner's, or it is counted.
LEMMA LateIsCounted ==
    ASSUME TypeOK, NEW p \in Process, Pass(p)
    PROVE  /\ grace' \in [Process -> 0..Grace]
           /\ stray' \in [Task -> Nat]
           /\ Grown
           /\ owner = p => stray' = stray
           /\ \A t \in Task : t # task[p] => stray'[t] = stray[t]
           /\ owner # p => \A t \in Task : t = task[p] =>
                              stray'[t] = stray[t] + 1 /\ stray'[t] > 0
<1> USE QueueAssumption DEF TypeOK
<1>1. CASE owner = p /\ UNCHANGED <<grace, stray>>
  BY <1>1 DEF Grown
<1>2. CASE /\ owner # p /\ grace[p] > 0
           /\ grace' = [grace EXCEPT ![p] = @ - 1]
           /\ stray' = [t \in Task |-> IF t = task[p] THEN stray[t] + 1
                                                      ELSE stray[t]]
  <2>1. grace' \in [Process -> 0..Grace]
    BY <1>2
  <2>2. \A t \in Task : stray[t] \in Nat
    OBVIOUS
  <2>3. \A t \in Task : stray'[t] = IF t = task[p] THEN stray[t] + 1
                                                   ELSE stray[t]
    BY <1>2
  <2>4. stray' \in [Task -> Nat]
    BY <1>2, <2>2
  <2> QED
    BY <1>2, <2>1, <2>2, <2>3, <2>4 DEF Grown
<1> QED
  BY <1>1, <1>2 DEF Pass

\* A task someone works on has records of its own.
LEMMA TaskExists ==
    ASSUME TypeOK, NEW p \in Process, Informed(p), pc[p] \in Working
    PROVE  /\ task[p] \in Task
           /\ hash[task[p]] \in Hash
           /\ hash[task[p]].attempts \in Int
           /\ hash[task[p]].expires \in BOOLEAN
           /\ executed[task[p]] \in Nat
           /\ stray[task[p]] \in Nat
<1>1. task[p] \in 1..enqueued /\ enqueued \in 0..MaxTasks
  BY DEF Informed, TypeOK
<1>2. task[p] \in Task
  BY <1>1, QueueAssumption DEF Task
<1>3. hash[task[p]] \in Hash
  BY <1>2 DEF TypeOK
<1> QED
  BY <1>2, <1>3 DEF TypeOK, Hash

\* The invariant holds initially.
LEMMA InitInv == Init => Inv
<1> SUFFICES ASSUME Init PROVE Inv
  OBVIOUS
<1>1. TypeOK
  BY QueueAssumption DEF Init, TypeOK, Status, Terminal, Live, Hash, NoHash,
                         Task
<1>2. Counted /\ StatusMatchesStream
  BY QueueAssumption
  DEF Init, Counted, StatusMatchesStream, NoHash, Task
<1>3. VerdictIsEarned
  BY DEF Init, VerdictIsEarned, NoHash
<1>4. Works
  BY DEF Init, Works, Informed, Serving, Working
<1> QED
  BY <1>1, <1>2, <1>3, <1>4 DEF Inv, Works

\* While Redis keeps its records, so does what the invariant says of them.
LEMMA RecordsStay ==
    ASSUME Inv, UNCHANGED redis, enqueued' = enqueued,
           done \subseteq done', Grown, stray' \in [Task -> Nat]
    PROVE  Counted' /\ StatusMatchesStream' /\ VerdictIsEarned'
<1>1. Counted'
  BY DEF Inv, redis, Counted
<1>2. StatusMatchesStream'
  <2>1. \A t \in 1..enqueued : t \in Task
    BY QueueAssumption DEF Inv, TypeOK, Task
  <2> QED
    BY <2>1 DEF Inv, redis, StatusMatchesStream, Grown
<1>3. VerdictIsEarned'
  BY DEF Inv, TypeOK, redis, VerdictIsEarned, Grown
<1> QED
  BY <1>1, <1>2, <1>3

\* A process at rest knows nothing that could be wrong.
LEMMA OthersWork ==
    ASSUME Inv, UNCHANGED redis, enqueued' = enqueued,
           done \subseteq done', Grown,
           NEW p \in Process, owner' \in {owner, p, None},
           NEW q \in Process \ {p},
           pc'[q] = pc[q], task'[q] = task[q], attempt'[q] = attempt[q],
           verdict'[q] = verdict[q]
    PROVE  Informed(q)' /\ Serving(q)'
<1>1. Informed(q) /\ Serving(q) /\ None \notin Process
  BY QueueAssumption DEF Inv
<1>2. Informed(q)'
  BY <1>1 DEF Informed, Working
<1>3. owner' = q => owner = q
  BY <1>1
<1>4. pc[q] \in Working => task[q] \in Task
  BY <1>1, TaskExists DEF Inv
<1>5. Serving(q)'
  BY <1>1, <1>3, <1>4 DEF Serving, Working, Charging, redis, Grown
<1> QED
  BY <1>2, <1>5

-----------------------------------------------------------------------------
(* Steps that leave the queue's records alone. *)

\* Such steps preserve the types.
LEMMA QuietTypes ==
    ASSUME Inv, NEW p \in Process,
           \/ Acquire(p) \/ TakePending(p) \/ TakeNothing(p) \/ ReadStatus(p)
           \/ RunStart(p) \/ RunEnd(p) \/ Refused(p) \/ Close(p)
           \/ Restart(p) \/ RunUnlocked(p) \/ Fault(p) \/ Leave(p)
           \/ Crash(p)
    PROVE  TypeOK' /\ UNCHANGED redis /\ enqueued' = enqueued
                   /\ done \subseteq done' /\ owner' \in {owner, p, None}
                   /\ Grown
<1> USE QueueAssumption
<1>1. TypeOK /\ Informed(p)
  BY DEF Inv
<1>2. CASE \/ Acquire(p) \/ TakeNothing(p) \/ ReadStatus(p) \/ Refused(p)
           \/ Restart(p) \/ Fault(p) \/ Leave(p)
  BY <1>1, <1>2
  DEF TypeOK, redis, locks, local, history, results, Grown, Goto, Upset,
      Acquire, TakeNothing, ReadStatus, Refused, Restart, Fault, Leave
<1>3. CASE TakePending(p)
  <2>1. PICK t : \/ t \in pending /\ task' = [task EXCEPT ![p] = t]
                 \/ t = 0 /\ UNCHANGED task
    BY <1>3 DEF TakePending
  <2>2. t \in 0..MaxTasks
    <3>1. CASE t \in pending
      BY <1>1, <3>1 DEF TypeOK, Task
    <3>2. CASE t = 0
      BY <3>2
    <3> QED
      BY <2>1, <3>1, <3>2
  <2>3. /\ grace' \in [Process -> 0..Grace]
        /\ stray' \in [Task -> Nat]
        /\ Grown
    BY <1>1, <1>3, LateIsCounted DEF TakePending
  <2> QED
    BY <1>1, <1>3, <2>1, <2>2, <2>3
    DEF TakePending, TypeOK, redis, results, Goto
<1>4. CASE RunStart(p)
  <2>1. task[p] \in Task /\ executed[task[p]] \in Nat
    BY <1>1, <1>4, TaskExists DEF RunStart, Working
  <2>2. executed' \in [Task -> Nat] /\ business' \in Process \cup {None, Manual}
    BY <1>1, <1>4, <2>1 DEF RunStart, TypeOK
  <2> QED
    BY <1>1, <1>4, <2>2 DEF RunStart, TypeOK, redis, local, Goto, Grown
<1>5. CASE RunEnd(p)
  <2>1. task[p] \in Task
    BY <1>1, <1>5, TaskExists DEF RunEnd, Working
  <2>2. /\ verdict' \in [Process -> {"none", "ok", "failed"}]
        /\ done' \subseteq Task /\ done \subseteq done'
    BY <1>1, <1>5, <2>1 DEF RunEnd, TypeOK
  <2>3. /\ business' \in Process \cup {None, Manual}
        /\ trouble' \in 0..MaxTrouble
    BY <1>1, <1>5 DEF RunEnd, TypeOK, Upset
  <2> QED
    BY <1>1, <1>5, <2>2, <2>3 DEF RunEnd, TypeOK, redis, Goto, Grown
<1>6. CASE RunUnlocked(p)
  <2>1. task[p] \in Task /\ executed[task[p]] \in Nat
    BY <1>1, <1>6, TaskExists DEF RunUnlocked, Working
  <2>2. /\ executed' \in [Task -> Nat]
        /\ business' \in Process \cup {None, Manual}
        /\ verdict' \in [Process -> {"none", "ok", "failed"}]
    BY <1>1, <1>6, <2>1 DEF RunUnlocked, TypeOK
  <2> QED
    BY <1>1, <1>6, <2>2 DEF RunUnlocked, TypeOK, redis, Goto, Upset, Grown
<1>7. CASE Close(p)
  BY <1>1, <1>7 DEF Close, Forgotten, TypeOK, redis, history, results, Goto,
                    Upset, Grown
<1>8. CASE Crash(p)
  BY <1>1, <1>8 DEF Crash, Forgotten, TypeOK, redis, history, results, Goto,
                    Upset, Grown
<1> QED
  BY <1>2, <1>3, <1>4, <1>5, <1>6, <1>7, <1>8

\* Such steps keep what every session knows.
LEMMA QuietWorks ==
    ASSUME Inv, NEW p \in Process,
           \/ Acquire(p) \/ TakePending(p) \/ TakeNothing(p) \/ ReadStatus(p)
           \/ RunStart(p) \/ RunEnd(p) \/ Refused(p) \/ Close(p)
           \/ Restart(p) \/ RunUnlocked(p) \/ Fault(p) \/ Leave(p)
           \/ Crash(p)
    PROVE  Works'
<1> USE QueueAssumption
<1>1. TypeOK /\ Informed(p) /\ Serving(p) /\ TypeOK'
      /\ UNCHANGED redis /\ enqueued' = enqueued /\ done \subseteq done'
      /\ owner' \in {owner, p, None} /\ Grown
  BY QuietTypes DEF Inv
<1>2. ASSUME NEW q \in Process \ {p} PROVE Informed(q)' /\ Serving(q)'
  <2>1. /\ pc'[q] = pc[q] /\ task'[q] = task[q]
        /\ attempt'[q] = attempt[q] /\ verdict'[q] = verdict[q]
    BY <1>1 DEF TypeOK, local, Goto, Upset, Forgotten, Acquire, TakePending,
           TakeNothing, ReadStatus, RunStart, RunEnd, Refused, Close, Restart,
           RunUnlocked, Fault, Leave, Crash
  <2> QED
    BY <1>1, <2>1, OthersWork
<1>3. Informed(p)' /\ Serving(p)'
  <2>1. CASE pc'[p] \notin Working
    BY <2>1 DEF Informed, Serving, Working
  <2>2. CASE TakePending(p) /\ pending # {}
    <3>1. PICK t \in pending : task' = [task EXCEPT ![p] = t]
                               /\ Goto(p, "status")
      BY <2>2 DEF TakePending
    <3>2. t \in 1..enqueued
      BY DEF Inv, StatusMatchesStream, Counted
    <3> QED
      BY <1>1, <3>1, <3>2 DEF TypeOK, Informed, Serving, Working, Charging,
                              Goto, redis
  <2>3. CASE ReadStatus(p)
    <3>1. task[p] \in Task /\ hash[task[p]].attempts \in Int
      BY <1>1, <2>3, TaskExists DEF ReadStatus, Working
    <3> QED
      BY <1>1, <2>3, <3>1
      DEF ReadStatus, TypeOK, Informed, Serving, Working, Charging, Goto,
          redis, local, history, results, locks
  <2>4. CASE RunStart(p)
    BY <1>1, <2>4 DEF RunStart, TypeOK, Informed, Serving, Working,
                      Charging, Goto, redis, local
  <2>5. CASE RunEnd(p)
    BY <1>1, <2>5 DEF RunEnd, TypeOK, Informed, Serving, Working,
                      Charging, Goto, redis
  <2>6. CASE RunUnlocked(p)
    BY <1>1, <2>6 DEF RunUnlocked, TypeOK, Informed, Serving, Working,
                      Charging, Goto, redis
  <2>7. CASE \/ Acquire(p) \/ (TakePending(p) /\ pending = {})
             \/ TakeNothing(p) \/ Refused(p) \/ Close(p) \/ Restart(p)
             \/ Fault(p) \/ Leave(p) \/ Crash(p)
    <3>1. pc'[p] \notin Working
      BY <1>1, <2>7 DEF TypeOK, Working, Goto, Acquire, TakePending,
                        TakeNothing, Refused, Close, Restart, Fault, Leave,
                        Crash
    <3> QED
      BY <2>1, <3>1
  <2> QED
    BY <2>2, <2>3, <2>4, <2>5, <2>6, <2>7
<1> QED
  BY <1>2, <1>3 DEF Works

\* Such steps preserve the invariant.
LEMMA QuietInv ==
    ASSUME Inv, NEW p \in Process,
           \/ Acquire(p) \/ TakePending(p) \/ TakeNothing(p) \/ ReadStatus(p)
           \/ RunStart(p) \/ RunEnd(p) \/ Refused(p) \/ Close(p)
           \/ Restart(p) \/ RunUnlocked(p) \/ Fault(p) \/ Leave(p)
           \/ Crash(p)
    PROVE  Inv'
<1>1. /\ TypeOK' /\ UNCHANGED redis /\ enqueued' = enqueued
      /\ done \subseteq done' /\ Grown
  BY QuietTypes
<1>2. stray' \in [Task -> Nat]
  BY <1>1 DEF TypeOK
<1>3. Counted' /\ StatusMatchesStream' /\ VerdictIsEarned'
  BY <1>1, <1>2, RecordsStay
<1> QED
  BY <1>1, <1>3, QuietWorks DEF Inv, Works

\* The locks come and go.
LEMMA LocksInv ==
    ASSUME Inv,
           \/ LoseLock \/ Forget \/ LoseBusiness \/ ForgetBusiness
           \/ ManualStart \/ ManualEnd
    PROVE  Inv'
<1> USE QueueAssumption
<1>1. TypeOK'
  BY DEF Inv, TypeOK, LoseLock, Forget, LoseBusiness, ForgetBusiness,
         ManualStart, ManualEnd, redis, local, history, results, Upset
<1>2. /\ UNCHANGED <<redis, local, history, pc>>
      /\ owner' \in {owner, None}
  BY DEF LoseLock, Forget, LoseBusiness, ForgetBusiness, ManualStart,
         ManualEnd
<1>3. Works'
  BY <1>2 DEF Inv, Works, Informed, Serving, Working, Charging, redis, local,
              history, results
<1>4. Counted' /\ StatusMatchesStream' /\ VerdictIsEarned'
  BY <1>2 DEF Inv, redis, history, results, Counted, StatusMatchesStream,
              VerdictIsEarned
<1> QED
  BY <1>1, <1>3, <1>4 DEF Inv, Works

-----------------------------------------------------------------------------
(* Steps that change the queue's records. *)

\* The task of a session that holds the lock is in the stream, or a late
\* request was about it.
LEMMA TaskInStream ==
    ASSUME Inv, NEW p \in Process, owner = p, pc[p] \in Working,
           stray[task[p]] = 0
    PROVE  task[p] \in stream /\ task[p] \in pending
BY DEF Inv, Serving, StatusMatchesStream

\* What a session writes about its own task takes no other session by
\* surprise: either it holds the lock, and nobody else counts on anything, or
\* its request is late and counted.
LEMMA OthersUnhurt ==
    ASSUME Inv, NEW p \in Process, Pass(p), owner' = owner,
           enqueued' = enqueued, done' = done,
           \A u \in Task : u # task[p] =>
               hash'[u] = hash[u] /\ (u \in pending => u \in pending'),
           NEW q \in Process \ {p}, pc'[q] = pc[q], task'[q] = task[q],
           attempt'[q] = attempt[q], verdict'[q] = verdict[q]
    PROVE  Informed(q)' /\ Serving(q)'
<1>1. Informed(q) /\ Serving(q) /\ TypeOK
  BY DEF Inv
<1>2. Informed(q)'
  BY <1>1 DEF Informed, Working
<1>3. CASE owner = q /\ pc[q] \in Working
  <2>1. task[q] \in Task /\ owner # p
    BY <1>1, <1>3, TaskExists
  <2>2. CASE task[q] = task[p]
    <3>1. stray'[task[q]] > 0
      BY <1>1, <2>1, <2>2, LateIsCounted
    <3> QED
      BY <1>2, <3>1 DEF Serving, Working
  <2>3. CASE task[q] # task[p]
    <3>1. /\ stray'[task[q]] = stray[task[q]]
          /\ hash'[task[q]] = hash[task[q]]
          /\ task[q] \in pending => task[q] \in pending'
      BY <1>1, <2>1, <2>3, LateIsCounted
    <3> QED
      BY <1>1, <1>2, <1>3, <3>1 DEF Serving, Working, Charging
  <2> QED
    BY <2>2, <2>3
<1>4. CASE ~(owner = q /\ pc[q] \in Working)
  BY <1>2, <1>4 DEF Serving, Working
<1> QED
  BY <1>3, <1>4

\* A new task is queued under a number of its own.
LEMMA EnqueueInv ==
    ASSUME Inv, Enqueue
    PROVE  Inv'
<1> USE QueueAssumption
<1> DEFINE n == enqueued + 1
           h == [status |-> "queued", attempts |-> 0, expires |-> FALSE]
<1>1. /\ TypeOK /\ enqueued' = n /\ stream' = stream \cup {n}
      /\ hash' = [hash EXCEPT ![n] = h]
      /\ UNCHANGED <<pending, cursor, locks, pc, local, executed, done, stray,
                     trouble>>
      /\ enqueued < MaxTasks
  BY DEF Inv, Enqueue
<1>2. n \in Task /\ n \notin stream /\ cursor < n
  BY <1>1 DEF Inv, TypeOK, Counted, Task
<1>7. n \in 0..MaxTasks
  BY <1>1 DEF TypeOK
<1>8. hash' \in [Task -> Hash]
  BY <1>1, <1>2 DEF TypeOK, Status, Live, Hash
<1>0. TypeOK'
  BY <1>1, <1>2, <1>7, <1>8 DEF TypeOK, locks, local
<1>9. \A t \in Task : hash'[t] = IF t = n THEN h ELSE hash[t]
  BY <1>1 DEF TypeOK
<1>3. Counted'
  BY <1>1, <1>2, <1>9 DEF Inv, Counted, TypeOK, Task
<1>4. StatusMatchesStream'
  <2>1. pending' = {t \in stream' : t <= cursor'}
    BY <1>1, <1>2 DEF Inv, StatusMatchesStream, TypeOK, Task
  <2>2. ASSUME NEW t \in 1..n
        PROVE  /\ t \in stream' => hash'[t].status \in Live
               /\ t \notin stream' /\ stray'[t] = 0 =>
                      hash'[t].status \notin Live
    <3>1. CASE t = n
      BY <1>1, <1>2, <1>9, <3>1 DEF Live
    <3>2. CASE t # n
      <4>1. t \in 1..enqueued /\ hash'[t] = hash[t]
        BY <1>1, <1>2, <1>9, <3>2 DEF TypeOK, Task
      <4> QED
        BY <1>1, <3>2, <4>1 DEF Inv, StatusMatchesStream
    <3> QED
      BY <3>1, <3>2
  <2> QED
    BY <1>1, <2>1, <2>2 DEF StatusMatchesStream
<1>5. VerdictIsEarned'
  BY <1>1, <1>2, <1>9 DEF Inv, VerdictIsEarned
<1>6. ASSUME NEW p \in Process PROVE Informed(p)' /\ Serving(p)'
  <2>1. Informed(p) /\ Serving(p)
    BY DEF Inv
  <2>2. Informed(p)'
    BY <1>1, <2>1 DEF Informed, Working, local, TypeOK
  <2>3. pc[p] \in Working => task[p] # n /\ task[p] \in Task
    BY <1>1, <2>1, TaskExists DEF Informed, TypeOK
  <2>4. Serving(p)'
    BY <1>1, <1>9, <2>1, <2>3
    DEF Serving, Working, Charging, local, locks
  <2> QED
    BY <2>2, <2>4
<1> QED
  BY <1>0, <1>3, <1>4, <1>5, <1>6 DEF Inv

\* The read position moves over the oldest new message, for whoever reads.
LEMMA TakeNewInv ==
    ASSUME Inv, NEW p \in Process, TakeNew(p)
    PROVE  Inv'
<1> USE QueueAssumption
<1>1. PICK t \in New : /\ Oldest(t, New)
                       /\ cursor' = t
                       /\ pending' = pending \cup {t}
                       /\ task' = [task EXCEPT ![p] = t]
  BY DEF TakeNew
<1>2. TypeOK /\ t \in stream /\ t > cursor /\ t \in Task /\ t \in 1..enqueued
  BY <1>1 DEF Inv, TypeOK, Counted, New
<1>3. /\ UNCHANGED <<stream, hash, locks, attempt, verdict, history>>
      /\ pc' \in {[pc EXCEPT ![p] = "status"], [pc EXCEPT ![p] = "closing"]}
  BY DEF TakeNew, Answer, Goto
<1>4. TypeOK'
  <2>1. t \in 0..MaxTasks
    BY <1>2 DEF Task
  <2>2. trouble' \in 0..MaxTrouble
    BY <1>2 DEF TypeOK, TakeNew, Answer, Upset
  <2>3. task' \in [Process -> 0..MaxTasks] /\ pending' \subseteq Task
    BY <1>1, <1>2, <2>1 DEF TypeOK
  <2> QED
    BY <1>1, <1>2, <1>3, <2>1, <2>2, <2>3 DEF TypeOK, locks, history, results
<1>5. Counted'
  BY <1>1, <1>2, <1>3 DEF Inv, TypeOK, Counted, history, results
<1>6. \A u \in stream : u <= t <=> u \in pending \cup {t}
  <2>1. cursor \in Int /\ t \in Int /\ \A u \in stream : u \in Int
    BY <1>2 DEF TypeOK, Task
  <2>2. pending = {u \in stream : u <= cursor}
    BY DEF Inv, StatusMatchesStream
  <2>3. \A u \in stream : u > cursor => t <= u
    BY <1>1 DEF Oldest, New
  <2> QED
    BY <1>2, <2>1, <2>2, <2>3
<1>7. StatusMatchesStream'
  <2>1. pending' = {u \in stream' : u <= cursor'}
    <3>1. pending \subseteq stream
      BY DEF Inv, StatusMatchesStream
    <3> QED
      BY <1>1, <1>2, <1>3, <1>6, <3>1
  <2> QED
    BY <1>3, <2>1 DEF Inv, StatusMatchesStream, history, results
<1>8. VerdictIsEarned'
  BY <1>3 DEF Inv, VerdictIsEarned, history, results
<1>9. ASSUME NEW q \in Process PROVE Informed(q)' /\ Serving(q)'
  <2>1. Informed(q) /\ Serving(q)
    BY DEF Inv
  <2>2. CASE q = p
    BY <1>1, <1>2, <1>3, <2>2
    DEF Informed, Serving, Working, Charging, TypeOK, history, results
  <2>3. CASE q # p
    BY <1>1, <1>2, <1>3, <2>1, <2>3
    DEF Informed, Serving, Working, Charging, TypeOK, history, results, locks
  <2> QED
    BY <2>2, <2>3
<1> QED
  BY <1>4, <1>5, <1>7, <1>8, <1>9 DEF Inv

\* A final status is written in the step that removes the message.
LEMMA FinishInv ==
    ASSUME Inv, NEW p \in Process, pc[p] \in {"giveup", "settle"},
           NEW status \in Terminal, Finish(p, status),
           status = "completed" => task[p] \in done,
           status = "failed" /\ owner = p /\ stray[task[p]] = 0 =>
               hash[task[p]].attempts >= MaxAttempts
    PROVE  Inv'
<1> USE QueueAssumption
<1> DEFINE t == task[p]
           h == [status |-> status, attempts |-> hash[t].attempts,
                 expires |-> TRUE]
<1>1. /\ TypeOK /\ Pass(p) /\ t \in Task /\ t \in 1..enqueued
      /\ hash[t].attempts \in Int
  BY TaskExists DEF Inv, Finish, Working, Informed
<1>2. /\ grace' \in [Process -> 0..Grace] /\ stray' \in [Task -> Nat]
      /\ Grown
      /\ owner = p => stray' = stray
      /\ owner # p => stray'[t] > 0
  BY <1>1, LateIsCounted
<1>3. /\ hash' = [hash EXCEPT ![t] = h]
      /\ pending' = pending \ {t}
      /\ stream' = stream \ {t}
      /\ UNCHANGED <<cursor, owner, business, attempt, verdict, results>>
      /\ task' = [task EXCEPT ![p] = 0]
      /\ pc' \in {[pc EXCEPT ![p] = "take"], [pc EXCEPT ![p] = "closing"]}
  BY DEF Finish, Answer, Goto
<1>4. TypeOK'
  <2>1. hash' \in [Task -> Hash]
    BY <1>1, <1>3 DEF TypeOK, Status, Hash
  <2>2. task' \in [Process -> 0..MaxTasks]
    BY <1>1, <1>3 DEF TypeOK
  <2>3. trouble' \in 0..MaxTrouble
    BY <1>1 DEF TypeOK, Finish, Answer, Upset
  <2> QED
    BY <1>1, <1>2, <1>3, <2>1, <2>2, <2>3 DEF TypeOK, results
<1>9. \A u \in Task : hash'[u] = IF u = t THEN h ELSE hash[u]
  BY <1>1, <1>3 DEF TypeOK
<1>5. Counted'
  <2>1. enqueued \in Nat /\ stream \subseteq Task
    BY <1>1 DEF TypeOK
  <2>2. \A u \in Task : u > enqueued => hash'[u] = NoHash
    BY <1>1, <1>9, <2>1 DEF Inv, Counted
  <2>3. \A u \in stream' : ~hash'[u].expires
    BY <1>3, <1>9, <2>1 DEF Inv, Counted
  <2> QED
    BY <1>3, <2>2, <2>3 DEF Inv, Counted, results
<1>6. StatusMatchesStream'
  <2>1. \A u \in 1..enqueued : u \in Task
    BY <1>1 DEF TypeOK, Task
  <2>2. pending' = {u \in stream' : u <= cursor'}
    BY <1>3 DEF Inv, StatusMatchesStream
  <2>3. status \notin Live
    BY DEF Terminal, Live
  <2> QED
    BY <1>2, <1>3, <1>9, <2>1, <2>2, <2>3
    DEF Inv, StatusMatchesStream, results, Grown
<1>7. VerdictIsEarned'
  <2>1. ASSUME NEW u \in Task
        PROVE  /\ hash'[u].status = "completed" => u \in done'
               /\ hash'[u].status = "failed" =>
                     hash'[u].attempts >= MaxAttempts \/ stray'[u] > 0
    <3>1. stray[u] \in Nat /\ stray'[u] \in Nat
      BY <1>1, <1>2 DEF TypeOK
    <3>2. CASE u = t
      BY <1>1, <1>2, <1>3, <1>9, <3>1, <3>2 DEF results
    <3>3. CASE u # t
      BY <1>2, <1>3, <1>9, <3>1, <3>3
      DEF Inv, VerdictIsEarned, results, Grown
    <3> QED
      BY <3>2, <3>3
  <2> QED
    BY <2>1 DEF VerdictIsEarned
<1>8. ASSUME NEW q \in Process PROVE Informed(q)' /\ Serving(q)'
  <2>1. CASE q = p
    BY <1>1, <1>3, <2>1 DEF Informed, Serving, Working, TypeOK
  <2>2. CASE q # p
    <3>1. \A u \in Task : u # task[p] =>
              hash'[u] = hash[u] /\ (u \in pending => u \in pending')
      BY <1>3, <1>9
    <3>2. /\ owner' = owner /\ enqueued' = enqueued /\ done' = done
          /\ pc'[q] = pc[q] /\ task'[q] = task[q]
          /\ attempt'[q] = attempt[q] /\ verdict'[q] = verdict[q]
      BY <1>1, <1>3, <2>2 DEF TypeOK, results
    <3> QED
      BY <1>1, <2>2, <3>1, <3>2, OthersUnhurt
  <2> QED
    BY <2>1, <2>2
<1> QED
  BY <1>4, <1>5, <1>6, <1>7, <1>8 DEF Inv

\* Begin, retry and defer write a status that is not final; if the message is
\* gone, a late request was about its task.
LEMMA WriteInv ==
    ASSUME Inv, NEW p \in Process, Pass(p), owner' = owner,
           UNCHANGED <<stream, pending, cursor, results>>,
           pc[p] \in Working,
           NEW status \in {"running", "retrying"}, NEW change \in Int,
           Store(task[p], status, change),
           TypeOK', Informed(p)', Serving(p)',
           \A q \in Process \ {p} : /\ pc'[q] = pc[q]
                                    /\ task'[q] = task[q]
                                    /\ attempt'[q] = attempt[q]
                                    /\ verdict'[q] = verdict[q]
    PROVE  Inv'
<1> USE QueueAssumption
<1> DEFINE t == task[p]
           h == [status |-> status, attempts |-> hash[t].attempts + change,
                 expires |-> hash[t].expires]
<1>1. TypeOK /\ t \in Task /\ t \in 1..enqueued
  BY TaskExists DEF Inv, Informed
<1>2. \A u \in Task : hash'[u] = IF u = t THEN h ELSE hash[u]
  BY <1>1 DEF TypeOK, Store
<1>3. /\ stray' \in [Task -> Nat] /\ Grown
      /\ owner = p => stray' = stray
      /\ owner # p => stray'[t] > 0
  BY <1>1, LateIsCounted
<1>4. stray'[t] = 0 => t \in stream
  BY <1>1, <1>3, TaskInStream
<1>5. Counted'
  <2>1. enqueued \in Nat /\ stream \subseteq Task
    BY <1>1 DEF TypeOK
  <2>2. \A u \in Task : u > enqueued => hash'[u] = NoHash
    BY <1>1, <1>2, <2>1 DEF Inv, Counted
  <2>3. \A u \in stream : ~hash'[u].expires
    BY <1>1, <1>2, <2>1 DEF Inv, Counted
  <2> QED
    BY <2>2, <2>3 DEF Inv, Counted, results
<1>6. StatusMatchesStream'
  <2>1. \A u \in 1..enqueued : u \in Task
    BY <1>1 DEF TypeOK, Task
  <2>2. status \in Live
    BY DEF Live
  <2> QED
    BY <1>2, <1>3, <1>4, <2>1, <2>2
    DEF Inv, StatusMatchesStream, results, Grown
<1>7. VerdictIsEarned'
  <2>1. ASSUME NEW u \in Task
        PROVE  /\ hash'[u].status = "completed" => u \in done'
               /\ hash'[u].status = "failed" =>
                     hash'[u].attempts >= MaxAttempts \/ stray'[u] > 0
    <3>1. stray[u] \in Nat /\ stray'[u] \in Nat
      BY <1>1, <1>3 DEF TypeOK
    <3> QED
      BY <1>2, <1>3, <3>1 DEF Inv, VerdictIsEarned, results, Grown
  <2> QED
    BY <2>1 DEF VerdictIsEarned
<1>8. \A q \in Process \ {p} : Informed(q)' /\ Serving(q)'
  BY <1>2, OthersUnhurt DEF results
<1> QED
  BY <1>5, <1>6, <1>7, <1>8 DEF Inv

\* begin charges an attempt.
LEMMA BeginInv ==
    ASSUME Inv, NEW p \in Process, Begin(p)
    PROVE  Inv'
<1> USE QueueAssumption
<1> DEFINE t == task[p]
           n == hash[t].attempts + 1
<1>1. /\ TypeOK /\ Pass(p) /\ pc[p] = "begin" /\ Informed(p) /\ Serving(p)
      /\ t \in Task /\ t \in 1..enqueued /\ n \in Int
      /\ hash[t].expires \in BOOLEAN
  BY TaskExists DEF Inv, Begin, Working, Informed
<1>2. /\ grace' \in [Process -> 0..Grace] /\ stray' \in [Task -> Nat]
      /\ owner = p => stray' = stray
      /\ owner # p => stray'[t] > 0
  BY <1>1, LateIsCounted
<1>3. /\ Store(t, "running", 1)
      /\ attempt' = [attempt EXCEPT ![p] = n]
      /\ UNCHANGED <<stream, pending, cursor, owner, business, task, verdict,
                     results>>
      /\ pc' \in {[pc EXCEPT ![p] = "run"], [pc EXCEPT ![p] = "closing"]}
  BY DEF Begin, Answer, Goto
<1>4. TypeOK'
  <2>1. hash' \in [Task -> Hash]
    BY <1>1, <1>3 DEF TypeOK, Status, Live, Hash, Store
  <2>2. attempt' \in [Process -> Int]
    BY <1>1, <1>3 DEF TypeOK
  <2>3. trouble' \in 0..MaxTrouble
    BY <1>1 DEF TypeOK, Begin, Answer, Upset
  <2> QED
    BY <1>1, <1>2, <1>3, <2>1, <2>2, <2>3 DEF TypeOK, results
<1>5. Informed(p)' /\ Serving(p)'
  <2>1. attempt'[p] = hash'[t].attempts
    BY <1>1, <1>3 DEF TypeOK, Store
  <2>2. owner = p /\ stray[t] = 0 => t \in pending
    BY <1>1 DEF Serving, Working
  <2>3. pc'[p] \in {"run", "closing"} /\ task' = task
    BY <1>1, <1>3 DEF TypeOK
  <2>4. Informed(p)'
    BY <1>1, <1>3, <2>3 DEF Informed, Working, results
  <2>5. Serving(p)'
    BY <1>1, <1>2, <1>3, <2>1, <2>2, <2>3 DEF Serving, Working, Charging
  <2> QED
    BY <2>4, <2>5
<1>6. \A q \in Process \ {p} : /\ pc'[q] = pc[q] /\ task'[q] = task[q]
                                /\ attempt'[q] = attempt[q]
                                /\ verdict'[q] = verdict[q]
  BY <1>1, <1>3 DEF TypeOK
<1> QED
  BY <1>1, <1>3, <1>4, <1>5, <1>6, WriteInv DEF Working

\* defer keeps the message; a busy lock gives the attempt back.
LEMMA DeferInv ==
    ASSUME Inv, NEW p \in Process, Retry(p) \/ DeferBusy(p)
    PROVE  Inv'
<1> USE QueueAssumption
<1> DEFINE t == task[p]
<1>1. /\ TypeOK /\ Pass(p) /\ pc[p] \in {"settle", "busy"}
      /\ t \in Task /\ hash[t].attempts \in Int /\ hash[t].expires \in BOOLEAN
  BY TaskExists DEF Inv, Retry, DeferBusy, Working
<1>2. grace' \in [Process -> 0..Grace] /\ stray' \in [Task -> Nat]
  BY <1>1, LateIsCounted
<1>3. PICK change \in Int : Store(t, "retrying", change)
  BY DEF Retry, DeferBusy
<1>4. /\ UNCHANGED <<stream, pending, cursor, owner, business, attempt,
                     verdict, results>>
      /\ task' = [task EXCEPT ![p] = 0]
      /\ pc' \in {[pc EXCEPT ![p] = "take"], [pc EXCEPT ![p] = "closing"]}
      /\ trouble' \in 0..MaxTrouble
  BY <1>1 DEF Retry, DeferBusy, Answer, Goto, Upset, TypeOK
<1>5. TypeOK'
  <2>1. hash' \in [Task -> Hash]
    BY <1>1, <1>3 DEF TypeOK, Status, Live, Hash, Store
  <2>2. task' \in [Process -> 0..MaxTasks]
    BY <1>1, <1>4 DEF TypeOK
  <2> QED
    BY <1>1, <1>2, <1>4, <2>1, <2>2 DEF TypeOK, results
<1>6. Informed(p)' /\ Serving(p)'
  BY <1>1, <1>4 DEF Informed, Serving, Working, TypeOK
<1>7. \A q \in Process \ {p} : /\ pc'[q] = pc[q] /\ task'[q] = task[q]
                                /\ attempt'[q] = attempt[q]
                                /\ verdict'[q] = verdict[q]
  BY <1>1, <1>4 DEF TypeOK
<1> QED
  BY <1>1, <1>3, <1>4, <1>5, <1>6, <1>7, WriteInv DEF Working

\* Only results without a message expire.
LEMMA ExpireInv ==
    ASSUME Inv, Expire
    PROVE  Inv'
<1> USE QueueAssumption
<1>1. PICK t \in Task : /\ hash[t].expires
                        /\ hash' = [hash EXCEPT ![t] = NoHash]
  BY DEF Expire
<1>2. TypeOK /\ UNCHANGED <<stream, pending, cursor, locks, pc, local,
                            history, trouble>>
  BY DEF Inv, Expire
<1>3. t \notin stream
  BY <1>1 DEF Inv, Counted
<1>4. TypeOK'
  BY <1>1, <1>2 DEF TypeOK, NoHash, Hash, Status, locks, local, history,
                    results
<1>9. \A u \in Task : hash'[u] = IF u = t THEN NoHash ELSE hash[u]
  BY <1>1, <1>2 DEF TypeOK
<1>5. Counted'
  BY <1>2, <1>3, <1>9 DEF Inv, Counted, history, results, TypeOK
<1>6. StatusMatchesStream'
  <2>1. \A u \in 1..enqueued : u \in Task
    BY <1>2 DEF TypeOK, Task
  <2>2. NoHash.status \notin Live
    BY DEF NoHash, Live
  <2> QED
    BY <1>2, <1>3, <1>9, <2>1, <2>2
    DEF Inv, StatusMatchesStream, history, results
<1>7. VerdictIsEarned'
  BY <1>2, <1>9 DEF Inv, VerdictIsEarned, history, results, NoHash
<1>8. ASSUME NEW p \in Process PROVE Informed(p)' /\ Serving(p)'
  <2>1. Informed(p) /\ Serving(p)
    BY DEF Inv
  <2>2. Informed(p)'
    BY <1>2, <2>1 DEF Informed, Working, local, history, results
  <2>3. owner = p /\ pc[p] \in Working /\ stray[task[p]] = 0 =>
            task[p] # t /\ task[p] \in Task
    BY <1>2, <1>3, <2>1, TaskInStream, TaskExists
  <2>4. Serving(p)'
    BY <1>2, <1>9, <2>1, <2>3
    DEF Serving, Working, Charging, local, locks, history
  <2> QED
    BY <2>2, <2>4
<1> QED
  BY <1>4, <1>5, <1>6, <1>7, <1>8 DEF Inv

-----------------------------------------------------------------------------
\* Every step preserves the invariant.
LEMMA NextInv ==
    ASSUME Inv, [Next]_vars
    PROVE  Inv'
<1>1. CASE UNCHANGED vars
  BY <1>1 DEF Inv, vars, TypeOK, Counted, StatusMatchesStream,
              VerdictIsEarned, Informed, Serving
<1>2. CASE Enqueue
  BY <1>2, EnqueueInv
<1>3. ASSUME NEW p \in Process, Proceed(p) \/ Disturb(p) PROVE Inv'
  <2>0. Informed(p) /\ Serving(p)
    BY DEF Inv
  <2>1. CASE TakeNew(p)
    BY <2>1, TakeNewInv
  <2>2. CASE Begin(p)
    BY <2>2, BeginInv
  <2>3. CASE GiveUp(p)
    <3>1. owner = p /\ stray[task[p]] = 0 =>
              hash[task[p]].attempts >= MaxAttempts
      BY <2>0, <2>3 DEF GiveUp, Serving, Working
    <3> QED
      BY <2>3, <3>1, FinishInv DEF GiveUp, Terminal
  <2>4. CASE Complete(p)
    <3>1. task[p] \in done
      BY <2>0, <2>4 DEF Complete, Informed
    <3> QED
      BY <2>4, <3>1, FinishInv DEF Complete, Terminal
  <2>5. CASE Exhaust(p)
    <3>1. owner = p /\ stray[task[p]] = 0 =>
              hash[task[p]].attempts >= MaxAttempts
      BY <2>0, <2>5 DEF Exhaust, Serving, Working, Charging
    <3> QED
      BY <2>5, <3>1, FinishInv DEF Exhaust, Terminal
  <2>6. CASE Retry(p) \/ DeferBusy(p)
    BY <2>6, DeferInv
  <2>7. CASE \/ Acquire(p) \/ TakePending(p) \/ TakeNothing(p)
             \/ ReadStatus(p) \/ RunStart(p) \/ RunEnd(p) \/ Refused(p)
             \/ Close(p) \/ Restart(p) \/ RunUnlocked(p) \/ Fault(p)
             \/ Leave(p) \/ Crash(p)
    BY <2>7, QuietInv
  <2> QED
    BY <1>3, <2>1, <2>2, <2>3, <2>4, <2>5, <2>6, <2>7
    DEF Proceed, Disturb, Serve
<1>4. CASE Elsewhere
  BY <1>4, LocksInv, ExpireInv DEF Elsewhere
<1> QED
  BY <1>1, <1>2, <1>3, <1>4 DEF Next

\* The inductive invariant holds in every execution, with any number of late
\* requests: what the holder of the worker lock believes of its task is true
\* unless one of them was about that task (queue.py, worker.py).
THEOREM Invariant == Spec => []Inv
<1>1. Inv /\ [Next]_vars => Inv'
  BY NextInv
<1> QED
  BY InitInv, <1>1, PTL DEF Spec

\* The variables hold what TypeOK says: a late defer may count below zero in
\* a hash that has expired, and that is all the types have to allow.
THEOREM Types == Spec => []TypeOK
<1>1. Inv => TypeOK
  BY DEF Inv
<1> QED
  BY <1>1, Invariant, PTL

\* The status a caller reads agrees with what the stream still holds; only a
\* late request on a task makes one that is settled look alive.
THEOREM StatusIsRight == Spec => []StatusMatchesStream
<1>1. Inv => StatusMatchesStream
  BY DEF Inv
<1> QED
  BY <1>1, Invariant, PTL

\* Completed tasks were executed with success, whatever lands late; failed
\* ones have used up their attempts, or a late request was about them.
THEOREM Earned == Spec => []VerdictIsEarned
<1>1. Inv => VerdictIsEarned
  BY DEF Inv
<1> QED
  BY <1>1, Invariant, PTL

\* Whoever still holds the worker lock works on a task that nobody settled,
\* unless by a request that landed after its session's lock.
THEOREM HolderServes == Spec => []HolderServesLiveTask
<1>1. ASSUME Inv, NEW p \in Process, owner = p, pc[p] \in Working,
             stray[task[p]] = 0
      PROVE  task[p] \in pending /\ hash[task[p]].status \in Live
  <2>1. task[p] \in stream /\ task[p] \in pending
    BY <1>1, TaskInStream
  <2> QED
    BY <1>1, <2>1 DEF Inv, Informed, StatusMatchesStream
<1>2. Inv => HolderServesLiveTask
  BY <1>1 DEF HolderServesLiveTask, Working
<1> QED
  BY <1>2, Invariant, PTL

\* No step but a late one revives or overrules a settled task.
LEMMA FinalStep ==
    ASSUME Inv, [Next]_vars, NEW t \in 1..enqueued,
           hash[t].status \notin Live, stray'[t] = 0
    PROVE  hash'[t].status \in {hash[t].status, "absent"}
<1> USE QueueAssumption
<1>1. TypeOK /\ t \in Task /\ t \notin stream
  <2>1. TypeOK
    BY DEF Inv
  <2>2. enqueued \in 0..MaxTasks
    BY <2>1 DEF TypeOK
  <2> QED
    BY <2>1, <2>2 DEF Task, Inv, StatusMatchesStream
<1>2. CASE Enqueue
  BY <1>1, <1>2 DEF Enqueue, TypeOK
<1>3. CASE Expire
  BY <1>1, <1>3 DEF Expire, TypeOK, NoHash
<1>4. ASSUME NEW p \in Process,
             \/ Begin(p) \/ GiveUp(p) \/ Complete(p) \/ Exhaust(p)
             \/ Retry(p) \/ DeferBusy(p)
      PROVE  hash'[t] = hash[t]
  <2>1. pc[p] \in Working /\ Pass(p)
    BY <1>4 DEF Working, Begin, GiveUp, Complete, Exhaust, Retry, DeferBusy,
                Finish
  <2>2. task[p] # t
    <3>1. owner = p => stray' = stray
      BY <1>1, <2>1, LateIsCounted
    <3>2. owner # p => task[p] # t
      BY <1>1, <2>1, LateIsCounted
    <3> QED
      BY <1>1, <2>1, <3>1, <3>2, TaskInStream
  <2> QED
    BY <1>1, <1>4, <2>2 DEF TypeOK, Begin, GiveUp, Complete, Exhaust, Retry,
       DeferBusy, Finish, Store
<1>5. CASE UNCHANGED hash
  BY <1>5
<1>6. ASSUME NEW p \in Process,
             \/ Acquire(p) \/ TakePending(p) \/ TakeNew(p) \/ TakeNothing(p)
             \/ ReadStatus(p) \/ RunStart(p) \/ RunEnd(p) \/ Refused(p)
             \/ Close(p) \/ Restart(p) \/ Disturb(p)
      PROVE  UNCHANGED hash
  BY <1>6 DEF redis, Acquire, TakePending, TakeNew, TakeNothing, ReadStatus,
     RunStart, RunEnd, Refused, Close, Restart, Disturb, RunUnlocked, Fault,
     Leave, Crash
<1>7. ASSUME \/ LoseLock \/ Forget \/ LoseBusiness \/ ForgetBusiness
             \/ ManualStart \/ ManualEnd \/ UNCHANGED vars
      PROVE  UNCHANGED hash
  BY <1>7 DEF redis, vars, LoseLock, Forget, LoseBusiness, ForgetBusiness,
     ManualStart, ManualEnd
<1> QED
  BY <1>2, <1>3, <1>4, <1>5, <1>6, <1>7
  DEF Next, Proceed, Serve, Elsewhere

\* A final status stays until it expires and does not come back, as long as
\* no request on that task lands after its session's lock.
THEOREM FinalIsFinal == Spec => FinalStatusIsFinal
<1> DEFINE Stays ==
      \A t \in 1..enqueued :
          hash[t].status \notin Live /\ stray'[t] = 0 =>
              hash'[t].status \in {hash[t].status, "absent"}
<1>1. Inv /\ [Next]_vars => Stays
  BY FinalStep
<1>2. Inv /\ [Next]_vars => [Stays]_vars
  BY <1>1
<1> QED
  BY <1>2, Invariant, PTL DEF Spec, FinalStatusIsFinal

-----------------------------------------------------------------------------
(* What the accounts below are kept in. *)

Basics ==
    /\ stream \subseteq Task
    /\ pending \subseteq Task
    /\ hash \in [Task -> [status : Status, attempts : Int, expires : BOOLEAN]]
    /\ owner \in Process \cup {None}
    /\ pc \in [Process -> {"idle", "take", "takenew", "status", "giveup",
                           "begin", "run", "running", "busy", "settle",
                           "closing", "leaving", "down"}]
    /\ task \in [Process -> Nat]
    /\ enqueued \in 0..MaxTasks
    /\ executed \in [Task -> Nat]
    /\ trouble \in Nat
    /\ \A p \in Process : pc[p] \in Working => task[p] \in Task

\* They are part of the invariant.
LEMMA BasicsHold == Inv => Basics
<1> SUFFICES ASSUME Inv PROVE Basics
  OBVIOUS
<1>1. \A p \in Process : pc[p] \in Working => task[p] \in Task
  BY TaskExists DEF Inv
<1> QED
  BY <1>1, QueueAssumption DEF Inv, Basics, TypeOK, Hash

\* So they hold after a step that keeps it.
LEMMA BasicsNext == Inv' => Basics'
<1> SUFFICES ASSUME Inv' PROVE Basics'
  OBVIOUS
<1>1. TypeOK' /\ \A p \in Process : Informed(p)'
  BY DEF Inv, Works
<1>2. \A p \in Process : pc'[p] \in Working => task'[p] \in Task
  <2>1. enqueued' \in 0..MaxTasks
    BY <1>1 DEF TypeOK
  <2> QED
    BY <1>1, <2>1, QueueAssumption DEF Informed, Task
<1> QED
  BY <1>1, <1>2, QueueAssumption DEF Basics, TypeOK, Hash

-----------------------------------------------------------------------------
(* What an attempt is charged for.  A session that lost the lock has cost   *)
(* one unit of trouble, which pays for the one attempt it may still charge: *)
(* until it does, the unit is set aside.                                    *)

Ended == {"idle", "down", "closing", "leaving"}
Undecided(t, p) == task[p] = t /\ pc[p] \in {"run", "busy"}

\* Sessions without the lock, those of them that have not charged t, and the
\* one that holds the lock and has charged t for nothing yet.
Lockless == {p \in Process : owner # p /\ pc[p] \notin Ended}
Open(t) == {p \in Process : /\ owner # p /\ pc[p] \notin Ended
                            /\ ~Undecided(t, p)}
Held(t) == {p \in Process : owner = p /\ Undecided(t, p)}

ChargeInv ==
    /\ Cardinality(Lockless) <= trouble
    /\ \A t \in Task :
          hash[t].attempts + Cardinality(Open(t))
              <= executed[t] + trouble + Cardinality(Held(t))

In(S, p) == IF p \in S THEN 1 ELSE 0

\* Two finite sets that differ in one element at most.
LEMMA Shift ==
    ASSUME NEW S, NEW T, IsFiniteSet(S), IsFiniteSet(T), NEW p,
           S \ {p} = T \ {p}
    PROVE  /\ Cardinality(S) \in Nat /\ Cardinality(T) \in Nat
           /\ Cardinality(T) = Cardinality(S) + In(T, p) - In(S, p)
<1>1. /\ Cardinality(S \ {p}) = Cardinality(S) - In(S, p)
      /\ Cardinality(T \ {p}) = Cardinality(T) - In(T, p)
  <2>1. /\ Cardinality(S) \in Nat /\ Cardinality(T) \in Nat
    BY FS_CardinalityType
  <2>2. /\ Cardinality(S \ {p}) = IF p \in S THEN Cardinality(S) - 1
                                             ELSE Cardinality(S)
        /\ Cardinality(T \ {p}) = IF p \in T THEN Cardinality(T) - 1
                                             ELSE Cardinality(T)
    BY FS_RemoveElement
  <2> QED
    BY <2>1, <2>2 DEF In
<1>2. Cardinality(S) \in Nat /\ Cardinality(T) \in Nat
  BY FS_CardinalityType
<1> QED
  BY <1>1, <1>2 DEF In

\* The counted sets are sets of processes, so that they have a size, and
\* a process with a task open has lost the lock.
LEMMA SetsAreFinite ==
    ASSUME IsFiniteSet(Process), NEW t
    PROVE  /\ IsFiniteSet(Lockless) /\ IsFiniteSet(Open(t))
           /\ IsFiniteSet(Held(t))
           /\ Cardinality(Lockless) \in Nat /\ Cardinality(Open(t)) \in Nat
           /\ Cardinality(Held(t)) \in Nat
           /\ Cardinality(Open(t)) <= Cardinality(Lockless)
<1>1. /\ Lockless \in SUBSET Process /\ Held(t) \in SUBSET Process
      /\ Open(t) \in SUBSET Lockless
  BY DEF Lockless, Open, Held
<1>2. IsFiniteSet(Lockless) /\ IsFiniteSet(Held(t))
  BY <1>1, FS_Subset
<1>3. IsFiniteSet(Open(t)) /\ Cardinality(Open(t)) <= Cardinality(Lockless)
  BY <1>1, <1>2, FS_Subset
<1> QED
  BY <1>2, <1>3, FS_CardinalityType

\* What process p alone contributes to either side.
Share(t, p) == In(Held(t), p) - In(Open(t), p)

\* A step of p, and what it changes in the accounts.
Only(p) == \A q \in Process \ {p} : /\ pc'[q] = pc[q] /\ task'[q] = task[q]
                                    /\ owner' = q <=> owner = q
NoWorse(p) ==
    /\ In(Lockless, p)' - In(Lockless, p) <= trouble' - trouble
    /\ \A t \in Task :
          hash'[t].attempts - hash[t].attempts
              <= (executed'[t] - executed[t]) + (trouble' - trouble)
                 + (Share(t, p)' - Share(t, p))

\* A step of one process keeps the accounts if its own do not get worse.
LEMMA OneProcess ==
    ASSUME IsFiniteSet(Process), Basics, Basics', ChargeInv,
           NEW p \in Process, Only(p), NoWorse(p)
    PROVE  ChargeInv'
<1> USE DEF Only, NoWorse
<1>1. Cardinality(Lockless)' <= trouble'
  <2>1. Lockless \ {p} = Lockless' \ {p}
    BY DEF Lockless
  <2>2. IsFiniteSet(Lockless) /\ IsFiniteSet(Lockless')
    BY SetsAreFinite, FS_Subset DEF Lockless
  <2>3. /\ Cardinality(Lockless) \in Nat /\ Cardinality(Lockless') \in Nat
        /\ Cardinality(Lockless')
              = Cardinality(Lockless) + In(Lockless', p) - In(Lockless, p)
    BY <2>1, <2>2, Shift
  <2>4. In(Lockless', p) \in Int /\ In(Lockless, p) \in Int
    BY DEF In
  <2>5. In(Lockless', p) - In(Lockless, p) <= trouble' - trouble
    BY DEF In
  <2>6. trouble \in Nat /\ trouble' \in Nat /\ Cardinality(Lockless) <= trouble
    BY DEF Basics, ChargeInv
  <2> QED
    BY <2>3, <2>4, <2>5, <2>6
<1>2. ASSUME NEW t \in Task
      PROVE  hash'[t].attempts + Cardinality(Open(t)')
                 <= executed'[t] + trouble' + Cardinality(Held(t)')
  <2>1. /\ Open(t) \ {p} = Open(t)' \ {p}
        /\ Held(t) \ {p} = Held(t)' \ {p}
    BY DEF Open, Held, Undecided
  <2>2. /\ IsFiniteSet(Open(t)) /\ IsFiniteSet(Open(t)')
        /\ IsFiniteSet(Held(t)) /\ IsFiniteSet(Held(t)')
    <3>1. /\ Open(t) \in SUBSET Process /\ Open(t)' \in SUBSET Process
          /\ Held(t) \in SUBSET Process /\ Held(t)' \in SUBSET Process
      BY DEF Open, Held
    <3> QED
      BY <3>1, FS_Subset
  <2>3. /\ Cardinality(Open(t)) \in Nat /\ Cardinality(Open(t)') \in Nat
        /\ Cardinality(Open(t)')
              = Cardinality(Open(t)) + In(Open(t)', p) - In(Open(t), p)
    BY <2>1, <2>2, Shift
  <2>4. /\ Cardinality(Held(t)) \in Nat /\ Cardinality(Held(t)') \in Nat
        /\ Cardinality(Held(t)')
              = Cardinality(Held(t)) + In(Held(t)', p) - In(Held(t), p)
    BY <2>1, <2>2, Shift
  <2>5. /\ hash[t].attempts \in Int /\ hash'[t].attempts \in Int
        /\ executed[t] \in Nat /\ executed'[t] \in Nat
        /\ trouble \in Nat /\ trouble' \in Nat
    BY DEF Basics
  <2>6. hash[t].attempts + Cardinality(Open(t))
            <= executed[t] + trouble + Cardinality(Held(t))
    BY DEF ChargeInv
  <2>7. hash'[t].attempts - hash[t].attempts
            <= (executed'[t] - executed[t]) + (trouble' - trouble)
               + ((In(Held(t)', p) - In(Open(t)', p))
                  - (In(Held(t), p) - In(Open(t), p)))
    BY DEF Share
  <2>8. /\ In(Held(t)', p) \in Int /\ In(Open(t)', p) \in Int
        /\ In(Held(t), p) \in Int /\ In(Open(t), p) \in Int
    BY DEF In
  <2> QED
    BY <2>3, <2>4, <2>5, <2>6, <2>7, <2>8
<1> QED
  BY <1>1, <1>2 DEF ChargeInv

\* What a process adds to the account, by where it is and whether it holds
\* the lock.
LEMMA ShareIs ==
    ASSUME NEW p \in Process, NEW t
    PROVE  /\ Share(t, p) = IF owner = p
                            THEN IF Undecided(t, p) THEN 1 ELSE 0
                            ELSE IF pc[p] \in Ended \/ Undecided(t, p)
                                 THEN 0 ELSE 0 - 1
           /\ Share(t, p)' = IF owner' = p
                             THEN IF Undecided(t, p)' THEN 1 ELSE 0
                             ELSE IF pc'[p] \in Ended \/ Undecided(t, p)'
                                  THEN 0 ELSE 0 - 1
BY DEF Share, In, Held, Open

\* When a process counts among those that work without the lock.
LEMMA LocklessIs ==
    ASSUME NEW p \in Process
    PROVE  /\ In(Lockless, p) = IF owner # p /\ pc[p] \notin Ended
                                THEN 1 ELSE 0
           /\ In(Lockless, p)' = IF owner' # p /\ pc'[p] \notin Ended
                                 THEN 1 ELSE 0
BY DEF In, Lockless

\* Each action of a process pays for what it charges.
LEMMA PaidFor ==
    ASSUME Basics, Basics', NEW p \in Process,
           Proceed(p) \/ Disturb(p)
    PROVE  Only(p) /\ NoWorse(p)
<1> USE QueueAssumption DEF Ended, Undecided
<1>0. ASSUME NEW t \in Task
      PROVE  /\ hash[t].attempts \in Int /\ executed[t] \in Nat
             /\ trouble \in Nat
  BY <1>0 DEF Basics
<1>1. ASSUME \/ TakePending(p) \/ TakeNothing(p) \/ ReadStatus(p)
             \/ Refused(p) \/ Fault(p) \/ Leave(p)
      PROVE  Only(p) /\ NoWorse(p)
  <2>1. Only(p) /\ UNCHANGED <<hash, executed, owner>>
    BY <1>1
    DEF Only, Basics, TakePending, TakeNothing, ReadStatus, Refused,
        Fault, Leave, Goto, redis, locks, local, history, results
  <2>2. trouble' = trouble \/ trouble' = trouble + 1
    BY <1>1
    DEF TakePending, TakeNothing, ReadStatus, Refused, Fault, Leave, Upset
  <2>3. /\ pc[p] \in {"idle", "take", "begin", "giveup", "settle", "busy",
                      "takenew", "status"}
        /\ pc'[p] \in {"take", "takenew", "status", "giveup", "begin",
                       "closing", "leaving", "down"}
        /\ pc[p] = "idle" => pc'[p] = "down"
        /\ pc[p] = "busy" => /\ pc'[p] = "closing"
                             /\ owner # p \/ trouble' = trouble + 1
    BY <1>1
    DEF Basics, TakePending, TakeNothing, ReadStatus, Refused, Fault,
        Leave, Goto, Guarded, Upset
  <2> QED
    <3>1. In(Lockless, p)' - In(Lockless, p) <= trouble' - trouble
      BY <2>1, <2>2, <2>3, LocklessIs DEF Basics
    <3>2. ASSUME NEW t \in Task
          PROVE  hash'[t].attempts - hash[t].attempts
                     <= (executed'[t] - executed[t]) + (trouble' - trouble)
                        + (Share(t, p)' - Share(t, p))
      BY <1>0, <2>1, <2>2, <2>3, ShareIs
    <3>3. NoWorse(p)
      BY <3>1, <3>2 DEF NoWorse
    <3> QED
      BY <2>1, <3>3
<1>2. ASSUME Acquire(p)
      PROVE  Only(p) /\ NoWorse(p)
  <2>1. Only(p)
        /\ UNCHANGED <<hash, executed>>
    BY <1>2
    DEF Only, Basics, Acquire, Goto, redis, local, history, results
  <2>2. /\ owner # p /\ owner' = p
        /\ pc[p] = "idle"
        /\ \/ pc'[p] = "take" /\ trouble' = trouble
           \/ pc'[p] = "idle" /\ trouble' = trouble + 1
    BY <1>2
    DEF Basics, Acquire, Goto, Upset
  <2>3. In(Lockless, p)' - In(Lockless, p) <= trouble' - trouble
    BY <2>1, <2>2, LocklessIs DEF Basics
  <2>4. ASSUME NEW t \in Task
        PROVE  hash'[t].attempts - hash[t].attempts
                   <= (executed'[t] - executed[t]) + (trouble' - trouble)
                      + (Share(t, p)' - Share(t, p))
    BY <1>0, <2>1, <2>2, ShareIs
  <2>5. NoWorse(p)
    BY <2>3, <2>4 DEF NoWorse
  <2> QED
    BY <2>1, <2>5
<1>3. ASSUME TakeNew(p)
      PROVE  Only(p) /\ NoWorse(p)
  <2>1. Only(p)
        /\ UNCHANGED <<hash, executed, owner>>
    BY <1>3
    DEF Only, Basics, TakeNew, Answer, Goto, locks, history, results
  <2>2. /\ pc[p] = "takenew"
        /\ \/ pc'[p] = "status" /\ trouble' = trouble
           \/ pc'[p] = "closing" /\ trouble' = trouble + 1
    BY <1>3
    DEF Basics, TakeNew, Answer, Goto, Upset
  <2>3. In(Lockless, p)' - In(Lockless, p) <= trouble' - trouble
    BY <2>1, <2>2, LocklessIs DEF Basics
  <2>4. ASSUME NEW t \in Task
        PROVE  hash'[t].attempts - hash[t].attempts
                   <= (executed'[t] - executed[t]) + (trouble' - trouble)
                      + (Share(t, p)' - Share(t, p))
    BY <1>0, <2>1, <2>2, ShareIs
  <2>5. NoWorse(p)
    BY <2>3, <2>4 DEF NoWorse
  <2> QED
    BY <2>1, <2>5
<1>4. ASSUME Begin(p)
      PROVE  Only(p) /\ NoWorse(p)
  <2>1. Only(p)
        /\ UNCHANGED <<executed, owner, task>>
    BY <1>4
    DEF Only, Basics, Begin, Answer, Goto, history, results
  <2>2. /\ pc[p] = "begin"
        /\ \/ pc'[p] = "run" /\ trouble' = trouble
           \/ pc'[p] = "closing" /\ trouble' = trouble + 1
        /\ \A t \in Task : hash'[t].attempts =
              IF t = task[p] THEN hash[t].attempts + 1 ELSE hash[t].attempts
    BY <1>4
    DEF Basics, Begin, Store, Answer, Goto, Upset
  <2>3. In(Lockless, p)' - In(Lockless, p) <= trouble' - trouble
    BY <2>1, <2>2, LocklessIs DEF Basics
  <2>4. ASSUME NEW t \in Task
        PROVE  hash'[t].attempts - hash[t].attempts
                   <= (executed'[t] - executed[t]) + (trouble' - trouble)
                      + (Share(t, p)' - Share(t, p))
    BY <1>0, <2>1, <2>2, ShareIs
  <2>5. NoWorse(p)
    BY <2>3, <2>4 DEF NoWorse
  <2> QED
    BY <2>1, <2>5
<1>5. ASSUME RunStart(p)
      PROVE  Only(p) /\ NoWorse(p)
  <2>1. Only(p)
        /\ UNCHANGED <<hash, owner, task, trouble>>
    BY <1>5
    DEF Only, Basics, RunStart, Goto, redis, local
  <2>2. /\ pc[p] = "run"
        /\ \/ /\ pc'[p] = "running"
              /\ \A t \in Task : executed'[t] =
                    IF t = task[p] THEN executed[t] + 1 ELSE executed[t]
           \/ pc'[p] = "busy" /\ executed' = executed
    BY <1>5
    DEF Basics, RunStart, Goto
  <2>3. In(Lockless, p)' - In(Lockless, p) <= trouble' - trouble
    BY <2>1, <2>2, LocklessIs DEF Basics
  <2>4. ASSUME NEW t \in Task
        PROVE  hash'[t].attempts - hash[t].attempts
                   <= (executed'[t] - executed[t]) + (trouble' - trouble)
                      + (Share(t, p)' - Share(t, p))
    BY <1>0, <2>1, <2>2, ShareIs
  <2>5. NoWorse(p)
    BY <2>3, <2>4 DEF NoWorse
  <2> QED
    BY <2>1, <2>5
<1>6. ASSUME RunEnd(p)
      PROVE  Only(p) /\ NoWorse(p)
  <2>1. Only(p)
        /\ UNCHANGED <<hash, owner, task, executed>>
    BY <1>6
    DEF Only, Basics, RunEnd, Goto, redis
  <2>2. /\ pc[p] = "running" /\ pc'[p] = "settle"
        /\ trouble' = trouble \/ trouble' = trouble + 1
    BY <1>6
    DEF Basics, RunEnd, Goto, Upset
  <2>3. In(Lockless, p)' - In(Lockless, p) <= trouble' - trouble
    BY <2>1, <2>2, LocklessIs DEF Basics
  <2>4. ASSUME NEW t \in Task
        PROVE  hash'[t].attempts - hash[t].attempts
                   <= (executed'[t] - executed[t]) + (trouble' - trouble)
                      + (Share(t, p)' - Share(t, p))
    BY <1>0, <2>1, <2>2, ShareIs
  <2>5. NoWorse(p)
    BY <2>3, <2>4 DEF NoWorse
  <2> QED
    BY <2>1, <2>5
<1>7. ASSUME RunUnlocked(p)
      PROVE  Only(p) /\ NoWorse(p)
  <2>1. Only(p)
        /\ UNCHANGED <<hash, owner, task>>
    BY <1>7
    DEF Only, Basics, RunUnlocked, Goto, redis
  <2>2. /\ pc[p] = "run" /\ pc'[p] = "settle"
        /\ trouble' = trouble + 1
        /\ \A t \in Task : executed'[t] =
              IF t = task[p] THEN executed[t] + 1 ELSE executed[t]
    BY <1>7
    DEF Basics, RunUnlocked, Goto, Upset
  <2>3. In(Lockless, p)' - In(Lockless, p) <= trouble' - trouble
    BY <2>1, <2>2, LocklessIs DEF Basics
  <2>4. ASSUME NEW t \in Task
        PROVE  hash'[t].attempts - hash[t].attempts
                   <= (executed'[t] - executed[t]) + (trouble' - trouble)
                      + (Share(t, p)' - Share(t, p))
    BY <1>0, <2>1, <2>2, ShareIs
  <2>5. NoWorse(p)
    BY <2>3, <2>4 DEF NoWorse
  <2> QED
    BY <2>1, <2>5
<1>8. ASSUME GiveUp(p) \/ Complete(p) \/ Exhaust(p) \/ Retry(p)
      PROVE  Only(p) /\ NoWorse(p)
  <2>1. Only(p)
        /\ UNCHANGED <<executed, owner>>
    BY <1>8
    DEF Only, Basics, GiveUp, Complete, Exhaust, Retry, Finish, Answer,
        Goto, history, results
  <2>2. /\ pc[p] \in {"giveup", "settle"}
        /\ \/ pc'[p] = "take" /\ trouble' = trouble
           \/ pc'[p] = "closing" /\ trouble' = trouble + 1
        /\ \A t \in Task : hash'[t].attempts = hash[t].attempts
    <3>1. CASE Retry(p)
      BY <3>1 DEF Basics, Retry, Store, Answer, Goto, Upset
    <3>2. CASE GiveUp(p) \/ Complete(p) \/ Exhaust(p)
      BY <3>2 DEF Basics, GiveUp, Complete, Exhaust, Finish, Answer, Goto,
                  Upset
    <3> QED
      BY <1>8, <3>1, <3>2
  <2>3. In(Lockless, p)' - In(Lockless, p) <= trouble' - trouble
    BY <2>1, <2>2, LocklessIs DEF Basics
  <2>4. ASSUME NEW t \in Task
        PROVE  hash'[t].attempts - hash[t].attempts
                   <= (executed'[t] - executed[t]) + (trouble' - trouble)
                      + (Share(t, p)' - Share(t, p))
    BY <1>0, <2>1, <2>2, ShareIs
  <2>5. NoWorse(p)
    BY <2>3, <2>4 DEF NoWorse
  <2> QED
    BY <2>1, <2>5
<1>9. ASSUME DeferBusy(p)
      PROVE  Only(p) /\ NoWorse(p)
  <2>1. Only(p)
        /\ UNCHANGED <<executed, owner>>
    BY <1>9
    DEF Only, Basics, DeferBusy, Answer, Goto, history, results
  <2>2. /\ pc[p] = "busy"
        /\ \/ pc'[p] = "take" /\ trouble' = trouble
           \/ pc'[p] = "closing" /\ trouble' = trouble + 1
        /\ \A t \in Task : hash'[t].attempts =
              IF t = task[p] THEN hash[t].attempts - 1 ELSE hash[t].attempts
    BY <1>9
    DEF Basics, DeferBusy, Store, Answer, Goto, Upset
  <2>3. In(Lockless, p)' - In(Lockless, p) <= trouble' - trouble
    BY <2>1, <2>2, LocklessIs DEF Basics
  <2>4. ASSUME NEW t \in Task
        PROVE  hash'[t].attempts - hash[t].attempts
                   <= (executed'[t] - executed[t]) + (trouble' - trouble)
                      + (Share(t, p)' - Share(t, p))
    BY <1>0, <2>1, <2>2, ShareIs
  <2>5. NoWorse(p)
    BY <2>3, <2>4 DEF NoWorse
  <2> QED
    BY <2>1, <2>5
<1>10. ASSUME Close(p)
      PROVE  Only(p) /\ NoWorse(p)
  <2>1. Only(p)
        /\ UNCHANGED <<hash, executed>>
    BY <1>10
    DEF Only, Basics, Close, Forgotten, Goto, redis, history, results
  <2>2. /\ pc[p] \in {"closing", "leaving"} /\ pc'[p] \in {"idle", "down"}
        /\ trouble' = trouble \/ trouble' = trouble + 1
    BY <1>10
    DEF Basics, Close, Goto, Upset
  <2>3. In(Lockless, p)' - In(Lockless, p) <= trouble' - trouble
    BY <2>1, <2>2, LocklessIs DEF Basics
  <2>4. ASSUME NEW t \in Task
        PROVE  hash'[t].attempts - hash[t].attempts
                   <= (executed'[t] - executed[t]) + (trouble' - trouble)
                      + (Share(t, p)' - Share(t, p))
    BY <1>0, <2>1, <2>2, ShareIs
  <2>5. NoWorse(p)
    BY <2>3, <2>4 DEF NoWorse
  <2> QED
    BY <2>1, <2>5
<1>11. ASSUME Crash(p)
      PROVE  Only(p) /\ NoWorse(p)
  <2>1. Only(p)
        /\ UNCHANGED <<hash, executed, owner>>
    BY <1>11
    DEF Only, Basics, Crash, Forgotten, Goto, redis, history, results
  <2>2. pc'[p] = "down" /\ trouble' = trouble + 1
    BY <1>11
    DEF Basics, Crash, Goto, Upset
  <2>3. In(Lockless, p)' - In(Lockless, p) <= trouble' - trouble
    BY <2>1, <2>2, LocklessIs DEF Basics
  <2>4. ASSUME NEW t \in Task
        PROVE  hash'[t].attempts - hash[t].attempts
                   <= (executed'[t] - executed[t]) + (trouble' - trouble)
                      + (Share(t, p)' - Share(t, p))
    BY <1>0, <2>1, <2>2, ShareIs
  <2>5. NoWorse(p)
    BY <2>3, <2>4 DEF NoWorse
  <2> QED
    BY <2>1, <2>5
<1>12. ASSUME Restart(p)
      PROVE  Only(p) /\ NoWorse(p)
  <2>1. Only(p)
        /\ UNCHANGED <<hash, executed, owner, trouble>>
    BY <1>12
    DEF Only, Basics, Restart, Goto, redis, locks, local, history, results
  <2>2. pc[p] = "down" /\ pc'[p] = "idle"
    BY <1>12
    DEF Basics, Restart, Goto
  <2>3. In(Lockless, p)' - In(Lockless, p) <= trouble' - trouble
    BY <2>1, <2>2, LocklessIs DEF Basics
  <2>4. ASSUME NEW t \in Task
        PROVE  hash'[t].attempts - hash[t].attempts
                   <= (executed'[t] - executed[t]) + (trouble' - trouble)
                      + (Share(t, p)' - Share(t, p))
    BY <1>0, <2>1, <2>2, ShareIs
  <2>5. NoWorse(p)
    BY <2>3, <2>4 DEF NoWorse
  <2> QED
    BY <2>1, <2>5
<1> QED
  BY <1>1, <1>2, <1>3, <1>4, <1>5, <1>6, <1>7, <1>8, <1>9, <1>10, <1>11,
     <1>12
  DEF Proceed, Serve, Disturb

\* At the start nobody works and nothing has been charged.
LEMMA ChargeInit == ASSUME IsFiniteSet(Process) PROVE Init => ChargeInv
<1> SUFFICES ASSUME Init PROVE ChargeInv
  OBVIOUS
<1>1. Lockless = {} /\ \A t : Open(t) = {}
  BY DEF Init, Lockless, Open, Ended
<1>2. \A t \in Task : Cardinality(Held(t)) \in Nat
  BY SetsAreFinite
<1>3. Cardinality({}) = 0
  BY FS_EmptySet
<1>4. ASSUME NEW t \in Task
      PROVE  hash[t].attempts + Cardinality(Open(t))
                 <= executed[t] + trouble + Cardinality(Held(t))
  <2>1. hash[t].attempts = 0 /\ executed[t] = 0 /\ trouble = 0
    BY DEF Init, NoHash
  <2> QED
    BY <1>1, <1>2, <1>3, <2>1
<1> QED
  BY <1>1, <1>3, <1>4 DEF Init, ChargeInv

\* A task without attempts owes nothing.
LEMMA NothingCharged ==
    ASSUME IsFiniteSet(Process), Basics, ChargeInv, NEW t \in Task
    PROVE  0 + Cardinality(Open(t))
               <= executed[t] + trouble + Cardinality(Held(t))
BY SetsAreFinite DEF ChargeInv, Basics

\* Every step keeps the account: one of a process by PaidFor, a lost lock
\* by the trouble it counts.
LEMMA ChargeStep ==
    ASSUME IsFiniteSet(Process), Basics, Basics', ChargeInv,
           [Next]_vars
    PROVE  ChargeInv'
<1> USE QueueAssumption
<1>1. ASSUME NEW p \in Process, Proceed(p) \/ Disturb(p)
      PROVE  ChargeInv'
  BY <1>1, PaidFor, OneProcess
<1>2. CASE LoseLock \/ Forget
  <2>1. PICK p \in Process : owner = p
    BY <1>2 DEF LoseLock, Forget, Basics
  <2>2. owner' = None /\ UNCHANGED <<hash, executed, pc, task>>
    BY <1>2 DEF LoseLock, Forget, redis, local, history, results
  <2>3. \/ trouble' = trouble + 1
        \/ trouble' = trouble /\ pc[p] \in Ended
    BY <1>2, <2>1 DEF LoseLock, Forget, Upset, InSession, Ended
  <2>4. Only(p)
    BY <2>1, <2>2 DEF Only
  <2>5. In(Lockless, p)' - In(Lockless, p) <= trouble' - trouble
    BY <2>1, <2>2, <2>3, LocklessIs DEF Basics
  <2>6. ASSUME NEW t \in Task
        PROVE  hash'[t].attempts - hash[t].attempts
                   <= (executed'[t] - executed[t]) + (trouble' - trouble)
                      + (Share(t, p)' - Share(t, p))
    <3>1. Undecided(t, p)' = Undecided(t, p)
      BY <2>2 DEF Undecided
    <3>2. hash[t].attempts \in Int /\ executed[t] \in Nat /\ trouble \in Nat
      BY DEF Basics
    <3>3. pc[p] \in Ended => ~Undecided(t, p)
      BY DEF Undecided, Ended
    <3> QED
      BY <2>1, <2>2, <2>3, <3>1, <3>2, <3>3, ShareIs
  <2>7. NoWorse(p)
    BY <2>5, <2>6 DEF NoWorse
  <2> QED
    BY <2>4, <2>7, OneProcess
<1>3. CASE UNCHANGED <<owner, pc, task, executed>> /\ trouble <= trouble'
           /\ \A t \in Task : \/ hash'[t].attempts = hash[t].attempts
                              \/ hash'[t].attempts = 0
  <2>1. /\ Lockless' = Lockless
        /\ \A t : Open(t)' = Open(t) /\ Held(t)' = Held(t)
    BY <1>3 DEF Lockless, Open, Held, Undecided
  <2>2. Cardinality(Lockless') <= trouble'
    BY <1>3, <2>1, SetsAreFinite DEF ChargeInv, Basics
  <2>3. ASSUME NEW t \in Task
        PROVE  hash'[t].attempts + Cardinality(Open(t)')
                   <= executed'[t] + trouble' + Cardinality(Held(t)')
    <3>1. /\ executed[t] \in Nat /\ trouble \in Nat /\ trouble' \in Nat
          /\ hash[t].attempts \in Int
          /\ Cardinality(Open(t)) \in Nat /\ Cardinality(Held(t)) \in Nat
      BY SetsAreFinite DEF Basics
    <3>2. /\ 0 + Cardinality(Open(t))
                 <= executed[t] + trouble + Cardinality(Held(t))
          /\ hash[t].attempts + Cardinality(Open(t))
                 <= executed[t] + trouble + Cardinality(Held(t))
      BY NothingCharged DEF ChargeInv
    <3> QED
      BY <1>3, <2>1, <3>1, <3>2
  <2> QED
    BY <2>2, <2>3 DEF ChargeInv
<1>4. CASE Enqueue
  <2>1. /\ UNCHANGED <<owner, pc, task, executed, trouble>>
        /\ \A t \in Task : \/ hash'[t].attempts = hash[t].attempts
                           \/ hash'[t].attempts = 0
    BY <1>4 DEF Enqueue, Basics, locks, local
  <2> QED
    BY <1>3, <2>1 DEF Basics
<1>5. CASE Expire
  <2>1. /\ UNCHANGED <<owner, pc, task, executed, trouble>>
        /\ \A t \in Task : \/ hash'[t].attempts = hash[t].attempts
                           \/ hash'[t].attempts = 0
    BY <1>5 DEF Expire, NoHash, Basics, locks, local, history, results
  <2> QED
    BY <1>3, <2>1 DEF Basics
<1>6. CASE \/ LoseBusiness \/ ForgetBusiness \/ ManualStart \/ ManualEnd
           \/ UNCHANGED vars
  <2>1. /\ UNCHANGED <<owner, pc, task, executed, hash>>
        /\ trouble' = trouble \/ trouble' = trouble + 1
    BY <1>6
    DEF LoseBusiness, ForgetBusiness, ManualStart, ManualEnd, vars, redis,
        local, history, results, Upset
  <2> QED
    BY <1>3, <2>1 DEF Basics
<1> QED
  BY <1>1, <1>2, <1>4, <1>5, <1>6 DEF Next, Elsewhere

\* Attempts are charged for executions and for troubles, never for waiting on
\* the business lock, however much lands late (docs/architecture.md: "a busy
\* lock consumes no attempt").
THEOREM RunsAreCharged ==
    ASSUME IsFiniteSet(Process) PROVE Spec => []ChargedForRuns
<1>1. Init => ChargeInv
  BY ChargeInit
<1>2. Inv /\ Inv' /\ ChargeInv /\ [Next]_vars => ChargeInv'
  <2>1. Inv => Basics
    BY BasicsHold
  <2>2. Inv' => Basics'
    BY BasicsHold, PTL
  <2> QED
    BY <2>1, <2>2, ChargeStep
<1>3. Inv /\ ChargeInv => ChargedForRuns
  <2> SUFFICES ASSUME Basics, ChargeInv PROVE ChargedForRuns
    BY BasicsHold
  <2> DEFINE Unsettled(t) == {p \in Process : task[p] = t
                                             /\ pc[p] \in {"run", "busy"}}
  <2>1. ASSUME NEW t \in Task
        PROVE  hash[t].attempts
                   <= executed[t] + trouble + Cardinality(Unsettled(t))
    <3>1. Held(t) \in SUBSET Unsettled(t) /\ Unsettled(t) \in SUBSET Process
      BY DEF Held, Undecided
    <3>2. IsFiniteSet(Unsettled(t))
      BY <3>1, FS_Subset
    <3>3. /\ Cardinality(Held(t)) <= Cardinality(Unsettled(t))
          /\ Cardinality(Unsettled(t)) \in Nat
      BY <3>1, <3>2, FS_Subset, FS_CardinalityType
    <3>4. /\ executed[t] \in Nat /\ trouble \in Nat
          /\ hash[t].attempts \in Int
          /\ Cardinality(Open(t)) \in Nat /\ Cardinality(Held(t)) \in Nat
      BY SetsAreFinite DEF Basics
    <3> HIDE DEF Unsettled
    <3> QED
      BY <3>3, <3>4 DEF ChargeInv
  <2> QED
    BY <2>1 DEF ChargedForRuns
<1> QED
  BY <1>1, <1>2, <1>3, Invariant, PTL DEF Spec

-----------------------------------------------------------------------------
(* How often a task is executed.  What a session is about to do counts with *)
(* what was done: one that has charged the task still executes it when it   *)
(* has lost the lock, and the holder of the lock may have seen the task     *)
(* before a late request settled it.                                        *)

About(t) == {p \in Process : Undecided(t, p)}

Due(t) == IF owner \in Process /\ task[owner] = t
             /\ pc[owner] \in {"status", "begin"}
          THEN 1 ELSE 0

Fits(t) ==
    /\ t \in stream => /\ hash[t].attempts <= MaxAttempts + stray[t]
                       /\ executed[t] + Cardinality(About(t))
                              <= hash[t].attempts
    /\ t \notin stream => executed[t] + Cardinality(About(t)) + Due(t)
                              <= MaxAttempts + stray[t]
    /\ t > enqueued => executed[t] = 0

Spare == \A t \in Task : Fits(t)

\* begin is called only while an attempt is left.
Ready == \A p \in Process :
    owner = p /\ pc[p] = "begin" /\ task[p] \in stream =>
        hash[task[p]].attempts < MaxAttempts + stray[task[p]]

\* The sessions about to execute a task are finitely many.
LEMMA AboutIsFinite ==
    ASSUME IsFiniteSet(Process), NEW t
    PROVE  /\ IsFiniteSet(About(t)) /\ Cardinality(About(t)) \in Nat
           /\ IsFiniteSet(About(t)') /\ Cardinality(About(t)') \in Nat
<1>1. About(t) \in SUBSET Process /\ About(t)' \in SUBSET Process
  BY DEF About
<1> QED
  BY <1>1, FS_Subset, FS_CardinalityType

\* A step of one process changes their number by that process alone.
LEMMA AboutChanges ==
    ASSUME IsFiniteSet(Process), NEW t, NEW p \in Process,
           \A q \in Process \ {p} : pc'[q] = pc[q] /\ task'[q] = task[q]
    PROVE  Cardinality(About(t)') = Cardinality(About(t))
                                    + (IF Undecided(t, p)' THEN 1 ELSE 0)
                                    - (IF Undecided(t, p) THEN 1 ELSE 0)
<1>1. About(t) \ {p} = About(t)' \ {p}
  BY DEF About, Undecided
<1>2. Cardinality(About(t)')
          = Cardinality(About(t)) + In(About(t)', p) - In(About(t), p)
  BY <1>1, AboutIsFinite, Shift
<1>3. /\ In(About(t)', p) = IF Undecided(t, p)' THEN 1 ELSE 0
      /\ In(About(t), p) = IF Undecided(t, p) THEN 1 ELSE 0
  BY DEF In, About
<1> QED
  BY <1>2, <1>3

\* What the step of a process may do to the account of a task: whatever it
\* adds on one side was due, or is a late request's.
LEMMA FitsAfter ==
    ASSUME IsFiniteSet(Process), Inv, Inv', NEW t \in Task, Fits(t),
           NEW p \in Process, Only(p), enqueued' = enqueued,
           stream' \subseteq stream,
           NEW more \in {0, 1},
           executed'[t] + Cardinality(About(t)')
               <= executed[t] + Cardinality(About(t)) + more,
           t > enqueued => executed'[t] = 0,
           t \in stream' =>
               /\ hash'[t].attempts <= MaxAttempts + stray'[t]
               /\ executed'[t] + Cardinality(About(t)') - hash'[t].attempts
                      <= executed[t] + Cardinality(About(t))
                         - hash[t].attempts,
           t \in stream /\ t \notin stream' =>
               more + Due(t)' + stray[t] <= stray'[t],
           t \notin stream => more + Due(t)' + stray[t] <= stray'[t] + Due(t)
    PROVE  Fits(t)'
<1>1. /\ executed[t] \in Nat /\ executed'[t] \in Nat
      /\ hash[t].attempts \in Int /\ hash'[t].attempts \in Int
      /\ stray[t] \in Nat /\ stray'[t] \in Nat
      /\ MaxAttempts \in Nat
      /\ Due(t) \in Int /\ Due(t)' \in Int
  BY QueueAssumption DEF Inv, TypeOK, Hash, Due
<1>2. Cardinality(About(t)) \in Nat /\ Cardinality(About(t)') \in Nat
  BY AboutIsFinite
<1>3. CASE t \in stream'
  BY <1>1, <1>2, <1>3 DEF Fits
<1>4. CASE t \in stream /\ t \notin stream'
  BY <1>1, <1>2, <1>4 DEF Fits
<1>5. CASE t \notin stream
  BY <1>1, <1>2, <1>5 DEF Fits
<1> QED
  BY <1>3, <1>4, <1>5

\* Where only p moves, what is due changes only if p holds the lock.
LEMMA DueOf ==
    ASSUME NEW p \in Process, Only(p), Basics, Basics', NEW t
    PROVE  /\ Due(t) \in {0, 1} /\ Due(t)' \in {0, 1}
           /\ owner # p /\ owner' # p => Due(t)' = Due(t)
           /\ owner = p => Due(t) = IF task[p] = t
                                       /\ pc[p] \in {"status", "begin"}
                                    THEN 1 ELSE 0
           /\ owner' = p => Due(t)' = IF task'[p] = t
                                         /\ pc'[p] \in {"status", "begin"}
                                      THEN 1 ELSE 0
           /\ owner' # p => Due(t)' <= Due(t)
<1>1. Due(t) \in {0, 1} /\ Due(t)' \in {0, 1}
  BY DEF Due
<1>2. ASSUME owner' # p PROVE Due(t)' <= Due(t)
  <2>1. CASE owner' = None
    BY <1>1, <2>1, QueueAssumption DEF Due
  <2>2. CASE owner' \in Process
    BY <1>1, <1>2, <2>2 DEF Due, Only
  <2> QED
    BY <2>1, <2>2 DEF Basics
<1>3. ASSUME owner # p, owner' # p PROVE Due(t)' = Due(t)
  <2>1. CASE owner = None
    BY <1>3, <2>1, QueueAssumption DEF Due, Only, Basics
  <2>2. CASE owner \in Process
    BY <1>3, <2>2 DEF Due, Only
  <2> QED
    BY <2>1, <2>2 DEF Basics
<1> QED
  BY <1>1, <1>2, <1>3 DEF Due

\* Steps that execute nothing and write nothing keep the account.
LEMMA QuietFits ==
    ASSUME IsFiniteSet(Process), Inv, Inv', Spare, NEW p \in Process,
           Only(p),
           \/ Acquire(p) \/ TakePending(p) \/ TakeNew(p) \/ TakeNothing(p)
           \/ ReadStatus(p) \/ RunEnd(p) \/ Refused(p) \/ Close(p)
           \/ Restart(p) \/ Fault(p) \/ Leave(p) \/ Crash(p)
    PROVE  Spare'
<1>1. TypeOK /\ TypeOK' /\ Basics /\ Basics'
  BY BasicsHold, BasicsNext DEF Inv
<1>2. /\ UNCHANGED <<executed, enqueued, stream, hash>>
      /\ \A t \in Task : Undecided(t, p)' => Undecided(t, p)
  BY <1>1
  DEF TypeOK, Acquire, TakePending, TakeNew, TakeNothing, ReadStatus,
      RunEnd, Refused, Close, Restart, Fault, Leave, Crash, Goto, Answer,
      redis, history, results, Undecided
<1>3. \A t \in Task : stray[t] \in Nat /\ stray'[t] \in Nat
                      /\ stray[t] <= stray'[t]
  <2>1. CASE TakePending(p)
    BY <1>1, <2>1 DEF TakePending, Pass, TypeOK
  <2>2. CASE ~TakePending(p)
    BY <1>1, <2>2
    DEF TypeOK, Acquire, TakeNew, TakeNothing, ReadStatus, RunEnd, Refused,
        Close, Restart, Fault, Leave, Crash, history
  <2> QED
    BY <2>1, <2>2
<1>4. ASSUME NEW t \in Task, t \notin stream PROVE Due(t)' <= Due(t)
  <2>1. CASE owner' # p
    BY <1>1, <2>1, DueOf
  <2>2. CASE owner' = p /\ ~(task'[p] = t /\ pc'[p] \in {"status", "begin"})
    BY <1>1, <2>2, DueOf
  <2>3. CASE owner' = p /\ task'[p] = t /\ pc'[p] \in {"status", "begin"}
    <3>1. ~TakePending(p) /\ ~TakeNew(p)
      BY <1>1, <1>4, <2>3
      DEF Inv, StatusMatchesStream, TakePending, TakeNew, New, TypeOK, Goto
    <3>2. ReadStatus(p)
      BY <1>1, <2>3, <3>1
      DEF TypeOK, Acquire, TakeNothing, RunEnd, Refused, Close, Restart,
          Fault, Leave, Crash, Goto
    <3>3. owner = p /\ task[p] = t /\ pc[p] = "status"
      BY <2>3, <3>2 DEF ReadStatus, locks, local
    <3> QED
      BY <1>1, <2>3, <3>3, DueOf
  <2> QED
    BY <2>1, <2>2, <2>3
<1>5. ASSUME NEW t \in Task PROVE Fits(t)'
  <2>1. Fits(t)
    BY DEF Spare
  <2>2. Cardinality(About(t)') <= Cardinality(About(t))
    BY <1>2, AboutChanges, AboutIsFinite DEF Only
  <2>3. /\ executed[t] \in Nat /\ hash[t].attempts \in Int
        /\ Cardinality(About(t)) \in Nat /\ Cardinality(About(t)') \in Nat
        /\ MaxAttempts \in Nat /\ Due(t) \in Int /\ Due(t)' \in Int
    BY <1>1, AboutIsFinite, QueueAssumption DEF TypeOK, Hash, Due
  <2>4. t > enqueued => executed'[t] = 0
    BY <1>2, <2>1 DEF Fits
  <2>5. t \in stream => hash[t].attempts <= MaxAttempts + stray'[t]
    BY <1>3, <2>1, <2>3 DEF Fits
  <2>6. t \notin stream => 0 + Due(t)' + stray[t] <= stray'[t] + Due(t)
    BY <1>3, <1>4, <2>3
  <2> QED
    BY <1>2, <2>1, <2>2, <2>3, <2>4, <2>5, <2>6, FitsAfter
<1> QED
  BY <1>5 DEF Spare

\* finish and defer settle what the session has done, and begin charges what
\* it is going to do.
LEMMA WrittenFits ==
    ASSUME IsFiniteSet(Process), Inv, Inv', Spare, Ready, NEW p \in Process,
           Only(p),
           \/ GiveUp(p) \/ Complete(p) \/ Exhaust(p) \/ Retry(p)
           \/ Begin(p) \/ DeferBusy(p)
    PROVE  Spare'
<1>1. TypeOK /\ TypeOK' /\ Basics /\ Basics'
  BY BasicsHold, BasicsNext DEF Inv
<1>2. /\ Pass(p) /\ owner' = owner /\ pc[p] \in Working
      /\ UNCHANGED <<executed, enqueued>>
      /\ stream' \subseteq stream
      /\ \A t \in Task : t # task[p] => (t \in stream <=> t \in stream')
  BY DEF GiveUp, Complete, Exhaust, Retry, Begin, DeferBusy, Finish, results,
         Working
<1>3. /\ \A t \in Task : t # task[p] => stray'[t] = stray[t]
      /\ owner = p => stray' = stray
      /\ owner # p =>
             \A t \in Task : t = task[p] => stray'[t] = stray[t] + 1
  BY <1>1, <1>2, LateIsCounted
<1>4. ASSUME NEW t \in Task
      PROVE  /\ executed[t] \in Nat /\ executed'[t] = executed[t]
             /\ hash[t].attempts \in Int /\ hash'[t].attempts \in Int
             /\ stray[t] \in Nat /\ stray'[t] \in Nat
             /\ Cardinality(About(t)) \in Nat
             /\ Cardinality(About(t)') \in Nat
             /\ MaxAttempts \in Nat
             /\ Due(t) \in {0, 1} /\ Due(t)' \in {0, 1}
             /\ Fits(t)
             /\ t > enqueued => executed'[t] = 0
  <2>1. Fits(t)
    BY DEF Spare
  <2> QED
    BY <1>1, <1>2, <2>1, AboutIsFinite, DueOf, QueueAssumption
    DEF TypeOK, Hash, Fits
<1>5. CASE GiveUp(p) \/ Complete(p) \/ Exhaust(p) \/ Retry(p)
  <2>1. /\ pc[p] \in {"giveup", "settle"} /\ pc'[p] \in {"take", "closing"}
        /\ \A t \in Task : hash'[t].attempts = hash[t].attempts
    <3>0. ASSUME NEW t \in Task PROVE hash[t].attempts \in Int
      BY <1>1 DEF TypeOK, Hash
    <3>1. CASE Retry(p)
      BY <1>1, <3>0, <3>1 DEF TypeOK, Retry, Store, Answer, Goto
    <3>2. CASE GiveUp(p) \/ Complete(p) \/ Exhaust(p)
      BY <1>1, <3>2
      DEF TypeOK, GiveUp, Complete, Exhaust, Finish, Answer, Goto
    <3> QED
      BY <1>5, <3>1, <3>2
  <2>2. ASSUME NEW t \in Task PROVE Fits(t)'
    <3>1. Cardinality(About(t)') = Cardinality(About(t))
      BY <1>4, <2>1, AboutChanges DEF Only, Undecided
    <3>2. t \in stream' => hash'[t].attempts <= MaxAttempts + stray'[t]
      BY <1>2, <1>3, <1>4, <2>1 DEF Fits
    <3>3. Due(t)' <= Due(t) /\ (owner = p => Due(t)' = 0)
      BY <1>1, <1>2, <1>4, <2>1, DueOf
    <3>4. /\ t \in stream /\ t \notin stream' =>
                 0 + Due(t)' + stray[t] <= stray'[t]
          /\ t \notin stream => 0 + Due(t)' + stray[t] <= stray'[t] + Due(t)
      BY <1>2, <1>3, <1>4, <3>3
    <3> QED
      BY <1>2, <1>4, <2>1, <3>1, <3>2, <3>4, FitsAfter
  <2> QED
    BY <2>2 DEF Spare
<1>6. CASE Begin(p)
  <2>1. /\ pc[p] = "begin" /\ pc'[p] \in {"run", "closing"}
        /\ task' = task /\ stream' = stream
        /\ \A t \in Task : hash'[t].attempts =
              IF t = task[p] THEN hash[t].attempts + 1 ELSE hash[t].attempts
    BY <1>1, <1>6 DEF TypeOK, Begin, Store, Answer, Goto
  <2>2. ASSUME NEW t \in Task PROVE Fits(t)'
    <3> DEFINE more == IF t = task[p] THEN 1 ELSE 0
    <3>1. more \in {0, 1}
      OBVIOUS
    <3>2. Cardinality(About(t)') <= Cardinality(About(t)) + more
      BY <1>4, <2>1, AboutChanges DEF Only, Undecided
    <3>3. t \in stream' => hash'[t].attempts <= MaxAttempts + stray'[t]
      <4>1. CASE t # task[p]
        BY <1>3, <1>4, <2>1, <4>1 DEF Fits
      <4>2. CASE t = task[p] /\ owner # p
        BY <1>3, <1>4, <2>1, <4>2 DEF Fits
      <4>3. CASE t = task[p] /\ owner = p
        <5>1. t \in stream => hash[t].attempts < MaxAttempts + stray[t]
          BY <2>1, <4>3 DEF Ready
        <5> QED
          BY <1>3, <1>4, <2>1, <4>3, <5>1
      <4> QED
        BY <4>1, <4>2, <4>3
    <3>4. /\ owner # p => Due(t)' = Due(t)
          /\ owner = p => Due(t) = more /\ Due(t)' = 0
      BY <1>1, <1>2, <2>1, DueOf
    <3>5. t \notin stream => more + Due(t)' + stray[t] <= stray'[t] + Due(t)
      BY <1>3, <1>4, <3>1, <3>4
    <3>6. executed'[t] + Cardinality(About(t)') - hash'[t].attempts
              <= executed[t] + Cardinality(About(t)) - hash[t].attempts
      BY <1>4, <2>1, <3>2
    <3>7. executed'[t] + Cardinality(About(t)')
              <= executed[t] + Cardinality(About(t)) + more
      BY <1>4, <3>1, <3>2
    <3> HIDE DEF more
    <3> QED
      BY <1>2, <1>4, <2>1, <3>1, <3>3, <3>5, <3>6, <3>7, FitsAfter
  <2> QED
    BY <2>2 DEF Spare
<1>7. CASE DeferBusy(p)
  <2>1. /\ pc[p] = "busy" /\ pc'[p] \in {"take", "closing"}
        /\ stream' = stream
        /\ \A t \in Task : hash'[t].attempts =
              IF t = task[p] THEN hash[t].attempts - 1 ELSE hash[t].attempts
    BY <1>1, <1>7 DEF TypeOK, DeferBusy, Store, Answer, Goto
  <2>2. ASSUME NEW t \in Task PROVE Fits(t)'
    <3>1. Cardinality(About(t)') = Cardinality(About(t))
                                   - (IF t = task[p] THEN 1 ELSE 0)
      BY <1>4, <2>1, AboutChanges DEF Only, Undecided
    <3>2. t \in stream' => hash'[t].attempts <= MaxAttempts + stray'[t]
      BY <1>3, <1>4, <2>1 DEF Fits
    <3>3. Due(t)' <= Due(t)
      BY <1>1, <1>2, <1>4, <2>1, DueOf
    <3>4. t \notin stream => 0 + Due(t)' + stray[t] <= stray'[t] + Due(t)
      BY <1>3, <1>4, <3>3
    <3>5. executed'[t] + Cardinality(About(t)') - hash'[t].attempts
              <= executed[t] + Cardinality(About(t)) - hash[t].attempts
      BY <1>4, <2>1, <3>1
    <3>6. executed'[t] + Cardinality(About(t)')
              <= executed[t] + Cardinality(About(t)) + 0
      BY <1>4, <3>1
    <3> QED
      BY <1>2, <1>4, <2>1, <3>2, <3>4, <3>5, <3>6, FitsAfter
  <2> QED
    BY <2>2 DEF Spare
<1> QED
  BY <1>5, <1>6, <1>7

\* An execution was about to happen before it did.
LEMMA ExecutedFits ==
    ASSUME IsFiniteSet(Process), Inv, Inv', Spare, NEW p \in Process,
           Only(p), RunStart(p) \/ RunUnlocked(p)
    PROVE  Spare'
<1>1. TypeOK /\ TypeOK' /\ Basics /\ Basics' /\ Informed(p)
  BY BasicsHold, BasicsNext DEF Inv
<1>2. /\ pc[p] = "run"
      /\ UNCHANGED <<hash, stream, enqueued, task, stray, owner>>
      /\ \/ /\ pc'[p] \in {"running", "settle"}
            /\ \A t \in Task : executed'[t] =
                  IF t = task[p] THEN executed[t] + 1 ELSE executed[t]
         \/ pc'[p] = "busy" /\ executed' = executed
  BY <1>1 DEF RunStart, RunUnlocked, Goto, TypeOK, redis, local
<1>3. task[p] <= enqueued
  BY <1>1, <1>2 DEF Informed, Working, TypeOK
<1>4. ASSUME NEW t \in Task PROVE Fits(t)'
  <2>1. /\ executed[t] \in Nat /\ executed'[t] \in Nat
        /\ hash[t].attempts \in Int /\ stray[t] \in Nat
        /\ Cardinality(About(t)) \in Nat /\ Cardinality(About(t)') \in Nat
        /\ MaxAttempts \in Nat /\ Due(t) \in Int /\ Due(t)' \in Int
        /\ Fits(t)
    BY <1>1, AboutIsFinite, QueueAssumption DEF TypeOK, Hash, Due, Spare
  <2>2. Cardinality(About(t)') = Cardinality(About(t))
            - (IF t = task[p] /\ pc'[p] # "busy" THEN 1 ELSE 0)
    BY <1>2, <2>1, AboutChanges DEF Only, Undecided
  <2>3. executed'[t] + Cardinality(About(t)')
            = executed[t] + Cardinality(About(t))
    BY <1>2, <2>1, <2>2
  <2>4. t > enqueued => executed'[t] = 0
    <3>1. task[p] \in Nat /\ enqueued \in Nat /\ t \in Nat
      BY <1>1 DEF TypeOK, Task
    <3>2. t > enqueued => t # task[p] /\ executed[t] = 0
      BY <1>3, <2>1, <3>1 DEF Fits
    <3> QED
      BY <1>2, <3>2
  <2>5. Due(t)' <= Due(t)
    BY <1>1, <1>2, <2>1, DueOf
  <2>6. t \notin stream => 0 + Due(t)' + stray[t] <= stray'[t] + Due(t)
    BY <1>2, <2>1, <2>5
  <2>7. t \in stream' => hash'[t].attempts <= MaxAttempts + stray'[t]
    BY <1>2, <2>1 DEF Fits
  <2> QED
    BY <1>2, <2>1, <2>3, <2>4, <2>6, <2>7, FitsAfter
<1> QED
  BY <1>4 DEF Spare

\* Every step keeps the executions of a task, with those about to happen,
\* within its attempts and the late requests on it.
LEMMA BoundStep ==
    ASSUME IsFiniteSet(Process), Inv, Inv', Spare, Ready, [Next]_vars
    PROVE  Spare'
<1> USE QueueAssumption DEF Undecided
<1>1. TypeOK /\ TypeOK' /\ Basics /\ Basics'
      /\ \A p \in Process : Informed(p)
  BY BasicsHold, BasicsNext DEF Inv
<1>2. ASSUME NEW t \in Task
      PROVE  /\ executed[t] \in Nat /\ hash[t].attempts \in Int
             /\ stray[t] \in Nat /\ Cardinality(About(t)) \in Nat
             /\ Due(t) \in Nat
  BY <1>1, AboutIsFinite DEF TypeOK, Hash, Due
<1>3. ASSUME NEW p \in Process, Proceed(p) \/ Disturb(p)
      PROVE  Spare'
  <2>1. Only(p)
    BY <1>1, <1>3, PaidFor
  <2> QED
    BY <1>3, <2>1, QuietFits, WrittenFits, ExecutedFits
    DEF Proceed, Serve, Disturb
<1>4. CASE Enqueue
  <2>1. /\ UNCHANGED <<pc, task, owner, executed, stray>>
        /\ enqueued' = enqueued + 1
        /\ stream' = stream \cup {enqueued + 1}
        /\ \A t \in Task : t # enqueued + 1 => hash'[t] = hash[t]
        /\ enqueued + 1 \in Task => hash'[enqueued + 1].attempts = 0
    BY <1>1, <1>4 DEF Enqueue, TypeOK, local, locks
  <2>2. \A t : About(t)' = About(t) /\ Due(t)' = Due(t)
    BY <2>1 DEF About, Due
  <2>3. About(enqueued + 1) = {}
    BY <1>1 DEF About, Informed, Working, TypeOK
  <2>4. Cardinality(About(enqueued + 1)) = 0
    BY <2>3, FS_EmptySet
  <2>5. enqueued \in Nat
    BY <1>1 DEF TypeOK
  <2>6. ASSUME NEW t \in Task PROVE Fits(t)'
    <3>1. CASE t = enqueued + 1
      <4>1. executed[t] = 0
        BY <2>5, <3>1 DEF Spare, Fits
      <4> QED
        BY <1>2, <2>1, <2>2, <2>4, <2>5, <3>1, <4>1 DEF Fits
    <3>2. CASE t # enqueued + 1
      BY <1>2, <2>1, <2>2, <2>5, <3>2 DEF Spare, Fits, Task
    <3> QED
      BY <3>1, <3>2
  <2> QED
    BY <2>6 DEF Spare
<1>5. CASE Expire
  <2>1. /\ UNCHANGED <<pc, task, owner, executed, enqueued, stream, stray>>
        /\ \A t \in stream : hash'[t] = hash[t]
    BY <1>1, <1>5
    DEF Inv, Counted, Expire, TypeOK, locks, local, history, results
  <2>2. \A t : About(t)' = About(t) /\ Due(t)' = Due(t)
    BY <2>1 DEF About, Due
  <2> QED
    BY <2>1, <2>2 DEF Spare, Fits
<1>6. CASE \/ LoseLock \/ Forget \/ LoseBusiness \/ ForgetBusiness
           \/ ManualStart \/ ManualEnd \/ UNCHANGED vars
  <2>1. /\ UNCHANGED <<pc, task, executed, enqueued, stream, hash, stray>>
        /\ owner' \in {owner, None}
    BY <1>6
    DEF LoseLock, Forget, LoseBusiness, ForgetBusiness, ManualStart,
        ManualEnd, vars, redis, local, history, results
  <2>2. \A t : About(t)' = About(t) /\ Due(t)' <= Due(t)
    BY <2>1 DEF About, Due
  <2>3. ASSUME NEW t \in Task PROVE Fits(t)'
    <3>1. Due(t)' \in Nat
      BY DEF Due
    <3> QED
      BY <1>2, <2>1, <2>2, <3>1 DEF Spare, Fits
  <2> QED
    BY <2>3 DEF Spare
<1> QED
  BY <1>3, <1>4, <1>5, <1>6 DEF Next, Elsewhere

\* Only the session that holds the lock is told that an attempt is left, and
\* nobody takes it away meanwhile but by a late request.
LEMMA ReadyStep ==
    ASSUME Inv, Inv', Ready, [Next]_vars
    PROVE  Ready'
<1> USE QueueAssumption
<1>1. TypeOK /\ TypeOK' /\ Basics /\ Basics'
      /\ \A p \in Process : Informed(p)
  BY BasicsHold, BasicsNext DEF Inv
<1>2. ASSUME NEW q \in Process, owner' = q, pc'[q] = "begin",
             task'[q] \in stream', pc[q] = "begin", owner = q
      PROVE  hash'[task'[q]].attempts < MaxAttempts + stray'[task'[q]]
  <2>1. task[q] \in Task /\ task[q] \in 1..enqueued
    BY <1>1, <1>2 DEF Informed, Working, Basics
  <2>2. task[q] \in stream =>
            hash[task[q]].attempts < MaxAttempts + stray[task[q]]
    BY <1>2 DEF Ready
  <2>0. /\ hash[task[q]].attempts \in Int /\ stray[task[q]] \in Nat
        /\ MaxAttempts \in Nat
    BY <1>1, <2>1 DEF TypeOK, Hash
  <2>3. ASSUME NEW p \in Process, Proceed(p) \/ Disturb(p)
        PROVE  hash'[task'[q]].attempts < MaxAttempts + stray'[task'[q]]
    <3>1. p # q => task'[q] = task[q]
      BY <1>1, <2>3, PaidFor DEF Only
    <3>2. CASE p # q /\ (GiveUp(p) \/ Complete(p) \/ Exhaust(p) \/ Retry(p)
                         \/ Begin(p) \/ DeferBusy(p))
      <4>1. /\ Pass(p) /\ owner # p /\ stream' \subseteq stream
        BY <1>2, <3>2 DEF GiveUp, Complete, Exhaust, Retry, Begin, DeferBusy,
                          Finish
      <4>2. stray'[task[q]] = IF task[q] = task[p] THEN stray[task[q]] + 1
                                                   ELSE stray[task[q]]
        BY <1>1, <2>1, <4>1, LateIsCounted
      <4>3. hash'[task[q]].attempts <= IF task[q] = task[p]
                                       THEN hash[task[q]].attempts + 1
                                       ELSE hash[task[q]].attempts
        BY <1>1, <2>0, <2>1, <3>2
        DEF TypeOK, GiveUp, Complete, Exhaust, Retry, Begin, DeferBusy,
            Finish, Store
      <4>4. hash'[task[q]].attempts \in Int
        BY <1>1, <2>1 DEF TypeOK, Hash
      <4> QED
        BY <1>2, <2>0, <2>2, <3>1, <3>2, <4>1, <4>2, <4>3, <4>4
    <3>3. CASE p # q /\ ~(GiveUp(p) \/ Complete(p) \/ Exhaust(p) \/ Retry(p)
                          \/ Begin(p) \/ DeferBusy(p))
      <4>1. UNCHANGED <<hash, stream>>
        BY <2>3, <3>3
        DEF Proceed, Serve, Disturb, redis, Acquire, TakePending, TakeNew,
            TakeNothing, RunStart, RunEnd, ReadStatus, Refused, Close,
            Restart, RunUnlocked, Fault, Leave, Crash
      <4>2. stray[task[q]] <= stray'[task[q]] /\ stray'[task[q]] \in Nat
        <5>1. CASE TakePending(p)
          BY <1>1, <2>0, <2>1, <5>1 DEF TakePending, Pass, TypeOK
        <5>2. CASE ~TakePending(p)
          BY <1>1, <2>0, <2>1, <2>3, <3>3, <5>2
          DEF TypeOK, Proceed, Serve, Disturb, history, Acquire, TakeNew,
              TakeNothing, RunStart, RunEnd, ReadStatus, Refused, Close,
              Restart, RunUnlocked, Fault, Leave, Crash
        <5> QED
          BY <5>1, <5>2
      <4> QED
        BY <1>2, <2>0, <2>2, <3>1, <3>3, <4>1, <4>2
    <3>4. CASE p = q
      BY <1>1, <1>2, <2>2, <2>3, <3>4
      DEF TypeOK, Proceed, Serve, Disturb, redis, Acquire, TakePending,
          TakeNew, TakeNothing, ReadStatus, Begin, RunStart, RunEnd, GiveUp,
          Complete, Exhaust, Retry, DeferBusy, Finish, Refused, Close,
          Restart, RunUnlocked, Fault, Leave, Crash, Goto, Answer
    <3> QED
      BY <3>2, <3>3, <3>4
  <2>4. CASE Enqueue
    <3>1. task[q] # enqueued + 1 /\ enqueued' = enqueued + 1
      BY <1>1, <2>1, <2>4 DEF Enqueue, TypeOK
    <3> QED
      BY <1>1, <1>2, <2>1, <2>2, <2>4, <3>1 DEF Enqueue, local, TypeOK
  <2>5. CASE Expire
    <3>1. /\ UNCHANGED <<stream, task, stray>>
          /\ \A t \in stream : hash'[t] = hash[t]
      BY <1>1, <2>5 DEF Inv, Counted, Expire, TypeOK, local, history
    <3> QED
      BY <1>2, <2>2, <3>1
  <2>6. CASE \/ LoseLock \/ Forget \/ LoseBusiness \/ ForgetBusiness
             \/ ManualStart \/ ManualEnd \/ UNCHANGED vars
    <3>1. UNCHANGED <<stream, task, stray, hash>>
      BY <2>6
      DEF LoseLock, Forget, LoseBusiness, ForgetBusiness, ManualStart,
          ManualEnd, vars, redis, local, history
    <3> QED
      BY <1>2, <2>2, <3>1
  <2> QED
    BY <2>3, <2>4, <2>5, <2>6 DEF Next, Elsewhere
<1>3. ASSUME NEW q \in Process, owner' = q, pc'[q] = "begin",
             ~(pc[q] = "begin" /\ owner = q)
      PROVE  hash'[task'[q]].attempts < MaxAttempts + stray'[task'[q]]
  <2>1. CASE ReadStatus(q)
    <3>1. task[q] \in Task /\ hash[task[q]].attempts \in Int
          /\ stray[task[q]] \in Nat
      BY <1>1, <2>1, TaskExists DEF ReadStatus, Working
    <3> QED
      BY <1>1, <1>3, <2>1, <3>1
      DEF ReadStatus, Goto, redis, local, history, TypeOK
  <2>2. ASSUME NEW p \in Process, Proceed(p) \/ Disturb(p),
               p # q \/ ~ReadStatus(q)
        PROVE  FALSE
    <3>1. CASE p # q
      BY <1>1, <1>3, <2>2, <3>1, PaidFor DEF Only
    <3>2. CASE p = q
      BY <1>1, <1>3, <2>2, <3>2
      DEF TypeOK, Proceed, Serve, Disturb, Acquire, TakePending, TakeNew,
          TakeNothing, Begin, RunStart, RunEnd, GiveUp, Complete, Exhaust,
          Retry, DeferBusy, Finish, Refused, Close, Restart, RunUnlocked,
          Fault, Leave, Crash, Goto, Answer, locks
    <3> QED
      BY <3>1, <3>2
  <2>3. CASE Enqueue \/ Elsewhere \/ UNCHANGED vars
    BY <1>3, <2>3
    DEF Enqueue, Elsewhere, LoseLock, Forget, LoseBusiness, ForgetBusiness,
        ManualStart, ManualEnd, Expire, vars, locks
  <2> QED
    BY <2>1, <2>2, <2>3 DEF Next
<1> QED
  BY <1>2, <1>3 DEF Ready

\* Through crashes, lost locks and second sessions a task is executed at most
\* queue_max_attempts times, and once more for each request on it that landed
\* after the lock of its session (worker.py compares, then charges, in
\* requests of their own).
THEOREM ExecutionsAreBounded ==
    ASSUME IsFiniteSet(Process)
    PROVE  Spec => []ExecutionsBounded
<1>1. Init => Spare /\ Ready
  <2> SUFFICES ASSUME Init PROVE Spare /\ Ready
    OBVIOUS
  <2>1. \A t : About(t) = {} /\ Due(t) = 0
    BY QueueAssumption DEF Init, About, Undecided, Due
  <2> QED
    BY <2>1, FS_EmptySet, QueueAssumption DEF Init, Spare, Fits, Ready
<1>2. Inv /\ Inv' /\ Spare /\ Ready /\ [Next]_vars => Spare' /\ Ready'
  BY BoundStep, ReadyStep
<1>3. Inv /\ Spare => ExecutionsBounded
  <2> SUFFICES ASSUME Inv, Spare, NEW t \in Task
               PROVE  executed[t] <= MaxAttempts + stray[t]
    BY DEF ExecutionsBounded
  <2>1. /\ executed[t] \in Nat /\ Cardinality(About(t)) \in Nat
        /\ hash[t].attempts \in Int /\ stray[t] \in Nat /\ Due(t) \in Nat
    BY AboutIsFinite DEF Inv, TypeOK, Hash, Due
  <2> QED
    BY <2>1, QueueAssumption DEF Spare, Fits
<1> QED
  BY <1>1, <1>2, <1>3, Invariant, PTL DEF Spec
=============================================================================
