------------------------------- MODULE Lease -------------------------------
(***************************************************************************)
(* The Redis run lock (infrastructure/redis.py) and the lease that guards  *)
(* every external operation of the run that took it                        *)
(* (infrastructure/lease.py).                                              *)
(*                                                                         *)
(* Redis and the processes read the same clock, now.  Redis forgets the    *)
(* key when its time to live runs out.  A holder does not ask Redis before *)
(* an operation: assert_run_lock compares the local monotonic clock with   *)
(* a local deadline that a daemon thread moves after each renewal.  Each   *)
(* holder is one run: it takes the lock once, under a fresh token.         *)
(***************************************************************************)
EXTENDS Integers

CONSTANTS Holder,        \* the runs (or worker sessions) that compete
          Nobody,        \* the value of an absent lock key
          TTL,           \* ttl_seconds, in clock ticks
          AcquireDelay,  \* at most so long from Redis's SET to RunLease()
          MaxStall,      \* at most so late any step of the renewal thread
          MaxTime        \* bound on the clock, for TLC

ASSUME LeaseAssumption ==
    /\ Nobody \notin Holder
    /\ TTL \in Nat \ {0}
    /\ AcquireDelay \in Nat
    /\ MaxStall \in Nat
    /\ MaxTime \in Nat

VARIABLES now,        \* the clock
          key,        \* the token stored under the lock key
          expires,    \* when Redis drops the key
          phase,      \* where each holder is
          granted,    \* when Redis executed the holder's SET
          until,      \* the expiry Redis last gave the holder (history)
          deadline,   \* RunLease.deadline
          lost,       \* RunLease.lost
          thread,     \* where the renewal thread is
          waited,     \* when the renewal thread began to wait
          started     \* the local variable of renew()

vars == <<now, key, expires, phase, granted, until, deadline, lost,
          thread, waited, started>>

local == <<phase, granted, deadline, lost, thread, waited, started>>

Phase == {"idle", "granted", "running", "stopping", "closed", "released",
          "dead"}
Thread == {"waiting", "asking", "extended", "refused", "confirmed",
           "exited", "failed"}

\* A token is in force until its time to live is over.
Owner == IF now < expires THEN key ELSE Nobody

\* assert_run_lock() would not raise.
Guarded(h) == /\ phase[h] \in {"running", "stopping"}
              /\ ~lost[h]
              /\ now < deadline[h]

\* No renewal has corrected the first deadline, which RunLease() counts from
\* its own start and not from Redis's SET, and the difference is not over.
Lagging(h) == /\ until[h] = granted[h] + TTL
              /\ now < until[h] + AcquireDelay

TypeOK ==
    /\ now \in Nat
    /\ key \in Holder \cup {Nobody}
    /\ expires \in Nat
    /\ phase \in [Holder -> Phase]
    /\ granted \in [Holder -> Nat]
    /\ until \in [Holder -> Nat]
    /\ deadline \in [Holder -> Nat]
    /\ lost \in [Holder -> BOOLEAN]
    /\ thread \in [Holder -> Thread]
    /\ waited \in [Holder -> Nat]
    /\ started \in [Holder -> Nat]

Init ==
    /\ now = 0
    /\ key = Nobody
    /\ expires = 0
    /\ phase = [h \in Holder |-> "idle"]
    /\ granted = [h \in Holder |-> 0]
    /\ until = [h \in Holder |-> 0]
    /\ deadline = [h \in Holder |-> 0]
    /\ lost = [h \in Holder |-> FALSE]
    /\ thread = [h \in Holder |-> "waiting"]
    /\ waited = [h \in Holder |-> 0]
    /\ started = [h \in Holder |-> 0]

-----------------------------------------------------------------------------
(* The holder's own thread. *)

\* acquire_run_lock: SET NX EX reaches Redis.
Acquire(h) ==
    /\ phase[h] = "idle"
    /\ Owner = Nobody
    /\ key' = h
    /\ expires' = now + TTL
    /\ until' = [until EXCEPT ![h] = now + TTL]
    /\ granted' = [granted EXCEPT ![h] = now]
    /\ phase' = [phase EXCEPT ![h] = "granted"]
    /\ UNCHANGED <<now, deadline, lost, thread, waited, started>>

\* RunLease.__init__ and start: the deadline is counted from here.
Start(h) ==
    /\ phase[h] = "granted"
    /\ deadline' = [deadline EXCEPT ![h] = now + TTL]
    /\ waited' = [waited EXCEPT ![h] = now]
    /\ phase' = [phase EXCEPT ![h] = "running"]
    /\ UNCHANGED <<now, key, expires, granted, until, lost, thread, started>>

\* assert_run_lock finds the deadline passed and marks the lease.  (When it
\* passes, or when the lease is already marked, it changes nothing.)
GuardFails(h) ==
    /\ phase[h] \in {"running", "stopping"}
    /\ now >= deadline[h]
    /\ ~lost[h]
    /\ lost' = [lost EXCEPT ![h] = TRUE]
    /\ UNCHANGED <<now, key, expires, phase, granted, until, deadline, thread,
                   waited, started>>

\* close: stop.set() ...
Stop(h) ==
    /\ phase[h] = "running"
    /\ phase' = [phase EXCEPT ![h] = "stopping"]
    /\ UNCHANGED <<now, key, expires, granted, until, deadline, lost, thread,
                   waited, started>>

\* ... and join: a renewal under way is waited for.
Join(h) ==
    /\ phase[h] = "stopping"
    /\ thread[h] \in {"waiting", "exited", "failed"}
    /\ phase' = [phase EXCEPT ![h] = "closed"]
    /\ UNCHANGED <<now, key, expires, granted, until, deadline, lost, thread,
                   waited, started>>

\* Mutant: the key is deleted without comparing the token.
MutantRelease(h) ==
    /\ phase[h] = "closed"
    /\ key' = Nobody
    /\ phase' = [phase EXCEPT ![h] = "released"]
    /\ UNCHANGED <<now, expires, granted, until, deadline, lost, thread,
                   waited, started>>

\* release_run_lock: compare and delete.
Release(h) ==
    /\ phase[h] = "closed"
    /\ key' = IF Owner = h THEN Nobody ELSE key
    /\ phase' = [phase EXCEPT ![h] = "released"]
    /\ UNCHANGED <<now, expires, granted, until, deadline, lost, thread,
                   waited, started>>

\* The process dies; a renewal it has sent may still reach Redis.
Crash(h) ==
    /\ phase[h] \in {"granted", "running", "stopping", "closed"}
    /\ phase' = [phase EXCEPT ![h] = "dead"]
    /\ UNCHANGED <<now, key, expires, granted, until, deadline, lost, thread,
                   waited, started>>

-----------------------------------------------------------------------------
(* The renewal thread: _run and renew. *)

\* stop.wait(ttl / 3) timed out; renew looks at the lease before it asks.
RenewStart(h) ==
    /\ phase[h] = "running"
    /\ thread[h] = "waiting"
    /\ 3 * (now - waited[h]) >= TTL
    /\ \/ /\ ~lost[h]
          /\ now < deadline[h]
          /\ started' = [started EXCEPT ![h] = now]
          /\ thread' = [thread EXCEPT ![h] = "asking"]
          /\ UNCHANGED lost
       \/ /\ lost[h] \/ now >= deadline[h]
          /\ lost' = [lost EXCEPT ![h] = TRUE]
          /\ thread' = [thread EXCEPT ![h] = "exited"]
          /\ UNCHANGED started
    /\ UNCHANGED <<now, key, expires, phase, granted, until, deadline, waited>>

\* renew_run_lock on the server: compare and expire.
RenewExec(h) ==
    /\ thread[h] = "asking"
    /\ \/ /\ Owner = h
          /\ expires' = now + TTL
          /\ until' = [until EXCEPT ![h] = now + TTL]
          /\ thread' = [thread EXCEPT ![h] = "extended"]
       \/ /\ Owner # h
          /\ thread' = [thread EXCEPT ![h] = "refused"]
          /\ UNCHANGED <<expires, until>>
    /\ UNCHANGED <<now, key, phase, granted, deadline, lost, waited, started>>

\* The call raises (connection error, time-out), whatever Redis did.
RenewError(h) ==
    /\ phase[h] \in {"running", "stopping"}
    /\ thread[h] \in {"asking", "extended", "refused"}
    /\ lost' = [lost EXCEPT ![h] = TRUE]
    /\ thread' = [thread EXCEPT ![h] = "failed"]
    /\ UNCHANGED <<now, key, expires, phase, granted, until, deadline, waited,
                   started>>

\* The answer says the lock is gone, or it comes after the deadline or after
\* the guard marked the lease.
RenewTooLate(h) ==
    /\ phase[h] \in {"running", "stopping"}
    /\ \/ thread[h] = "refused"
       \/ thread[h] = "extended" /\ (lost[h] \/ now >= deadline[h])
    /\ lost' = [lost EXCEPT ![h] = TRUE]
    /\ thread' = [thread EXCEPT ![h] = "exited"]
    /\ UNCHANGED <<now, key, expires, phase, granted, until, deadline, waited,
                   started>>

\* The answer is good: the second check of the deadline passes ...
RenewConfirm(h) ==
    /\ phase[h] \in {"running", "stopping"}
    /\ thread[h] = "extended"
    /\ ~lost[h]
    /\ now < deadline[h]
    /\ thread' = [thread EXCEPT ![h] = "confirmed"]
    /\ UNCHANGED <<now, key, expires, phase, granted, until, deadline, lost,
                   waited, started>>

\* Mutants of the next action: the deadline is counted from the answer; it is
\* not moved.
MutantCommitFromAnswer(h) ==
    /\ phase[h] \in {"running", "stopping"}
    /\ thread[h] = "confirmed"
    /\ deadline' = [deadline EXCEPT ![h] = now + TTL]
    /\ waited' = [waited EXCEPT ![h] = now]
    /\ thread' = [thread EXCEPT ![h] = "waiting"]
    /\ UNCHANGED <<now, key, expires, phase, granted, until, lost, started>>

MutantCommitForgotten(h) ==
    /\ phase[h] \in {"running", "stopping"}
    /\ thread[h] = "confirmed"
    /\ waited' = [waited EXCEPT ![h] = now]
    /\ thread' = [thread EXCEPT ![h] = "waiting"]
    /\ UNCHANGED <<now, key, expires, phase, granted, until, deadline, lost,
                   started>>

\* ... and the deadline moves, counted from before the request.
RenewCommit(h) ==
    /\ phase[h] \in {"running", "stopping"}
    /\ thread[h] = "confirmed"
    /\ deadline' = [deadline EXCEPT ![h] = started[h] + TTL]
    /\ waited' = [waited EXCEPT ![h] = now]
    /\ thread' = [thread EXCEPT ![h] = "waiting"]
    /\ UNCHANGED <<now, key, expires, phase, granted, until, lost, started>>

-----------------------------------------------------------------------------
\* What the scheduler and the network promise: time does not pass a holder
\* whose answer is overdue.
Prompt(h) ==
    /\ phase[h] = "granted" => now < granted[h] + AcquireDelay
    /\ phase[h] = "running" =>
          /\ thread[h] = "waiting" =>
                3 * (now - waited[h]) < TTL + 3 * MaxStall
          /\ thread[h] \in {"asking", "extended", "refused", "confirmed"} =>
                now < started[h] + MaxStall

Tick ==
    /\ now < MaxTime
    /\ \A h \in Holder : Prompt(h)
    /\ now' = now + 1
    /\ UNCHANGED <<key, expires, until, local>>

Run(h) == \/ Acquire(h) \/ Start(h) \/ GuardFails(h) \/ Stop(h) \/ Join(h)
          \/ Release(h) \/ Crash(h)

Renewal(h) == \/ RenewStart(h) \/ RenewExec(h) \/ RenewError(h)
              \/ RenewTooLate(h) \/ RenewConfirm(h) \/ RenewCommit(h)

Next == \/ Tick
        \/ \E h \in Holder : Run(h) \/ Renewal(h)

Spec == Init /\ [][Next]_vars

-----------------------------------------------------------------------------
(* Properties *)

\* Once Redis has executed a renewal, a passing assert_run_lock means that
\* Redis still holds that run's token: no other run can have taken the lock.
\* Until then the guard may go on passing after the key is gone, for no longer
\* than RunLease() was late (lease.py, __init__, renew and assert_run_lock:
\* "check whether the current task's lock is still valid").
GuardMeansOwnership ==
    \A h \in Holder : Guarded(h) => Owner = h \/ Lagging(h)

\* However late the reply to SET is read, a guard that passes is at most
\* AcquireDelay behind the expiry that Redis last gave this token.
GuardLag == \A h \in Holder : Guarded(h) => now < until[h] + AcquireDelay

\* A token in force is removed only by its own run, after its renewal thread
\* was joined; it never displaces another and never comes back by renewal
\* (the compare scripts of redis.py).
LockChangesHands ==
    [][\A h \in Holder :
          /\ (Owner = h /\ Owner' # h) =>
                (now' >= expires \/ phase[h] = "closed")
          /\ (Owner # h /\ Owner' = h) => phase[h] = "idle"]_vars

\* A renewal every third of the time to live keeps the lock: when no step of
\* the renewal thread is late by more than MaxStall, a lease is given up only
\* if a renewal call raised.
KeepsLock ==
    \A h \in Holder :
        (phase[h] = "running" /\ lost[h]) => thread[h] = "failed"
=============================================================================
