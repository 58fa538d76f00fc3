---------------------------- MODULE LeaseProofs ----------------------------
(* What the lease guarantees for every set of holders, every time to live, *)
(* every delay and every stall of the renewal thread.                      *)
EXTENDS Lease, TLAPS

Live == {"granted", "running", "stopping", "closed", "dead"}

\* As long as the time Redis last gave a run is not over, the key is its own.
KeyHeld == \A h \in Holder :
    (phase[h] \in Live /\ now < until[h]) => (key = h /\ expires = until[h])

\* Redis never grants beyond one time to live from now.
UntilBound == \A h \in Holder : until[h] <= now + TTL

\* Between SET and RunLease() at most AcquireDelay passes.
GrantBound == \A h \in Holder :
    phase[h] = "granted" =>
        /\ until[h] = granted[h] + TTL
        /\ now <= granted[h] + AcquireDelay

\* The renewal thread asks nothing before the lease is started.
ThreadBound == \A h \in Holder :
    phase[h] \in {"idle", "granted"} => thread[h] = "waiting"

\* The renewal thread counts from before its request.
RenewBound == \A h \in Holder :
    /\ thread[h] \in {"asking", "extended", "confirmed"} => started[h] <= now
    /\ thread[h] \in {"extended", "confirmed"} => started[h] + TTL <= until[h]

\* The local deadline is at most AcquireDelay behind Redis, and not at all
\* once Redis has executed a renewal: that one was granted a time to live
\* counted from a moment at which the deadline had no more left.
DeadlineBound == \A h \in Holder :
    phase[h] \in {"running", "stopping"} =>
        /\ deadline[h] <= now + TTL
        /\ deadline[h] <= until[h] + AcquireDelay
        /\ deadline[h] <= until[h] \/ until[h] = granted[h] + TTL

LeaseInv == /\ TypeOK
            /\ KeyHeld
            /\ UntilBound
            /\ GrantBound
            /\ ThreadBound
            /\ RenewBound
            /\ DeadlineBound

-----------------------------------------------------------------------------
\* Before any run has taken the lock the invariant holds.
LEMMA InitInv == Init => LeaseInv
BY LeaseAssumption
DEF Init, LeaseInv, TypeOK, KeyHeld, UntilBound, GrantBound, ThreadBound,
    RenewBound, DeadlineBound, Phase, Thread, Live

\* One step of the run's own thread.
LEMMA RunInv ==
    ASSUME LeaseInv, NEW g \in Holder, Run(g)
    PROVE  LeaseInv'
<1> USE LeaseAssumption
    DEF LeaseInv, TypeOK, Phase, Thread, Live, KeyHeld, UntilBound, GrantBound,
        ThreadBound, RenewBound, DeadlineBound
<1>1. CASE Acquire(g)
  BY <1>1 DEF Acquire, Owner
<1>2. CASE Start(g)
  BY <1>2 DEF Start
<1>3. CASE GuardFails(g)
  BY <1>3 DEF GuardFails
<1>4. CASE Stop(g)
  BY <1>4 DEF Stop
<1>5. CASE Join(g)
  BY <1>5 DEF Join
<1>6. CASE Release(g)
  BY <1>6 DEF Release, Owner
<1>7. CASE Crash(g)
  BY <1>7 DEF Crash
<1>8. QED
  BY <1>1, <1>2, <1>3, <1>4, <1>5, <1>6, <1>7 DEF Run

\* One step of the renewal thread, or of Redis on its behalf.
LEMMA RenewalInv ==
    ASSUME LeaseInv, NEW g \in Holder, Renewal(g)
    PROVE  LeaseInv'
<1> USE LeaseAssumption DEF LeaseInv, TypeOK, Phase, Thread
<1>1. CASE RenewStart(g)
  <2>1. TypeOK'
    <3>1. /\ started' \in [Holder -> Nat]
          /\ thread' \in [Holder -> Thread]
      BY <1>1 DEF RenewStart
    <3>2. lost' \in [Holder -> BOOLEAN]
      BY <1>1, Zenon DEF RenewStart
    <3>3. UNCHANGED <<now, key, expires, phase, granted, until, deadline,
                      waited>>
      BY <1>1 DEF RenewStart
    <3>4. QED
      BY <3>1, <3>2, <3>3
  <2>2. /\ KeyHeld' /\ UntilBound' /\ GrantBound'
        /\ ThreadBound' /\ DeadlineBound'
    BY <1>1 DEF RenewStart, KeyHeld, UntilBound, GrantBound, ThreadBound,
                DeadlineBound
  <2>3. RenewBound'
    BY <1>1 DEF RenewStart, RenewBound
  <2>4. QED
    BY <2>1, <2>2, <2>3
<1>2. CASE RenewExec(g)
  <2>1. TypeOK'
    <3>1. /\ thread' \in [Holder -> Thread]
          /\ expires' \in Nat
          /\ until' \in [Holder -> Nat]
      BY <1>2 DEF RenewExec
    <3>2. UNCHANGED <<now, key, phase, granted, deadline, lost, waited,
                      started>>
      BY <1>2 DEF RenewExec
    <3>3. QED
      BY <3>1, <3>2
  <2>2. KeyHeld'
    BY <1>2 DEF RenewExec, Owner, KeyHeld
  <2>3. UntilBound' /\ GrantBound' /\ ThreadBound' /\ DeadlineBound'
    BY <1>2 DEF RenewExec, UntilBound, GrantBound, ThreadBound,
                DeadlineBound
  <2>4. RenewBound'
    BY <1>2 DEF RenewExec, UntilBound, RenewBound
  <2>5. QED
    BY <2>1, <2>2, <2>3, <2>4
<1> USE DEF Live, KeyHeld, UntilBound, GrantBound, ThreadBound, RenewBound,
            DeadlineBound
<1>3. CASE RenewError(g)
  BY <1>3 DEF RenewError
<1>4. CASE RenewTooLate(g)
  BY <1>4 DEF RenewTooLate
<1>5. CASE RenewConfirm(g)
  BY <1>5 DEF RenewConfirm
<1>6. CASE RenewCommit(g)
  BY <1>6 DEF RenewCommit
<1>7. QED
  BY <1>1, <1>2, <1>3, <1>4, <1>5, <1>6 DEF Renewal

\* The passing of time: an answer to SET is not overdue.
LEMMA TickInv ==
    ASSUME LeaseInv, Tick
    PROVE  LeaseInv'
BY LeaseAssumption
DEF LeaseInv, TypeOK, Phase, Thread, Tick, Prompt, local, KeyHeld, UntilBound,
    GrantBound, ThreadBound, RenewBound, DeadlineBound, Live

\* The inductive invariant holds in every behaviour.
THEOREM LeaseInvariant == Spec => []LeaseInv
<1>1. LeaseInv /\ UNCHANGED vars => LeaseInv'
  BY DEF vars, LeaseInv, TypeOK, KeyHeld, UntilBound, GrantBound, ThreadBound,
         RenewBound, DeadlineBound
<1>2. LeaseInv /\ [Next]_vars => LeaseInv'
  BY <1>1, RunInv, RenewalInv, TickInv DEF Next
<1>3. QED
  BY InitInv, <1>2, PTL DEF Spec

-----------------------------------------------------------------------------
\* Every variable keeps its type (lease.py, redis.py: lock key).
THEOREM LeaseTypes == Spec => []TypeOK
BY LeaseInvariant, PTL DEF LeaseInv

\* The guard of lease.py lags behind Redis by at most the delay between SET
\* and the construction of the lease, and whatever the stalls of the threads.
THEOREM LagIsBounded == Spec => []GuardLag
<1>1. LeaseInv => GuardLag
  BY LeaseAssumption
  DEF LeaseInv, GuardLag, Guarded, DeadlineBound, TypeOK
<1>2. QED
  BY <1>1, LeaseInvariant, PTL

\* A passing guard means that Redis still holds this run's token, from the
\* first renewal on; before it, the guard is behind by the delay of RunLease()
\* at most (lease.py, assert_run_lock).
THEOREM GuardIsSound == Spec => []GuardMeansOwnership
<1>1. LeaseInv => GuardMeansOwnership
  BY LeaseAssumption
  DEF LeaseInv, GuardMeansOwnership, Guarded, Lagging, Owner, KeyHeld,
      DeadlineBound, TypeOK, Live
<1>2. QED
  BY <1>1, LeaseInvariant, PTL

\* No step but expiry and the run's own release, after its renewal thread has
\* ended, takes a token away; only its SET puts one there (the compare scripts
\* of redis.py, close of lease.py).
THEOREM HandsChangeByTheRules == Spec => LockChangesHands
<1> DEFINE ByTheRules ==
        \A h \in Holder :
            /\ (Owner = h /\ Owner' # h) =>
                  (now' >= expires \/ phase[h] = "closed")
            /\ (Owner # h /\ Owner' = h) => phase[h] = "idle"
<1>1. ASSUME TypeOK, [Next]_vars PROVE ByTheRules
  <2> USE LeaseAssumption DEF Owner
  <2>1. CASE UNCHANGED <<now, key, expires>>
    BY <2>1
  <2>2. CASE Tick
    BY <1>1, <2>2 DEF Tick, TypeOK
  <2>3. ASSUME NEW g \in Holder, Acquire(g) PROVE ByTheRules
    BY <1>1, <2>3 DEF Acquire, TypeOK
  <2>4. ASSUME NEW g \in Holder, Release(g) PROVE ByTheRules
    BY <1>1, <2>4 DEF Release, TypeOK
  <2>5. ASSUME NEW g \in Holder, RenewExec(g) PROVE ByTheRules
    BY <1>1, <2>5 DEF RenewExec, TypeOK
  <2>6. QED
    BY <1>1, <2>1, <2>2, <2>3, <2>4, <2>5
    DEF Next, Run, Renewal, vars, local, Start, GuardFails, Stop, Join, Crash,
        RenewStart, RenewError, RenewTooLate, RenewConfirm, RenewCommit
<1>2. LeaseInv => TypeOK
  BY DEF LeaseInv
<1>3. QED
  BY <1>1, <1>2, LeaseInvariant, PTL DEF Spec, LockChangesHands

-----------------------------------------------------------------------------
(* A renewal every third of the time to live keeps the lock.               *)

\* So long the answers may take: the wait of a third, one late start of the
\* renewal and one late answer fit into the time that an earlier late answer,
\* or the delay of RunLease(), has left of the time to live.
Margin == /\ 2 * TTL > 9 * MaxStall + 2
          /\ 2 * TTL > 3 * AcquireDelay + 6 * MaxStall + 2

\* The thread waits: not much longer than a third of the time to live, and
\* both deadlines, the one of Redis and the local one, leave the rest.
Rested(h) ==
    /\ 3 * (now - waited[h]) <= TTL + 3 * MaxStall + 2
    /\ deadline[h] + MaxStall >= waited[h] + TTL
    /\ \/ until[h] + MaxStall >= waited[h] + TTL
       \/ until[h] + AcquireDelay >= waited[h] + TTL

\* It renews: the answer comes before either deadline.
InTime(h) ==
    /\ now <= started[h] + MaxStall
    /\ started[h] + MaxStall < deadline[h]
    /\ thread[h] = "asking" => started[h] + MaxStall < until[h]

\* A lease that runs, and whose thread has not failed, is in force.
Timely == \A h \in Holder :
    /\ phase[h] \in {"idle", "granted"} => ~lost[h]
    /\ phase[h] = "running" =>
        /\ lost[h] => thread[h] = "failed"
        /\ thread[h] \in {"waiting", "asking", "extended", "confirmed",
                          "failed"}
        /\ thread[h] = "waiting" => Rested(h)
        /\ thread[h] \in {"asking", "extended", "confirmed"} => InTime(h)

\* The steps of the run's own thread: it starts with both deadlines in order.
LEMMA RunTimely ==
    ASSUME Margin, LeaseInv, Timely, NEW g \in Holder, Run(g)
    PROVE  Timely'
<1> USE LeaseAssumption DEF LeaseInv, TypeOK, Phase, Thread, Timely, Rested,
        InTime
<1>1. CASE Acquire(g)
  BY <1>1 DEF Acquire
<1>2. CASE Start(g)
  <2>1. /\ thread[g] = "waiting"
        /\ until[g] = granted[g] + TTL
        /\ now <= granted[g] + AcquireDelay
    BY <1>2 DEF Start, GrantBound, ThreadBound
  <2>2. ~lost[g]
    BY <1>2 DEF Start
  <2>3. QED
    BY <1>2, <2>1, <2>2 DEF Start
<1>3. CASE GuardFails(g)
  BY <1>3 DEF GuardFails, Margin
<1>4. CASE Stop(g)
  BY <1>4 DEF Stop
<1>5. CASE Join(g)
  BY <1>5 DEF Join
<1>6. CASE Release(g)
  BY <1>6 DEF Release
<1>7. CASE Crash(g)
  BY <1>7 DEF Crash
<1>8. QED
  BY <1>1, <1>2, <1>3, <1>4, <1>5, <1>6, <1>7 DEF Run

\* The steps of the renewal thread: its answers are in time.
LEMMA RenewalTimely ==
    ASSUME Margin, LeaseInv, Timely, NEW g \in Holder, Renewal(g)
    PROVE  Timely'
<1> USE LeaseAssumption DEF LeaseInv, TypeOK, Phase, Thread, Timely, Rested,
        InTime
<1>1. CASE RenewStart(g)
  <2>1. /\ ~lost[g]
        /\ now < deadline[g]
        /\ now + MaxStall < deadline[g]
        /\ now + MaxStall < until[g]
    BY <1>1 DEF RenewStart, Margin
  <2>2. /\ started' = [started EXCEPT ![g] = now]
        /\ thread' = [thread EXCEPT ![g] = "asking"]
        /\ UNCHANGED <<now, phase, until, deadline, lost, waited>>
    BY <1>1, <2>1 DEF RenewStart
  <2>3. QED
    BY <2>1, <2>2
<1>2. CASE RenewExec(g)
  <2>1. phase[g] = "running" => Owner = g
    BY <1>2 DEF RenewExec, Owner, KeyHeld, Live
  <2>2. QED
    BY <1>2, <2>1 DEF RenewExec
<1>3. CASE RenewError(g)
  BY <1>3 DEF RenewError
<1>4. CASE RenewTooLate(g)
  BY <1>4 DEF RenewTooLate
<1>5. CASE RenewConfirm(g)
  BY <1>5 DEF RenewConfirm
<1>6. CASE RenewCommit(g)
  BY <1>6 DEF RenewCommit, RenewBound
<1>7. QED
  BY <1>1, <1>2, <1>3, <1>4, <1>5, <1>6 DEF Renewal

\* Time passes no thread whose answer is due.
LEMMA TickTimely ==
    ASSUME LeaseInv, Timely, Tick
    PROVE  Timely'
BY LeaseAssumption
DEF LeaseInv, TypeOK, Phase, Thread, Tick, Prompt, local, Timely, Rested,
    InTime

\* A lease is given up only if a renewal call raised, as long as the delays are
\* small against the time to live (Margin): the wait of a third that lease.py
\* chooses leaves the room for them.
THEOREM LeaseLasts ==
    ASSUME Margin
    PROVE  Spec => []KeepsLock
<1>1. Init => Timely
  BY DEF Init, Timely
<1>2. LeaseInv /\ Timely /\ [Next]_vars => Timely'
  <2>1. ASSUME Timely, UNCHANGED vars PROVE Timely'
    BY <2>1 DEF Timely, Rested, InTime, vars
  <2>2. QED
    BY <2>1, RunTimely, RenewalTimely, TickTimely DEF Next
<1>3. Timely => KeepsLock
  BY DEF Timely, KeepsLock
<1>4. QED
  BY <1>1, <1>2, <1>3, LeaseInvariant, PTL DEF Spec
=============================================================================
