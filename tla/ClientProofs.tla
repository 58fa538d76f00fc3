---------------------------- MODULE ClientProofs ----------------------------
(* What the client guarantees for every number of attempts, every set of   *)
(* callers and every time to live.                                         *)
EXTENDS Client, LeaseProofs

\* The attempts that have left the process: executed, given up, under way.
Out(c) == landed[c] + stray[c] + (IF pc[c] = "sent" THEN 1 ELSE 0)

\* No attempt goes out twice, and there are no more than Attempts(c).
Counted == \A c \in Caller :
    /\ attempt[c] <= Attempts(c)
    /\ pc[c] # "idle" => attempt[c] >= 1
    /\ Out(c) <= attempt[c]
    /\ pc[c] \in {"asked", "token", "ready", "send"} => Out(c) < attempt[c]
    /\ pc[c] = "landed" => landed[c] >= 1

\* What the caller of a request that is not repeated knows of it.
Known == \A c \in Caller :
    /\ pc[c] = "idle" <=> told[c] # "open"
    /\ told[c] = "none" => landed[c] = 0 /\ stray[c] = 0
    /\ told[c] = "ok" => landed[c] >= 1
    /\ told[c] = "refused" /\ ~repeat[c] => landed[c] = 0 /\ stray[c] = 0

ClientInv == LeaseInv /\ ClientTypeOK /\ Counted /\ Known

\* No request has been made at the start.
LEMMA ClientInitInv == ClientInit => ClientInv
BY ClientAssumption, InitInv
DEF ClientInit, ClientInv, ClientTypeOK, Counted, Known, Out, Attempts, Place

-----------------------------------------------------------------------------
\* A request leaves the lock alone, except that a guard that raises marks the
\* lease, as GuardFails does.
LEMMA RequestingLeavesLease ==
    ASSUME TypeOK, NEW c \in Caller, Requesting(c)
    PROVE  [Next]_vars
<1>1. CASE Stopped(c)
  <2>1. c \in Holder
    BY ClientAssumption
  <2>2. CASE lost[c]
    BY <1>1, <2>1, <2>2 DEF Stopped, vars, TypeOK
  <2>3. CASE ~lost[c]
    <3>1. now >= deadline[c]
      BY <1>1, <2>1, <2>3 DEF Stopped, Guarded, TypeOK
    <3>2. GuardFails(c)
      BY <1>1, <2>3, <3>1 DEF Stopped, GuardFails
    <3>3. QED
      BY <2>1, <3>2 DEF Next, Run
  <2>4. QED
    BY <2>2, <2>3
<1>2. CASE ~Stopped(c)
  BY <1>2
  DEF Requesting, Call, Pass, Token, TokenFails, Send, Land, Ok, Refused,
      Unclear
<1>3. QED
  BY <1>1, <1>2

\* Every step of the client is a step of the lease, or none.
LEMMA StepLeavesLease ==
    ASSUME TypeOK, [ClientNext]_cvars
    PROVE  [Next]_vars
<1>1. CASE \E c \in Caller : Requesting(c)
  BY <1>1, RequestingLeavesLease
<1>2. CASE \E h \in Holder : Locking(h) /\ UNCHANGED call
  BY <1>2 DEF Locking, Next, Run
<1>3. CASE Tick
  BY <1>3 DEF Next
<1>4. CASE UNCHANGED cvars
  BY <1>4 DEF cvars
<1>5. QED
  BY <1>1, <1>2, <1>3, <1>4 DEF ClientNext

\* A step of the lock keeps the invariant of LeaseProofs, restated here
\* for a step alone.
LEMMA LeaseInvStep ==
    ASSUME LeaseInv, [Next]_vars
    PROVE  LeaseInv'
<1>1. CASE UNCHANGED vars
  BY <1>1
  DEF vars, LeaseInv, TypeOK, KeyHeld, UntilBound, GrantBound, ThreadBound,
      RenewBound, DeadlineBound
<1>2. QED
  BY <1>1, RunInv, RenewalInv, TickInv DEF Next

-----------------------------------------------------------------------------
\* The books of one caller after a step that changes them.
LEMMA FailInv ==
    ASSUME ClientTypeOK, Counted, Known, NEW c \in Caller, NEW e \in Error,
           pc[c] \in {"token", "sent", "landed"}, Fail(c, e),
           stray' = stray \/ stray' = [stray EXCEPT ![c] = @ + 1],
           stray' # stray => pc[c] = "sent",
           UNCHANGED <<repeat, landed, late>>,
           pc[c] = "landed" => e \in {"fault", "garbled"},
           stray' # stray => e \in {"fault", "garbled"}
    PROVE  ClientTypeOK' /\ Counted' /\ Known'
<1> USE ClientAssumption
<1>1. /\ Verdict(e) \in {"refused", "unknown"}
      /\ e \in {"fault", "garbled"} => Verdict(e) = "unknown"
  BY DEF Verdict
<1>2. Attempts(c) \in 1..MaxRetries /\ (~repeat[c] => Attempts(c) = 1)
  BY DEF Attempts
<1>3. /\ pc[c] \in Place /\ attempt[c] \in Nat /\ stray[c] \in Nat
      /\ landed[c] \in Nat /\ MaxRetries \in Nat
  BY DEF ClientTypeOK
<1>4. /\ attempt[c] <= Attempts(c) /\ attempt[c] >= 1
      /\ Out(c) <= attempt[c]
      /\ pc[c] = "token" => Out(c) < attempt[c]
      /\ Out(c) = landed[c] + stray[c] + (IF pc[c] = "sent" THEN 1 ELSE 0)
  BY DEF Counted, Out
<1>5. stray'[c] \in Nat /\ landed[c] + stray'[c] <= Out(c)
  BY <1>3, <1>4 DEF ClientTypeOK
<1>6. CASE Retried(e) /\ attempt[c] < Attempts(c)
  <2>1. /\ pc' = [pc EXCEPT ![c] = "token"]
        /\ attempt' = [attempt EXCEPT ![c] = @ + 1]
        /\ UNCHANGED told
    BY <1>6 DEF Fail
  <2>2. ClientTypeOK'
    BY <1>2, <1>3, <1>4, <1>5, <1>6, <2>1 DEF ClientTypeOK, Place
  <2>3. Counted'
    BY <1>2, <1>3, <1>4, <1>5, <1>6, <2>1
    DEF ClientTypeOK, Counted, Out, Attempts
  <2>4. Known'
    BY <1>2, <1>3, <1>4, <1>5, <1>6, <2>1 DEF ClientTypeOK, Known
  <2>5. QED
    BY <2>2, <2>3, <2>4
<1>7. CASE ~(Retried(e) /\ attempt[c] < Attempts(c))
  <2>1. /\ pc' = [pc EXCEPT ![c] = "idle"]
        /\ told' = [told EXCEPT ![c] = Verdict(e)]
        /\ UNCHANGED attempt
    BY <1>7 DEF Fail
  <2>2. ClientTypeOK'
    BY <1>1, <1>2, <1>3, <1>4, <1>5, <2>1 DEF ClientTypeOK, Place
  <2>3. Counted'
    BY <1>2, <1>3, <1>4, <1>5, <2>1
    DEF ClientTypeOK, Counted, Out, Attempts
  <2>4. ~repeat[c] /\ Verdict(e) = "refused" => landed[c] = 0 /\ stray'[c] = 0
    BY <1>1, <1>2, <1>3, <1>4, <1>5 DEF Place, Error
  <2>5. Known'
    BY <1>1, <1>3, <2>1, <2>4 DEF ClientTypeOK, Known
  <2>6. QED
    BY <2>2, <2>3, <2>5
<1>8. QED
  BY <1>6, <1>7

\* A late request that lands moves from those under way to those landed.
LEMMA LandInv ==
    ASSUME ClientTypeOK, Counted, Known, NEW c \in Caller, Land(c)
    PROVE  ClientTypeOK' /\ Counted' /\ Known'
<1> USE ClientAssumption
<1>1. /\ pc[c] \in Place /\ attempt[c] \in Nat /\ stray[c] \in Nat
      /\ landed[c] \in Nat /\ MaxRetries \in Nat
      /\ attempt[c] <= MaxRetries
  BY DEF ClientTypeOK
<1>2. /\ Out(c) <= attempt[c]
      /\ Out(c) = landed[c] + stray[c] + (IF pc[c] = "sent" THEN 1 ELSE 0)
  BY DEF Counted, Out
<1>3. CASE pc[c] = "sent" /\ pc' = [pc EXCEPT ![c] = "landed"]
           /\ UNCHANGED stray
  <2> USE <1>3 DEF Land
  <2>1. ClientTypeOK'
    BY <1>1, <1>2 DEF ClientTypeOK, Place
  <2>2. Counted'
    BY <1>1, <1>2 DEF ClientTypeOK, Counted, Out, Attempts
  <2>3. Known'
    BY <1>1 DEF ClientTypeOK, Known
  <2>4. QED
    BY <2>1, <2>2, <2>3
<1>4. CASE stray[c] > 0 /\ stray' = [stray EXCEPT ![c] = @ - 1]
           /\ UNCHANGED pc
  <2> USE <1>4 DEF Land
  <2>1. ClientTypeOK'
    BY <1>1, <1>2 DEF ClientTypeOK, Place
  <2>2. Counted'
    BY <1>1, <1>2 DEF ClientTypeOK, Counted, Out, Attempts
  <2>3. Known'
    BY <1>1 DEF ClientTypeOK, Known
  <2>4. QED
    BY <2>1, <2>2, <2>3
<1>5. QED
  BY <1>3, <1>4 DEF Land

\* One step of a request keeps its books.
LEMMA RequestingInv ==
    ASSUME ClientTypeOK, Counted, Known, NEW c \in Caller, Requesting(c)
    PROVE  ClientTypeOK' /\ Counted' /\ Known'
<1> USE ClientAssumption
    DEF ClientTypeOK, Counted, Known, Out, Attempts, Place
<1>1. CASE \E r \in BOOLEAN : Call(c, r)
  BY <1>1 DEF Call
<1>2. CASE Pass(c)
  BY <1>2 DEF Pass
<1>3. CASE Stopped(c)
  BY <1>3 DEF Stopped
<1>4. CASE Token(c)
  BY <1>4 DEF Token
<1>5. CASE TokenFails(c)
  BY <1>5, FailInv DEF TokenFails
<1>6. CASE Send(c)
  BY <1>6 DEF Send
<1>7. CASE Land(c)
  BY <1>7, LandInv
<1>8. CASE Ok(c)
  BY <1>8 DEF Ok
<1>9. CASE Refused(c)
  BY <1>9, FailInv DEF Refused, Error
<1>10. CASE Unclear(c)
  <2>1. PICK e \in {"fault", "garbled"} : Fail(c, e)
    BY <1>10 DEF Unclear
  <2>2. /\ stray' = stray \/ stray' = [stray EXCEPT ![c] = @ + 1]
        /\ stray' # stray => pc[c] = "sent"
    BY <1>10 DEF Unclear
  <2>3. QED
    <3> HIDE DEF ClientTypeOK, Counted, Known, Out, Attempts, Place
    <3>1. /\ pc[c] \in {"token", "sent", "landed"} /\ e \in Error
          /\ UNCHANGED <<repeat, landed, late>>
      BY <1>10, <2>1 DEF Unclear, Error
    <3>2. QED
      BY <2>1, <2>2, <3>1, FailInv
<1>11. QED
  BY <1>1, <1>2, <1>3, <1>4, <1>5, <1>6, <1>7, <1>8, <1>9, <1>10
  DEF Requesting

\* Every step keeps the invariant of the client.
LEMMA ClientInvStep ==
    ASSUME ClientInv, [ClientNext]_cvars
    PROVE  ClientInv'
<1>1. LeaseInv'
  BY StepLeavesLease, LeaseInvStep DEF ClientInv, LeaseInv
<1>2. CASE \E c \in Caller : Requesting(c)
  BY <1>1, <1>2, RequestingInv DEF ClientInv
<1>3. CASE UNCHANGED call
  BY <1>1, <1>3
  DEF ClientInv, call, ClientTypeOK, Counted, Known, Out, Attempts
<1>4. QED
  BY <1>2, <1>3 DEF ClientNext, cvars

\* The inductive invariant of requests made under the lock.
THEOREM ClientInvariant == ClientSpec => []ClientInv
BY ClientInitInv, ClientInvStep, PTL DEF ClientSpec

-----------------------------------------------------------------------------
\* The counts of a request stay within its attempts: a message card is sent
\* at most max_retries times, anything that is not repeated once (_request).
THEOREM AttemptsAreBounded == ClientSpec => []ClientTypeOK
BY ClientInvariant, PTL DEF ClientInv

\* A run that makes calls uses its lock as module Lease has it, so what is
\* proved of the lease holds under them.
THEOREM ClientKeepsLease == ClientSpec => Spec
<1>1. ClientInit => Init
  BY DEF ClientInit
<1>2. ClientInv /\ [ClientNext]_cvars => [Next]_vars
  BY StepLeavesLease DEF ClientInv, LeaseInv
<1>3. QED
  BY <1>1, <1>2, ClientInvariant, PTL DEF ClientSpec, Spec

-----------------------------------------------------------------------------
\* A run that lost its token, by expiry or by release, never holds it again,
\* and a lag that is over does not return.
LEMMA TokenIsGone ==
    ASSUME TypeOK, NEW c \in Holder, phase[c] # "idle", Owner # c,
           [Next]_vars
    PROVE  /\ phase'[c] # "idle" /\ Owner' # c
           /\ ~Lagging(c) => ~Lagging(c)'
<1> USE LeaseAssumption DEF TypeOK, Owner, Lagging
<1>1. CASE Tick
  BY <1>1 DEF Tick, local
<1>2. ASSUME NEW h \in Holder, Run(h)
      PROVE  /\ phase'[c] # "idle" /\ Owner' # c
             /\ ~Lagging(c) => ~Lagging(c)'
  BY <1>2
  DEF Run, Acquire, Start, GuardFails, Stop, Join, Release, Crash
<1>3. ASSUME NEW h \in Holder, Renewal(h)
      PROVE  /\ phase'[c] # "idle" /\ Owner' # c
             /\ ~Lagging(c) => ~Lagging(c)'
  BY <1>3
  DEF Renewal, RenewStart, RenewExec, RenewError, RenewTooLate, RenewConfirm,
      RenewCommit
<1>4. CASE UNCHANGED vars
  BY <1>4 DEF vars
<1>5. QED
  BY <1>1, <1>2, <1>3, <1>4 DEF Next

\* After a late send the lock and the lag are over and no request is about to
\* leave.
LateInv == \A c \in Caller :
    /\ told[c] # "none" => phase[c] # "idle"
    /\ late[c] \in 0..1
    /\ late[c] = 1 => /\ phase[c] # "idle" /\ pc[c] # "send"
                      /\ Owner # c /\ ~Lagging(c)

\* A late request is the only one of its run, and its run never gets the
\* lock back.
LEMMA LateStep ==
    ASSUME ClientInv, LateInv, [ClientNext]_cvars
    PROVE  LateInv'
<1> USE ClientAssumption
<1>1. TypeOK /\ ClientTypeOK /\ [Next]_vars
  BY StepLeavesLease DEF ClientInv, LeaseInv
<1>2. GuardMeansOwnership
  BY LeaseAssumption
  DEF ClientInv, LeaseInv, GuardMeansOwnership, Guarded, Lagging, Owner,
      KeyHeld, DeadlineBound, TypeOK, Live
<1>3. \A c \in Caller :
          /\ phase[c] # "idle" => phase'[c] # "idle"
          /\ phase[c] # "idle" /\ Owner # c => Owner' # c
          /\ phase[c] # "idle" /\ Owner # c /\ ~Lagging(c) => ~Lagging(c)'
  <2>1. ASSUME NEW c \in Holder, phase[c] # "idle"
        PROVE  phase'[c] # "idle"
    BY <1>1, <2>1
    DEF TypeOK, Next, vars, local, Tick, Run, Acquire, Start, GuardFails, Stop,
        Join, Release, Crash, Renewal, RenewStart, RenewExec, RenewError,
        RenewTooLate, RenewConfirm, RenewCommit
  <2>2. QED
    BY <1>1, <2>1, TokenIsGone
<1>4. CASE UNCHANGED call
  BY <1>3, <1>4 DEF call, LateInv
<1>5. ASSUME NEW g \in Caller, Requesting(g)
      PROVE  LateInv'
  <2> USE DEF LateInv, ClientTypeOK, Place
  <2>1. \A c \in Caller : c # g => /\ pc'[c] = pc[c]
                                    /\ late'[c] = late[c]
                                    /\ told'[c] = told[c]
    BY <1>1, <1>5
    DEF Requesting, Call, Pass, Stopped, Token, TokenFails, Fail, Send, Land,
        Ok, Refused, Unclear
  <2>2. phase[g] # "idle"
    BY <1>1, <1>5
    DEF ClientInv, Known, LateInv, Requesting, Call, Pass, Stopped, Token,
        TokenFails, Send, Land, Ok, Refused, Unclear
  <2>3. CASE Send(g)
    <3>1. late'[g] \in 0..1 /\ pc'[g] = "sent"
      BY <1>1, <2>3 DEF Send
    <3>2. late'[g] = 1 => Owner # g /\ ~Lagging(g)
      BY <1>1, <2>3 DEF Send
    <3>3. QED
      BY <1>3, <2>1, <2>2, <3>1, <3>2
  <2>4. CASE Pass(g)
    <3>1. Owner = g \/ Lagging(g)
      BY <1>2, <2>4 DEF Pass, GuardMeansOwnership
    <3>2. late'[g] = 0
      BY <1>1, <2>4, <3>1 DEF Pass
    <3>3. QED
      BY <1>3, <2>1, <2>2, <3>2
  <2>5. CASE ~Send(g) /\ ~Pass(g)
    <3>1. late'[g] = late[g] /\ (pc'[g] = "send" => pc[g] = "send")
      BY <1>1, <1>5, <2>5
      DEF Requesting, Call, Stopped, Token, TokenFails, Fail, Land, Ok,
          Refused, Unclear
    <3>2. QED
      BY <1>3, <2>1, <2>2, <3>1
  <2>6. QED
    BY <2>3, <2>4, <2>5
<1>6. QED
  BY <1>4, <1>5 DEF ClientNext, cvars

\* A run sends at most one request after its lock, and the lag of its guard,
\* are over, however long it stalls between the guard and the request
\* (_request, assert_run_lock).
THEOREM OneSendIsLate == ClientSpec => []OneLateSend
<1>1. ClientInit => LateInv
  BY DEF ClientInit, LateInv
<1>2. ClientInv /\ LateInv /\ [ClientNext]_cvars => LateInv'
  BY LateStep
<1>3. LateInv => OneLateSend
  BY DEF LateInv, OneLateSend
<1>4. QED
  BY <1>1, <1>2, <1>3, ClientInvariant, PTL DEF ClientSpec

-----------------------------------------------------------------------------
\* A step of a request that is not repeated is a step of Request.
LEMMA StepIsPromised ==
    ASSUME ClientInv, NEW g \in Caller, Requesting(g)
    PROVE  Promise(g)!Next \/ UNCHANGED Promise(g)!vars
<1> USE DEF Promise!Next, Promise!vars, Promise!Ask, Promise!Land,
        Promise!Answer, ClientInv, ClientTypeOK, Place
<1>1. /\ attempt[g] \in Nat /\ landed[g] \in Nat /\ stray[g] \in Nat
      /\ ~repeat[g] => /\ attempt[g] <= 1
                       /\ Out(g) <= 1
                       /\ pc[g] = "token" => attempt[g] = 1
                       /\ pc[g] \in {"sent", "landed"} => attempt[g] = 1
                       /\ pc[g] \in {"asked", "token", "ready", "send"} =>
                             Out(g) = 0
      /\ Out(g) = landed[g] + stray[g] + (IF pc[g] = "sent" THEN 1 ELSE 0)
  BY DEF Counted, Out, Attempts
<1>2. /\ pc[g] = "idle" <=> told[g] # "open"
      /\ ~repeat[g] => (told[g] = "refused" => landed[g] = 0 /\ stray[g] = 0)
      /\ told[g] = "ok" => landed[g] >= 1
      /\ told[g] = "none" => landed[g] = 0 /\ stray[g] = 0
      /\ pc[g] = "landed" => landed[g] >= 1
  BY DEF Counted, Known
<1>3. CASE \E r \in BOOLEAN : Call(g, r)
  BY <1>2, <1>3 DEF Call
<1>4. CASE Pass(g) \/ Token(g) \/ Send(g)
  BY <1>4 DEF Pass, Token, Send
<1>5. CASE Stopped(g)
  BY <1>1, <1>2, <1>5 DEF Stopped
<1>6. CASE TokenFails(g)
  BY <1>1, <1>2, <1>6 DEF TokenFails, Fail, Verdict, Attempts
<1>7. CASE Land(g)
  BY <1>1, <1>2, <1>7 DEF Land
<1>8. CASE Ok(g)
  BY <1>1, <1>2, <1>8 DEF Ok
<1>9. CASE Refused(g)
  BY <1>1, <1>2, <1>9 DEF Refused, Fail, Verdict, Attempts
<1>10. CASE Unclear(g)
  BY <1>1, <1>2, <1>10 DEF Unclear, Fail, Verdict, Attempts
<1>11. QED
  BY <1>3, <1>4, <1>5, <1>6, <1>7, <1>8, <1>9, <1>10 DEF Requesting

\* copy_spreadsheet may call a copy rejected, and start another, because a
\* request that is not repeated keeps the promise of module Request.
THEOREM ClientPromises == ClientSpec => ImplementsRequest
<1>1. ClientInit => \A c \in Caller : Promise(c)!Init
  BY DEF ClientInit, Promise!Init
<1>2. ASSUME ClientInv, [ClientNext]_cvars
      PROVE  [\A c \in Caller :
                 Promise(c)!Next \/ UNCHANGED Promise(c)!vars]_call
  <2>1. CASE UNCHANGED call
    BY <2>1
  <2>2. ASSUME NEW g \in Caller, Requesting(g), NEW c \in Caller, c # g
        PROVE  UNCHANGED Promise(c)!vars
    BY <1>2, <2>2
    DEF ClientInv, ClientTypeOK, Promise!vars, Requesting, Call, Pass, Stopped,
        Token, TokenFails, Fail, Send, Land, Ok, Refused, Unclear
  <2>3. CASE \E g \in Caller : Requesting(g)
    BY <1>2, <2>2, <2>3, StepIsPromised
  <2>4. QED
    BY <1>2, <2>1, <2>3 DEF ClientNext, cvars
<1>3. QED
  BY <1>1, <1>2, ClientInvariant, PTL DEF ClientSpec, ImplementsRequest
=============================================================================
