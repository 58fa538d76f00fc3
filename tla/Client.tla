------------------------------- MODULE Client -------------------------------
(***************************************************************************)
(* One request of the Feishu client (infrastructure/feishu/client.py,      *)
(* _request): the guard before the loop, the access token, the guard       *)
(* again, the request itself, and the attempts that follow an error.  The  *)
(* caller is the thread of a run that holds the lock of module Lease; the  *)
(* token request is not guarded, and nothing keeps the lease alive between *)
(* the guard and the moment the request leaves the process.                *)
(*                                                                         *)
(* A request whose answer is lost may have been executed, and may still be *)
(* executed later.  Reads and message cards are repeated (retry=True);     *)
(* copies, title changes, exports and sheet writes are not (retry=False).  *)
(***************************************************************************)
EXTENDS Lease

CONSTANTS Caller,     \* the holders whose requests are followed
          MaxRetries  \* config.max_retries

ASSUME ClientAssumption ==
    /\ Caller \subseteq Holder
    /\ MaxRetries \in Nat \ {0}

VARIABLES pc,       \* where _request is
          repeat,   \* its parameter retry
          attempt,  \* its local variable attempt
          stray,    \* attempts given up that Feishu may still execute
          landed,   \* attempts of this request that Feishu has executed
          told,     \* how this request ended for its caller
          late      \* requests sent after the lock and the lag (history)

call == <<pc, repeat, attempt, stray, landed, told, late>>
cvars == <<vars, call>>

\* "sent" and "landed": the request is on its way, or executed, and the
\* answer is awaited.
Place == {"idle", "asked", "token", "ready", "send", "sent", "landed"}

\* What an answer, or its absence, is: too many requests (429, 99991400,
\* 99991401), any other refusal (4xx, a code above 0), a server or transport
\* error, an answer that cannot be read.
Error == {"limit", "denied", "fault", "garbled"}

\* Every count is within the attempts of one request.
ClientTypeOK ==
    /\ pc \in [Caller -> Place]
    /\ repeat \in [Caller -> BOOLEAN]
    /\ attempt \in [Caller -> 0..MaxRetries]
    /\ stray \in [Caller -> 0..MaxRetries]
    /\ landed \in [Caller -> 0..MaxRetries]
    /\ told \in [Caller -> {"none", "open", "ok", "refused", "unknown"}]
    /\ late \in [Caller -> Nat]

ClientInit ==
    /\ Init
    /\ pc = [c \in Caller |-> "idle"]
    /\ repeat = [c \in Caller |-> FALSE]
    /\ attempt = [c \in Caller |-> 0]
    /\ stray = [c \in Caller |-> 0]
    /\ landed = [c \in Caller |-> 0]
    /\ told = [c \in Caller |-> "none"]
    /\ late = [c \in Caller |-> 0]

Attempts(c) == IF repeat[c] THEN MaxRetries ELSE 1

\* _should_retry: a response with one of these is asked for again, as is one
\* that never came.
Retried(e) == e \in {"limit", "fault"}

\* Mutant: every error of Feishu counts as a refusal.
MutantVerdict(e) == IF e = "garbled" THEN "unknown" ELSE "refused"
\* copy_spreadsheet: 4xx but 408 and 499, or a code above 0, is a refusal;
\* after anything else the outcome is not known.
Verdict(e) == IF e \in {"limit", "denied"} THEN "refused" ELSE "unknown"

-----------------------------------------------------------------------------
\* The run's thread makes one call after the other.
Call(c, r) ==
    /\ phase[c] = "running"
    /\ pc[c] = "idle"
    /\ pc' = [pc EXCEPT ![c] = "asked"]
    /\ repeat' = [repeat EXCEPT ![c] = r]
    /\ attempt' = [attempt EXCEPT ![c] = 1]
    /\ stray' = [stray EXCEPT ![c] = 0]
    /\ landed' = [landed EXCEPT ![c] = 0]
    /\ told' = [told EXCEPT ![c] = "open"]
    /\ UNCHANGED <<vars, late>>

\* Mutant: only the guard before the loop is there.
MutantPass(c) ==
    /\ phase[c] = "running"
    /\ \/ pc[c] = "asked" /\ Guarded(c) /\ pc' = [pc EXCEPT ![c] = "token"]
       \/ pc[c] = "ready" /\ pc' = [pc EXCEPT ![c] = "send"]
    /\ UNCHANGED <<vars, repeat, attempt, stray, landed, told, late>>

\* assert_run_lock passes, before the loop and after the token.
Pass(c) ==
    /\ phase[c] = "running"
    /\ Guarded(c)
    /\ \/ pc[c] = "asked" /\ pc' = [pc EXCEPT ![c] = "token"]
       \/ pc[c] = "ready" /\ pc' = [pc EXCEPT ![c] = "send"]
    /\ UNCHANGED <<vars, repeat, attempt, stray, landed, told, late>>

\* assert_run_lock raises: no attempt follows.
Stopped(c) ==
    /\ phase[c] = "running"
    /\ pc[c] \in {"asked", "ready"}
    /\ ~Guarded(c)
    /\ lost' = [lost EXCEPT ![c] = TRUE]
    /\ pc' = [pc EXCEPT ![c] = "idle"]
    /\ told' = [told EXCEPT ![c] = "unknown"]
    /\ UNCHANGED <<now, key, expires, phase, granted, until, deadline, thread,
                   waited, started, repeat, attempt, stray, landed, late>>

\* _get_access_token: the one it keeps, or another.
Token(c) ==
    /\ phase[c] = "running"
    /\ pc[c] = "token"
    /\ pc' = [pc EXCEPT ![c] = "ready"]
    /\ UNCHANGED <<vars, repeat, attempt, stray, landed, told, late>>

\* The end of an attempt that failed: sleep and try again, or raise.
Fail(c, e) ==
    IF Retried(e) /\ attempt[c] < Attempts(c)
    THEN /\ pc' = [pc EXCEPT ![c] = "token"]
         /\ attempt' = [attempt EXCEPT ![c] = @ + 1]
         /\ UNCHANGED told
    ELSE /\ pc' = [pc EXCEPT ![c] = "idle"]
         /\ told' = [told EXCEPT ![c] = Verdict(e)]
         /\ UNCHANGED attempt

\* No token: an error like that of any request, and nothing was sent.
TokenFails(c) ==
    /\ phase[c] = "running"
    /\ pc[c] = "token"
    /\ \E e \in Error : Fail(c, e)
    /\ UNCHANGED <<vars, repeat, stray, landed, late>>

\* The request leaves the process.
Send(c) ==
    /\ phase[c] = "running"
    /\ pc[c] = "send"
    /\ pc' = [pc EXCEPT ![c] = "sent"]
    /\ late' = [late EXCEPT ![c] = IF Owner = c \/ Lagging(c)
                                      THEN @ ELSE @ + 1]
    /\ UNCHANGED <<vars, repeat, attempt, stray, landed, told>>

\* Feishu executes it, also when the caller is dead or waits no longer.
Land(c) ==
    /\ \/ /\ pc[c] = "sent"
          /\ pc' = [pc EXCEPT ![c] = "landed"]
          /\ UNCHANGED stray
       \/ /\ stray[c] > 0
          /\ stray' = [stray EXCEPT ![c] = @ - 1]
          /\ UNCHANGED pc
    /\ landed' = [landed EXCEPT ![c] = @ + 1]
    /\ UNCHANGED <<vars, repeat, attempt, told, late>>

\* A good answer.
Ok(c) ==
    /\ phase[c] = "running"
    /\ pc[c] = "landed"
    /\ pc' = [pc EXCEPT ![c] = "idle"]
    /\ told' = [told EXCEPT ![c] = "ok"]
    /\ UNCHANGED <<vars, repeat, attempt, stray, landed, late>>

\* Feishu says that it did nothing.
Refused(c) ==
    /\ phase[c] = "running"
    /\ pc[c] = "sent"
    /\ \E e \in {"limit", "denied"} : Fail(c, e)
    /\ UNCHANGED <<vars, repeat, stray, landed, late>>

\* An error that says nothing about the request, or no answer in time.
Unclear(c) ==
    /\ phase[c] = "running"
    /\ pc[c] \in {"sent", "landed"}
    /\ \E e \in {"fault", "garbled"} : Fail(c, e)
    /\ stray' = [stray EXCEPT ![c] = IF pc[c] = "sent" THEN @ + 1 ELSE @]
    /\ UNCHANGED <<vars, repeat, landed, late>>

-----------------------------------------------------------------------------
Requesting(c) == \/ \E r \in BOOLEAN : Call(c, r)
                 \/ Pass(c) \/ Stopped(c) \/ Token(c) \/ TokenFails(c)
                 \/ Send(c) \/ Land(c) \/ Ok(c) \/ Refused(c) \/ Unclear(c)

\* The lease is closed by the thread that makes the calls.
Between(h) == h \in Caller => pc[h] = "idle"

Locking(h) == \/ Acquire(h) \/ Start(h) \/ GuardFails(h)
              \/ Stop(h) /\ Between(h)
              \/ Join(h) \/ Release(h) \/ Crash(h)
              \/ Renewal(h)

ClientNext == \/ Tick /\ UNCHANGED call
              \/ \E h \in Holder : Locking(h) /\ UNCHANGED call
              \/ \E c \in Caller : Requesting(c)

ClientSpec == ClientInit /\ [][ClientNext]_cvars

-----------------------------------------------------------------------------
(* Properties *)

\* A run whose lock is gone sends at most one more request, the one whose
\* guard had passed; a run whose lock Redis never renewed may go on for as
\* long as its guard lags, and send one more after that.  Retries and later
\* calls find the lease lost (_request, assert_run_lock after the token).
OneLateSend == \A c \in Caller : late[c] <= 1

\* What the caller of a request that is not repeated is told is what module
\* Request promises: a refusal is final and a request lands at most once
\* (copy_spreadsheet tells CopyRejected from CopyOutcomeUnknown by it).
Promise(c) == INSTANCE Request WITH
    landed <- IF repeat[c] THEN 0 ELSE landed[c],
    told <- IF repeat[c] THEN "none" ELSE told[c]

ImplementsRequest ==
    /\ \A c \in Caller : Promise(c)!Init
    /\ [][\A c \in Caller :
             Promise(c)!Next \/ UNCHANGED Promise(c)!vars]_call
=============================================================================
