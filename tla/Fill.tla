-------------------------------- MODULE Fill --------------------------------
(***************************************************************************)
(* What the fill of one sheet promises to the batch that asks for it       *)
(* (docs/architecture.md and the statuses of services/fill.py), whatever   *)
(* is lost, late or started again: a fill that may be repeated has changed *)
(* nothing and never will; a completed one has written its whole plan, or  *)
(* had nothing to write, and changes nothing more; what is under review    *)
(* may be touched in part, and may still be touched, and is not filled     *)
(* again.                                                                  *)
(***************************************************************************)

VARIABLES landed,   \* how much of the fill has taken effect in the sheet
          flying,   \* whether an unanswered request may still take effect
          status    \* what was recorded of the fill

vars == <<landed, flying, status>>

Init ==
    /\ landed = "nothing"
    /\ flying = FALSE
    /\ status = "absent"

Start ==
    /\ status \in {"absent", "retryable"}
    /\ status' = "running"
    /\ UNCHANGED <<landed, flying>>

Write ==
    /\ status = "running"
    /\ landed # "all"
    /\ ~flying
    /\ landed' \in {"part", "all"}
    /\ UNCHANGED <<flying, status>>

\* The last request of a fill gets no answer.
Lose ==
    /\ status = "running"
    /\ ~flying
    /\ flying' = TRUE
    /\ status' \in {"running", "needs_review"}
    /\ UNCHANGED landed

Land ==
    /\ flying
    /\ flying' = FALSE
    /\ landed' \in {"part", "all"}
    /\ UNCHANGED status

Retryable == status' = "retryable" /\ landed = "nothing" /\ ~flying
Completed == status' = "completed" /\ landed # "part" /\ ~flying

Report ==
    /\ status = "running"
    /\ Retryable \/ Completed \/ status' = "needs_review"
    /\ UNCHANGED <<landed, flying>>

Next == Start \/ Write \/ Lose \/ Land \/ Report

Spec == Init /\ [][Next]_vars
=============================================================================
