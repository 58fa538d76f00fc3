------------------------------- MODULE Scopes -------------------------------
(***************************************************************************)
(* isolate_scopes (domain/sheets/incremental.py): which part of a plan is  *)
(* carried out although other parts conflict with the sheet.               *)
(*                                                                         *)
(* A column of a plan holds one metric of one platform.  A plan is         *)
(*   entries: a status for cells <<item, column>> to be filled,            *)
(*   totals:  a status for the sum below each column,                      *)
(*   blocked: scopes <<style, column>> that are known to be in conflict.   *)
(***************************************************************************)
EXTENDS Products

CONSTANTS Column

\* The forecast of a platform depends on its history.
IsForecast(c) == c.metric = "forecast"

Scope(e) == <<StyleOf[e[1]], e[2]>>

\* Mutant: a cell in conflict takes the column with it, as a total does.
MutantFailures(entries, totals, blocked) ==
    LET stop == {c \in DOMAIN totals :
                    \/ totals[c] = "needs_review"
                    \/ \E x \in DOMAIN entries :
                          x[2] = c /\ entries[x] = "needs_review"}
    IN  blocked \cup {Scope(e) : e \in {x \in DOMAIN entries :
                                            x[2] \in stop
                                            /\ ~IsForecast(x[2])}}

\* A cell in conflict takes its scope with it, the total of a history column
\* all scopes of the column.
Failures(entries, totals, blocked) ==
    blocked \cup {Scope(e) : e \in {x \in DOMAIN entries :
        \/ entries[x] = "needs_review"
        \/ totals[x[2]] = "needs_review" /\ ~IsForecast(x[2])}}

\* Mutant: a forecast looks at its own column only.
MutantForecastStands(e, totals, failures) == totals[e[2]] # "needs_review"

\* A forecast needs the whole history of its style on the platform, and the
\* total of the forecasts.
ForecastStands(e, totals, failures) ==
    /\ totals[e[2]] # "needs_review"
    /\ \A f \in failures : ~(/\ f[1] = StyleOf[e[1]]
                             /\ f[2].platform = e[2].platform)

\* The entries that are carried out.
Active(entries, totals, blocked) ==
    LET failures == Failures(entries, totals, blocked)
    IN  {e \in DOMAIN entries :
            /\ Scope(e) \notin failures
            /\ IsForecast(e[2]) => ForecastStands(e, totals, failures)}

\* The totals that are written or, where they are there, verified.
Kept(active, totals) ==
    {c \in DOMAIN totals : /\ totals[c] \in {"write", "preserved"}
                           /\ \E e \in active : e[2] = c}
=============================================================================
