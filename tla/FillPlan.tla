------------------------------ MODULE FillPlan ------------------------------
(***************************************************************************)
(* What a fill makes of the sales it reads: the entries of its plan        *)
(* (build_sales_update, build_forecast_values), the part of it that        *)
(* isolate_scopes lets pass, and the sheet when that is written.           *)
(***************************************************************************)
EXTENDS Warehouse, Scopes

CONSTANTS Sheets,   \* what the columns of a platform may contain
          Below,   \* what may be below them
          Known     \* the scopes, not of sales, with data for all their SKUs

Contents == [is : {"empty", "value", "formula"}, n : Nat]
Empty == [is |-> "empty", n |-> 0]
Value(k) == [is |-> "value", n |-> k]

ASSUME FillPlanAssumption ==
    /\ Sheets \subseteq [Item \X Column -> Contents]
    /\ Below \subseteq [Column -> {"none", "write", "preserved", "other",
                                    "needs_review"}]
    /\ Known \subseteq SUBSET (Style \X Column)
    /\ {"sales", "forecast"} \subseteq {c.metric : c \in Column}
    /\ \A c, d \in Column : c.platform = d.platform

VARIABLES
    groups,     \* the groups of SKUs that were read
    planning,   \* where the plan is
    order,      \* the settings of the fill
    sheet,      \* the columns of the platform
    data,       \* the scopes, not of sales, with data
    plan        \* entries, totals, blocked scopes; in the end active entries
                \* and the sums that are verified

planVars == <<groups, planning, order, sheet, data, plan>>
fillPlanVars == <<warehouseVars, planVars>>

\* An automatic fill of the history has no forecast to make; the columns are
\* planned for a forecast, or for the sales alone.
Orders == {o \in [forecast : BOOLEAN, history : BOOLEAN, manual : BOOLEAN,
                  overwrite : BOOLEAN] : o.forecast \/ o.history}

NoOrder == [forecast |-> FALSE, history |-> FALSE, manual |-> FALSE,
            overwrite |-> FALSE]
NoSheet == [x \in Item \X Column |-> Empty]
NoPlan == [entries |-> [x \in {} |-> ""], totals |-> [c \in Column |-> "none"],
           blocked |-> {}, active |-> {}, sums |-> [c \in {} |-> 0]]

FillPlanTypeOK ==
    /\ WarehouseTypeOK
    /\ groups \subseteq SUBSET Item
    /\ planning \in {"read", "isolate", "write", "done"}
    /\ order \in Orders \cup {NoOrder}
    /\ sheet \in [Item \X Column -> Contents]
    /\ data \subseteq Style \X Column
    /\ DOMAIN plan = DOMAIN NoPlan
    /\ DOMAIN plan.entries \subseteq Item \X Column
    /\ \A x \in DOMAIN plan.entries :
          plan.entries[x] \in {"needs_review", "unchanged", "write"}
    /\ plan.blocked \subseteq Style \X Column
    /\ plan.active \subseteq DOMAIN plan.entries
    /\ \A x \in plan.active : plan.entries[x] # "needs_review"

FillPlanInit ==
    /\ WarehouseInit
    /\ groups = todo
    /\ planning = "read"
    /\ order = NoOrder
    /\ sheet = NoSheet
    /\ data = {}
    /\ plan = NoPlan

-----------------------------------------------------------------------------
(* The entries. *)

IsSales(c) == c.metric = "sales"

\* The forecast takes the sales of a style as a whole.
HasQuantity(i, c) ==
    IF ~IsSales(c) THEN <<StyleOf[i], c>> \in data
    ELSE IF order.forecast THEN OfStyle(StyleOf[i]) \subseteq known
    ELSE i \in known

Quantity(i, c) == IF IsSales(c) THEN number[i] ELSE 1

Columns(o) == {c \in Column : IF IsForecast(c) THEN o.forecast
                              ELSE o.history /\ (IsSales(c) \/ o.forecast)}

\* Read by style are a manual fill and a forecast, and what is complete is
\* left out of a manual fill (fill_state).
Complete(o, sh, st) ==
    /\ o.manual /\ ~o.overwrite
    /\ \A i \in OfStyle(st), c \in Column :
          IsSales(c) \/ o.forecast => sh[i, c] # Empty

Open(o, sh) == {st \in Style : ~Complete(o, sh, st)}

GroupsOf(o, sh) == IF o.manual \/ o.forecast
                   THEN {OfStyle(st) : st \in Open(o, sh)} ELSE {Item}

\* The cell holds what the fill must not replace.
Differs(i, c) ==
    \/ sheet[i, c].is = "formula"
    \/ /\ sheet[i, c] \notin {Empty, Value(Quantity(i, c))}
       /\ ~order.overwrite

Status(i, c) ==
    IF ~HasQuantity(i, c) \/ Differs(i, c) THEN "needs_review"
    ELSE IF sheet[i, c] = Value(Quantity(i, c)) THEN "unchanged"
    ELSE "write"

\* A forecast that is there already is left out of a manual fill.
LeftOut(i, c) == /\ IsForecast(c)
                 /\ order.manual /\ ~order.overwrite
                 /\ sheet[i, c] # Empty

\* A forecast that cannot be made, or differs from the one in the sheet, is
\* no conflict; it is skipped, and the total of the forecasts with it.
Skipped(i, c) == /\ IsForecast(c)
                 /\ ~LeftOut(i, c)
                 /\ \/ ~HasQuantity(i, c)
                    \/ ~order.overwrite /\ Differs(i, c)

Planned == {x \in Item \X Columns(order) :
               /\ StyleOf[x[1]] \in Open(order, sheet)
               /\ ~LeftOut(x[1], x[2])
               /\ ~Skipped(x[1], x[2])}

\* build_forecast_values: a history without data, a manual fill whose history
\* differs from the sheet even if it is not to be written, and a future
\* column with the dates of another day.
Blocked(dated) ==
    IF ~order.forecast THEN {}
    ELSE {x \in Open(order, sheet) \X {c \in Column : ~IsForecast(c)} :
             LET rows == OfStyle(x[1])
             IN  IF \A i \in rows : HasQuantity(i, x[2])
                 THEN order.manual /\ \E i \in rows : Differs(i, x[2])
                 ELSE order.history}
         \cup (dated \X {c \in Column : IsForecast(c)})

\* column_total_rows finds a cell for the total, and t says what it contains;
\* columns that are not filled, or not without exception, get none.
TotalsOver(t) ==
    [c \in Column |->
        IF \/ c \notin Columns(order)
           \/ \E i \in Item : StyleOf[i] \in Open(order, sheet) /\ Skipped(i, c)
        THEN "none" ELSE t[c]]

-----------------------------------------------------------------------------
(* The steps. *)

\* The sheet, its settings and the other data matter from here on, and are
\* chosen here; the tables do not matter any more.
Take ==
    /\ planning = "read"
    /\ reading = "over"
    /\ \E o \in Orders, sh \in Sheets :
          /\ groups = GroupsOf(o, sh)
          /\ order' = o
          /\ sheet' = sh
    /\ data' \in Known
    /\ \A x \in data' : IsForecast(x[2]) =>
          /\ OfStyle(x[1]) \subseteq known
          /\ \A c \in Column : <<x[1], c>> \in data' \/ IsSales(c)
    /\ kind' = "detail" /\ days' = {} /\ present' = FALSE /\ drops' = 0
    /\ planning' = "isolate"
    /\ UNCHANGED <<groups, plan, listed, quality, query, result>>

Draft ==
    /\ planning = "isolate"
    /\ \E t \in Below, dated \in SUBSET Open(order, sheet) :
          /\ dated # {} => order.manual /\ order.forecast /\ ~order.overwrite
          /\ plan' = [NoPlan EXCEPT
                !.entries = [x \in Planned |-> Status(x[1], x[2])],
                !.totals = TotalsOver(t),
                !.blocked = Blocked(dated)]
    /\ planning' = "write"
    /\ UNCHANGED <<warehouseVars, groups, order, sheet, data>>

\* Mutant: the sum of the entries, as it was before scopes were isolated.
MutantExpected(active, c) ==
    MapThenSumSet(LAMBDA x : Quantity(x[1], c), {x \in active : x[2] = c})

\* What a total must show after the write, with cells that are not written.
Expected(active, c) ==
    SumFunction([i \in Item |-> IF <<i, c>> \in active THEN Quantity(i, c)
                                ELSE sheet[i, c].n])

\* Without any active entry nothing is written.
WritePlan ==
    /\ planning = "write"
    /\ LET active == Active(plan.entries, plan.totals, plan.blocked)
       IN  /\ plan' = [plan EXCEPT
                  !.active = active,
                  !.sums = [c \in Kept(active, plan.totals) |->
                               Expected(active, c)]]
           /\ sheet' = [x \in Item \X Column |->
                           IF x \in active THEN Value(Quantity(x[1], x[2]))
                           ELSE sheet[x]]
    /\ planning' = "done"
    /\ UNCHANGED <<warehouseVars, groups, order, data>>

FillPlanNext ==
    \/ WarehouseNext /\ UNCHANGED planVars
    \/ Take \/ Draft \/ WritePlan

FillPlanSpec == FillPlanInit /\ [][FillPlanNext]_fillPlanVars

-----------------------------------------------------------------------------
(* Properties *)

Only(f, S) == [x \in DOMAIN f \cap S |-> f[x]]

\* docs/business-rules.md: a conflict keeps the metric of its style and
\* platform from being written, "other periods are filled in normally".  What
\* is written of a style, and of one history column of it, is what would be
\* if the plan held nothing else (isolate_scopes).
ConflictsStayLocal ==
    planning = "write" =>
        LET whole == Active(plan.entries, plan.totals, plan.blocked)
            Alone(S) == Active(Only(plan.entries, S), plan.totals,
                               {b \in plan.blocked :
                                   \E x \in S : b = Scope(x)})
        IN  \A st \in Style :
                LET rows == OfStyle(st) \X Column
                IN  /\ whole \cap rows = Alone(rows)
                    /\ \A c \in Column :
                          ~IsForecast(c) =>
                              LET cells == OfStyle(st) \X {c}
                              IN  whole \cap cells = Alone(cells)

\* A column is written only if its total will tell the truth: the sum that is
\* verified is the sum of the cells, written, kept and in conflict, and no
\* other number stands below.
TotalsAddUp ==
    planning = "done" =>
        \A c \in Column :
            /\ (\E x \in plan.active : x[2] = c) =>
                  plan.totals[c] # "needs_review"
            /\ c \in DOMAIN plan.sums =>
                  plan.sums[c] = SumFunction([i \in Item |-> sheet[i, c].n])

\* A forecast is written only beside the history it was computed from: each
\* history cell of its style shows the quantity that was read or, if history
\* is not to be written, nothing.
ForecastMatchesHistory ==
    planning = "done" =>
        \A x \in plan.active :
            IsForecast(x[2]) /\ (order.history
                                 \/ (order.manual /\ ~order.overwrite)) =>
                \A i \in OfStyle(StyleOf[x[1]]), c \in Column :
                    ~IsForecast(c) =>
                        /\ HasQuantity(i, c)
                        /\ \/ sheet[i, c] = Value(Quantity(i, c))
                           \/ ~order.history /\ sheet[i, c] = Empty
=============================================================================
