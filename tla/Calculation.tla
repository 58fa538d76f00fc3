---------------------------- MODULE Calculation ----------------------------
(***************************************************************************)
(* What inspect_forecast (services/calculation.py) makes of one style on   *)
(* one platform: the calendar, the sales it reads, the reasons to leave    *)
(* the forecast to a person, and the forecast.                             *)
(*                                                                         *)
(* Sales come from the warehouse, or from columns of the sheet that show   *)
(* their dates; either way a window is there for all SKUs, or lacking.     *)
(***************************************************************************)
EXTENDS Periods, Forecast

CONSTANTS AsOf,           \* the days on which a forecast is made
          Sku,
          Sales, Totals,  \* sales of a SKU, and of a style, in a window
          Short,          \* sales of a style in a short window
          PreviousBelow   \* previous_sales_below

ASSUME CalculationAssumption ==
    /\ Sales \subseteq Nat /\ Totals \subseteq Nat /\ Short \subseteq Nat
    /\ PreviousBelow \in Nat \ {0}
    /\ IsFiniteSet(Sku)
    /\ AsOf \subseteq [year : Nat, month : Nat, day : Nat]
    /\ \A d \in AsOf : IsDate(d) /\ d.year > 2

Seasons == {"summer", "winter", "all_year"}

VARIABLES
    asOf,       \* the day of the forecast, which counts as future
    skus,       \* the SKUs of the style
    pc,
    status,     \* item["status"]
    window,     \* the windows
    current,    \* sales of each SKU in the last 30 days
    previous,   \* sales of the style in the same days of last year
    future,     \* sales of the style last year from then to the deadline
    weights,    \* what the shares follow
    now, then,  \* the trends of this and of last year
    forecast    \* the quantity of each SKU

inputs == <<current, previous, future>>
trends == <<now, then>>
vars == <<asOf, skus, pc, status, window, inputs, weights, trends, forecast>>

NoWindow == [w \in {"current", "previous", "future", "history"} |-> <<0, 0>>]
NoTrend == [total |-> 0, days15 |-> 0, days7 |-> 0]
Trend == [total : Nat, days15 : Nat, days7 : Nat]
Nothing == [s \in Sku |-> 0]

TypeOK ==
    /\ asOf \in AsOf
    /\ skus \in SUBSET Sku \ {{}}
    /\ pc \in {"style", "read", "base", "share", "trend", "allocate", "done"}
    /\ status \in {"open", "needs_review", "manual", "ready", "preserved"}
    /\ DOMAIN window = DOMAIN NoWindow
    /\ \A w \in DOMAIN window : window[w] \in Nat \X Nat
    /\ current \in [Sku -> Nat]
    /\ {previous, future} \subseteq Nat
    /\ weights \in [Sku -> Nat]
    /\ {now, then} \subseteq Trend
    /\ forecast \in [Sku -> Nat]
    /\ status # "ready" => forecast = Nothing

Init ==
    /\ asOf \in AsOf
    /\ skus \in SUBSET Sku \ {{}}
    /\ pc = "style"
    /\ status = "open"
    /\ window = NoWindow
    /\ current = Nothing
    /\ previous = 0
    /\ future = 0
    /\ weights = Nothing
    /\ now = NoTrend
    /\ then = NoTrend
    /\ forecast = Nothing

\* Sales of the SKUs of the style.
Sold == {f \in [Sku -> Sales \cup {0}] : \A s \in Sku \ skus : f[s] = 0}
Sum(f) == SumFunction(f)

Leave(s) == status' = s /\ pc' = "done"
Goto(next) == pc' = next /\ UNCHANGED status

-----------------------------------------------------------------------------
\* The catalogue, the year of the style or the labels are not in order.
RefuseStyle ==
    /\ pc = "style"
    /\ Leave("needs_review")
    /\ UNCHANGED <<asOf, skus, window, inputs, weights, trends, forecast>>

\* The labels of the records give one season, and the season its windows.
ChooseWindow ==
    /\ pc = "style"
    /\ \E first, second \in SUBSET Seasons :
          LET labels == {first, second}
              season == CHOOSE k \in Kinds(labels) : TRUE
              end == Deadline(asOf, season)
          IN  \/ /\ LabelsConflict(labels) \/ ~NotBefore(asOf, end)
                 /\ Leave("needs_review")
                 /\ UNCHANGED window
              \/ /\ ~LabelsConflict(labels) /\ NotBefore(asOf, end)
                 /\ window' = Window(asOf, end)
                 /\ Goto("read")
    /\ UNCHANGED <<asOf, skus, inputs, weights, trends, forecast>>

\* An incremental fill finds everything filled in.
Preserve ==
    /\ pc = "read"
    /\ Leave("preserved")
    /\ UNCHANGED <<asOf, skus, window, inputs, weights, trends, forecast>>

\* Some window, current, previous or historical_future, is lacking.
Lacking ==
    /\ pc = "read"
    /\ Leave("needs_review")
    /\ UNCHANGED <<asOf, skus, window, inputs, weights, trends, forecast>>

ReadWindows ==
    /\ pc = "read"
    /\ current' \in Sold
    /\ previous' \in Totals
    /\ future' \in Totals
    /\ Goto("base")
    /\ UNCHANGED <<asOf, skus, window, weights, trends, forecast>>

\* Too few sales last year to compare with.
CheckBase ==
    /\ pc = "base"
    /\ IF previous < PreviousBelow THEN Leave("manual") ELSE Goto("share")
    /\ UNCHANGED <<asOf, skus, window, inputs, weights, trends, forecast>>

\* The company's sales are not there for all SKUs, or are none at all.
ChooseShares ==
    /\ pc = "share"
    /\ \/ /\ ~UseCompany(skus, Sum(current))
          /\ weights' = current
          /\ Goto("trend")
       \/ /\ UseCompany(skus, Sum(current))
          /\ \E company \in Sold :
                /\ Sum(company) # 0
                /\ weights' = company
          /\ Goto("trend")
       \/ /\ UseCompany(skus, Sum(current))
          /\ UNCHANGED weights
          /\ Leave("manual")
    /\ UNCHANGED <<asOf, skus, window, inputs, trends, forecast>>

\* The short windows of both years, or a source that does not have them.
ReadTrends ==
    /\ pc = "trend"
    /\ \/ /\ now' \in {[total |-> Sum(current), days15 |-> a, days7 |-> b] :
                          a, b \in Short}
          /\ then' \in {[total |-> previous, days15 |-> a, days7 |-> b] :
                           a, b \in Short}
          /\ Goto("allocate")
       \/ /\ UNCHANGED trends
          /\ Leave("needs_review")
    /\ UNCHANGED <<asOf, skus, window, inputs, weights, forecast>>

\* allocate_forecast raises, or answers.
Allocate ==
    /\ pc = "allocate"
    /\ LET valid == /\ ValidTrend(now) /\ ValidTrend(then)
                    /\ Sum(weights) # 0
       IN  \/ /\ valid
              /\ forecast' = Shares(Theory(future, now, then), weights)
              /\ Leave("ready")
           \/ /\ ~valid
              /\ UNCHANGED forecast
              /\ Leave("needs_review")
    /\ UNCHANGED <<asOf, skus, window, inputs, weights, trends>>

Next == \/ RefuseStyle \/ ChooseWindow
        \/ Preserve \/ Lacking \/ ReadWindows
        \/ CheckBase \/ ChooseShares \/ ReadTrends \/ Allocate

Spec == Init /\ [][Next]_vars

-----------------------------------------------------------------------------
(* The same demand in fractions <<n, d>>, as docs/business-rules.md gives   *)
(* it, to compare with.                                                    *)

LessThan(p, q) == p[1] * q[2] < q[1] * p[2]

Reduced(n, d) ==
    LET gcd == CHOOSE g \in 1..d : /\ n % g = 0 /\ d % g = 0
                                   /\ \A h \in (g + 1)..d : n % h # 0
                                                            \/ d % h # 0
    IN  <<n \div gcd, d \div gcd>>

\* 70% of a thirtieth, 20% of a fifteenth and 10% of a seventh.
ExactTrend(t) ==
    LET x == <<49 * t.total + 28 * t.days15 + 30 * t.days7, 70 * t.total>>
    IN  CASE t.total = 0 -> <<1, 1>>
          [] t.total > 0 /\ LessThan(x, <<4, 5>>) -> <<4, 5>>
          [] t.total > 0 /\ LessThan(<<6, 5>>, x) -> <<6, 5>>
          [] OTHER -> Reduced(x[1], x[2])

ExactGrowth ==
    LET a == ExactTrend(now)
        b == ExactTrend(then)
        growth == <<now.total * a[1] * b[2], then.total * a[2] * b[1]>>
    IN  IF LessThan(<<Cap, 100>>, growth) THEN Reduced(Cap, 100) ELSE growth

\* The share of a SKU before it is rounded.
Exact(s) == <<future * ExactGrowth[1] * weights[s],
              ExactGrowth[2] * Sum(weights)>>

\* Twice what the nineteen roundings between the sales and a share may be
\* off, each by half a unit of the last digit, and their products.
Slack(n) == (20 * n) \div Ten[Precision - 1]

-----------------------------------------------------------------------------
(* Properties *)

\* A forecast never counts a day that is not over as sold: every window the
\* sales of which are read ends before the day of the forecast, although the
\* deadline may be almost a year ahead (forecast_window).
OnlyDaysThatAreOver ==
    \A w \in {"current", "previous", "history"} :
        window[w][2] <= IF window = NoWindow THEN 0 ELSE DayNumber(asOf)

\* The demand is compared with the same days of last year: the windows have
\* the same length, up to a leap day, and last year's two windows meet where
\* this year's do (forecast_window, previous_year).
SameDaysLastYear ==
    LET Length(w) == window[w][2] - window[w][1]
    IN  /\ Length("current") = Length("previous")
        /\ Length("history") - Length("future") \in -1..1
        /\ window["current"][2] = window["future"][1]
        /\ window["previous"][2] = window["history"][1]

\* A SKU's forecast is the share the rules give it, to half a unit (and to
\* the precision of the arithmetic): neither trend nor cap nor the choice of
\* shares nor rounding adds more (allocate_forecast).
ForecastIsNear ==
    status = "ready" =>
        \A s \in skus :
            LET x == Exact(s)
                off == IF forecast[s] * x[2] > x[1]
                       THEN forecast[s] * x[2] - x[1]
                       ELSE x[1] - forecast[s] * x[2]
            IN  2 * off <= Unit * x[2] + Slack(x[1])

\* Who sold more is not given less.
SharesInOrder ==
    status = "ready" =>
        \A s, r \in skus :
            weights[s] <= weights[r] => forecast[s] <= forecast[r]

\* docs/business-rules.md: each SKU is rounded half up, "15 -> 20".
HalfGoesUp ==
    status = "ready" =>
        \A s \in skus :
            LET x == Exact(s)
                unit == Unit * x[2]
                half == (2 * x[1]) % (2 * unit) = unit
            IN  half => 2 * forecast[s] * x[2] = 2 * x[1] + unit
=============================================================================
