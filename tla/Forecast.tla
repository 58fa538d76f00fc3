------------------------------ MODULE Forecast ------------------------------
(***************************************************************************)
(* The demand of one style on one platform (domain/forecast.py): sales of  *)
(* the season last year, times the growth since, corrected by the trend of *)
(* the last 30 days, capped, and shared among the SKUs in whole units.     *)
(***************************************************************************)
EXTENDS Decimals, FiniteSets, Functions

CONSTANTS Cap,          \* growth_multiplier_cap, in hundredths
          Unit,         \* rounding_unit
          SkuBelow,     \* fallback.sku_count_below
          SalesBelow    \* fallback.sales_below

ASSUME ForecastAssumption ==
    /\ Cap \in Nat /\ Cap >= 100
    /\ Unit \in Nat \ {0}
    /\ SkuBelow \in Nat \ {0}
    /\ SalesBelow \in Nat \ {0}

Growth == [c |-> Cap, e |-> -2]
Tenths(n) == [c |-> n, e |-> -1]

\* The sales of the last 30, 15 and 7 days fit together.
ValidTrend(t) == t.days7 <= t.days15 /\ t.days15 <= t.total

\* The average day, with 70% of weight on 30 days, 20% on 15, 10% on 7.
Weighted(t) ==
    Plus(Plus(Over(Times(Tenths(7), Int2Dec(t.total)), Int2Dec(30)),
              Over(Times(Tenths(2), Int2Dec(t.days15)), Int2Dec(15))),
         Over(Times(Tenths(1), Int2Dec(t.days7)), Int2Dec(7)))

\* trend_factor: between 0.8 and 1.2.
TrendFactor(t) ==
    IF t.total = 0 THEN Int2Dec(1)
    ELSE Smaller(Tenths(12),
                 Larger(Tenths(8), Over(Weighted(t), Over(Int2Dec(t.total),
                                                          Int2Dec(30)))))

\* Shares follow the whole company only for small styles that sell little.
UseCompany(skus, sales) ==
    Cardinality(skus) < SkuBelow /\ sales < SalesBelow

\* Growth since last year, both trends included.
Multiplier(now, then) ==
    Over(Times(Over(Int2Dec(now.total), Int2Dec(then.total)),
               TrendFactor(now)),
         TrendFactor(then))

\* Mutant: the cap is applied before the trend.
MutantTheory(future, now, then) ==
    Over(Times(Times(Int2Dec(future),
                     Smaller(Growth, Over(Int2Dec(now.total),
                                          Int2Dec(then.total)))),
               TrendFactor(now)),
         TrendFactor(then))

\* exact_total
Theory(future, now, then) ==
    IF ~AtMost(Multiplier(now, then), Growth)
    THEN Times(Int2Dec(future), Growth)
    ELSE Over(Times(Over(Times(Int2Dec(future), Int2Dec(now.total)),
                         Int2Dec(then.total)),
                    TrendFactor(now)),
              TrendFactor(then))

\* Mutant: what rounding leaves over is given to one SKU.
MutantShares(theory, weights) ==
    LET sum == SumFunction(weights)
        plain == [s \in DOMAIN weights |->
                    HalfUp(Over(Over(Times(theory, Int2Dec(weights[s])),
                                     Int2Dec(sum)), Int2Dec(Unit))) * Unit]
        whole == HalfUp(Over(theory, Int2Dec(Unit))) * Unit
        some == CHOOSE s \in DOMAIN weights : TRUE
    IN  [plain EXCEPT ![some] = @ + whole - SumFunction(plain)]

\* Each SKU's share, rounded to whole units, whatever that does to the sum.
Shares(theory, weights) ==
    LET sum == SumFunction(weights)
    IN  [s \in DOMAIN weights |->
            HalfUp(Over(Over(Times(theory, Int2Dec(weights[s])),
                             Int2Dec(sum)), Int2Dec(Unit))) * Unit]
=============================================================================
