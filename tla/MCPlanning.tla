----------------------------- MODULE MCPlanning -----------------------------
EXTENDS Planning, MCCalculation, MCCompany

\* What was sold: on both days, on none, on the second.
SoldThen == [s \in Item |-> CASE s = "a1" -> <<1, 1>>
                            [] s = "a2" -> <<0, 0>>
                            [] s = "b1" -> <<0, 1>>]

Metrics == {"sales", "future", "forecast"}
OfPlatform == [platform : {"p"}, metric : Metrics]
Col(m) == [platform |-> "p", metric |-> m]

Formula == [is |-> "formula", n |-> 1]

\* Of each cell of sales: nothing, what was sold, or a conflict; of the other
\* columns, one style each has been filled in.
SomeSheets ==
    {[x \in Item \X OfPlatform |->
         CASE x[2].metric = "sales" ->
                 (CASE f[x[1]] = "empty" -> Empty
                    [] f[x[1]] = "sold" -> Value(Total(x[1]))
                    [] f[x[1]] = "other" -> IF x[1] = "a1" THEN Formula
                                            ELSE Value(9))
           [] x[2].metric = "future" ->
                 IF filled /\ Styles[x[1]] = "a" THEN Value(8) ELSE Empty
           [] x[2].metric = "forecast" ->
                 IF filled /\ Styles[x[1]] = "b" THEN Value(7) ELSE Empty] :
        f \in [Item -> {"empty", "sold", "other"}],
        filled \in BOOLEAN}

\* Nothing below the columns but what a fill may write, or one surprise.
SomeBelow ==
    LET blank == [c \in OfPlatform |-> "write"]
    IN  {blank, [blank EXCEPT ![Col("sales")] = "other"]}
        \cup {[blank EXCEPT ![Col(m)] = "needs_review"] : m \in Metrics}

\* All data, or no forecast, or neither history nor forecast of a style.
SomeData ==
    LET all == Style \X {Col("future"), Col("forecast")}
    IN  {all, {x \in all : x[2].metric = "future"},
         {x \in all : x[1] = "b"}}
=============================================================================
