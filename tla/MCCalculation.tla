--------------------------- MODULE MCCalculation ---------------------------
EXTENDS Calculation, TLC

Summer == <<8, 31>>
Winter == <<2, 28>>

Date(y, m, d) == [year |-> y, month |-> m, day |-> d]

\* The days around the ends of seasons and years, in and next to leap years.
Days == {Date(2023, 3, 1), Date(2023, 8, 31), Date(2024, 1, 15),
         Date(2024, 2, 28), Date(2024, 2, 29), Date(2024, 9, 1),
         Date(2024, 12, 31), Date(2025, 2, 28)}

Today == {Date(2026, 9, 17)}

SkuSymmetry == Permutations(Sku)
=============================================================================
