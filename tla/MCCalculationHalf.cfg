CONSTANTS
    SummerEnd <- Summer
    WinterEnd <- Winter
    AsOf <- Today
    Precision = 4
    Cap = 150
    Unit = 10
    SkuBelow = 3
    SalesBelow = 2
    PreviousBelow = 1
    Sku = {k1}
    Sales = {8}
    Totals = {8, 45}
    Short = {0, 2}
SPECIFICATION Spec
INVARIANTS HalfGoesUp
CHECK_DEADLOCK FALSE
