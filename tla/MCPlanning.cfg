CONSTANTS
    Item = {"a1", "a2", "b1"}
    Style = {"a", "b"}
    StyleOf <- Styles
    Dates = {1, 2}
    SoldOn <- SoldThen
    MaxDrops = 1
    Column <- OfPlatform
    Sheets <- SomeSheets
    Below <- SomeBelow
    Known <- SomeData
    MaxDay = 3
    MaxTyped = 2
    SummerEnd <- Summer
    WinterEnd <- Winter
    AsOf <- Days
    Precision = 4
    Cap = 150
    Unit = 10
    SkuBelow = 3
    SalesBelow = 2
    PreviousBelow = 1
    Sku = {k1, k2, k3}
    Sales = {0, 1, 4}
    Totals = {0, 3, 25}
    Short = {0, 3}
SPECIFICATION PlanningSpec
SYMMETRY SkuSymmetry
INVARIANTS PlanningTypeOK NumbersAreTrue ConflictsStayLocal TotalsAddUp ForecastMatchesHistory TitleTellsPeriod SharesAreCurrent OnlyDaysThatAreOver SameDaysLastYear ForecastIsNear SharesInOrder
PROPERTIES StylesAreWhole
CHECK_DEADLOCK FALSE
