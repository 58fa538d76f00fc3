CONSTANTS
    Item = {"a1", "a2", "b1"}
    Style = {"a", "b"}
    StyleOf <- Styles
    MaxDay = 2
    MaxTyped = 0
SPECIFICATION CompanySpec
INVARIANTS SharesCountTheseDays
CHECK_DEADLOCK FALSE
