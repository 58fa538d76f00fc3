------------------------------ MODULE Periods ------------------------------
(***************************************************************************)
(* The calendar of a forecast (domain/periods.py): which days of this and  *)
(* of last year are compared, and up to when goods are needed.             *)
(***************************************************************************)
EXTENDS Integers

CONSTANTS SummerEnd, WinterEnd   \* last days of the seasons, <<month, day>>

Leap(year) == (year % 4 = 0 /\ year % 100 # 0) \/ year % 400 = 0

MonthLength(year, month) ==
    CASE month = 2 -> IF Leap(year) THEN 29 ELSE 28
      [] month \in {4, 6, 9, 11} -> 30
      [] OTHER -> 31

IsDate(d) == d.month \in 1..12 /\ d.day \in 1..MonthLength(d.year, d.month)

ASSUME PeriodsAssumption ==
    \A end \in {SummerEnd, WinterEnd} :
        IsDate([year |-> 2001, month |-> end[1], day |-> end[2]])

\* Days before a month in a year that is no leap year.
DaysBefore == <<0, 31, 59, 90, 120, 151, 181, 212, 243, 273, 304, 334>>

\* date.toordinal()
DayNumber(d) ==
    LET y == d.year - 1
    IN  365 * y + (y \div 4) - (y \div 100) + (y \div 400)
        + DaysBefore[d.month] + d.day
        + IF d.month > 2 /\ Leap(d.year) THEN 1 ELSE 0

\* previous_year: the same day of last year, February 28 for a leap day.
PreviousYear(d) ==
    LET same == [d EXCEPT !.year = @ - 1]
    IN  IF IsDate(same) THEN same ELSE [same EXCEPT !.day = 28]

EndIn(year, end) == [year |-> year, month |-> end[1], day |-> end[2]]

NotBefore(asOf, d) == DayNumber(d) >= DayNumber(asOf)

\* The season each record names; a record without a label counts as all year.
Kinds(labels) == UNION {IF l = {} THEN {"all_year"} ELSE l : l \in labels}

\* One record names two seasons, or the records differ.
LabelsConflict(labels) ==
    \/ \E l \in labels : \E a, b \in l : a # b
    \/ \E a, b \in Kinds(labels) : a # b

Ends(year) == {EndIn(year, SummerEnd), EndIn(year, WinterEnd)}

\* Mutant: the winter always ends next year.
MutantDeadline(asOf, season) ==
    CASE season = "summer" -> EndIn(asOf.year, SummerEnd)
      [] season = "winter" -> EndIn(asOf.year + 1, WinterEnd)
      [] season = "all_year" -> EndIn(asOf.year + 1, WinterEnd)

\* The end of the season: a winter that is over means the next one, a summer
\* that is over is an error, and without a season the next end counts.
Deadline(asOf, season) ==
    LET winter == EndIn(asOf.year, WinterEnd)
        next == {d \in Ends(asOf.year) \cup Ends(asOf.year + 1) :
                    NotBefore(asOf, d)}
    IN  CASE season = "summer" -> EndIn(asOf.year, SummerEnd)
          [] season = "winter" ->
                IF NotBefore(asOf, winter) THEN winter
                ELSE EndIn(asOf.year + 1, WinterEnd)
          [] season = "all_year" ->
                CHOOSE d \in next : \A f \in next : NotBefore(d, f)

\* Mutant: last year's season ends a day early.
MutantWindow(asOf, end) ==
    LET today == DayNumber(asOf)
        prior == DayNumber(PreviousYear(asOf))
    IN  [current |-> <<today - 30, today>>,
         previous |-> <<prior - 30, prior>>,
         future |-> <<today, DayNumber(end) + 1>>,
         history |-> <<prior, DayNumber(PreviousYear(end))>>]

\* The windows, from a day up to and without another.
Window(asOf, end) ==
    LET today == DayNumber(asOf)
        prior == DayNumber(PreviousYear(asOf))
    IN  [current |-> <<today - 30, today>>,
         previous |-> <<prior - 30, prior>>,
         future |-> <<today, DayNumber(end) + 1>>,
         history |-> <<prior, DayNumber(PreviousYear(end)) + 1>>]
=============================================================================
