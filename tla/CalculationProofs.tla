------------------------- MODULE CalculationProofs -------------------------
(***************************************************************************)
(* A forecast, for any day and any ends of the seasons, any sales and      *)
(* trends, any number of SKUs and any cap, unit and precision: the         *)
(* calendar, the windows, the numbers and the steps.                       *)
(***************************************************************************)
EXTENDS Calculation, DecimalsProofs

-----------------------------------------------------------------------------
(* The calendar.                                                           *)

Date == {d \in [year : Int, month : 1..12, day : 1..31] : IsDate(d)}

\* A date is a year and a day in it.
Extra(year) == IF Leap(year) THEN 1 ELSE 0
YearStart(year) ==
    LET y == year - 1
    IN  365 * y + (y \div 4) - (y \div 100) + (y \div 400)
LeapDay(d) == IF d.month > 2 THEN Extra(d.year) ELSE 0
DayOfYear(d) == DaysBefore[d.month] + d.day + LeapDay(d)

\* The number of a day is the start of its year plus its place in the
\* year.
LEMMA DayNumbers ==
    ASSUME NEW d \in Date
    PROVE  /\ DayNumber(d) = YearStart(d.year) + DayOfYear(d)
           /\ YearStart(d.year) \in Int
           /\ DayOfYear(d) \in Int
           /\ DayNumber(d) \in Int
<1>1. DaysBefore[d.month] \in Int
  BY DEF DaysBefore, Date
<1>2. QED
  BY <1>1 DEF DayNumber, YearStart, DayOfYear, LeapDay, Extra, Date

\* How long a year is.
LEMMA YearLength ==
    ASSUME NEW y \in Int
    PROVE  YearStart(y + 1) = YearStart(y) + 365 + Extra(y)
<1>1. y \div 4 - (y - 1) \div 4 = IF y % 4 = 0 THEN 1 ELSE 0
  OBVIOUS
<1>2. y \div 100 - (y - 1) \div 100 = IF y % 100 = 0 THEN 1 ELSE 0
  OBVIOUS
<1>3. y \div 400 - (y - 1) \div 400 = IF y % 400 = 0 THEN 1 ELSE 0
  OBVIOUS
<1>4. /\ y % 100 = 0 => y % 4 = 0
      /\ y % 400 = 0 => y % 100 = 0
  OBVIOUS
<1>5. QED
  BY <1>1, <1>2, <1>3, <1>4 DEF YearStart, Extra, Leap

\* The place of a day in its year is within the length of the year.
LEMMA DayInYear ==
    ASSUME NEW d \in Date
    PROVE  DayOfYear(d) \in 1..(365 + Extra(d.year))
<1> USE DEF Date, IsDate, MonthLength, DayOfYear, LeapDay, Extra, DaysBefore
<1>1. CASE d.month \in {1, 2}
  BY <1>1
<1>2. CASE d.month \in 3..7
  BY <1>2
<1>3. CASE d.month \in 8..12
  BY <1>3
<1>4. QED
  BY <1>1, <1>2, <1>3

\* Every day of a year comes before every day of the next.
LEMMA YearsInOrder ==
    ASSUME NEW d \in Date, NEW e \in Date, e.year = d.year + 1
    PROVE  DayNumber(d) < DayNumber(e)
<1>1. d.year \in Int /\ Extra(d.year) \in {0, 1}
  BY DEF Date, Extra
<1>2. QED
  BY <1>1, DayNumbers, DayInYear, YearLength

\* Last year's day is a date, and a year ago (previous_year).
LEMMA YearAgo ==
    ASSUME NEW d \in Date
    PROVE  /\ PreviousYear(d) \in Date
           /\ PreviousYear(d).year = d.year - 1
           /\ DayNumber(d) - DayNumber(PreviousYear(d)) \in 365..366
<1> DEFINE y == d.year - 1
           same == [d EXCEPT !.year = y]
<1>0. y \in Int /\ d.year = y + 1 /\ Extra(y) \in {0, 1}
  BY DEF Date, Extra
<1>1. YearStart(d.year) = YearStart(y) + 365 + Extra(y)
  BY <1>0, YearLength
<1>2. CASE IsDate(same)
  <2>1. /\ PreviousYear(d) = same
        /\ same \in Date
        /\ same.year = y /\ same.month = d.month /\ same.day = d.day
    BY <1>2 DEF PreviousYear, Date
  <2>2. /\ DayNumber(d) = YearStart(d.year) + DayOfYear(d)
        /\ DayNumber(same) = YearStart(y) + DayOfYear(same)
        /\ YearStart(y) \in Int
        /\ DayOfYear(d) \in Int /\ DayOfYear(same) \in Int
    BY <2>1, DayNumbers
  <2>3. CASE d.month <= 2
    <3>1. DayOfYear(same) = DayOfYear(d)
      BY <2>1, <2>3 DEF DayOfYear, LeapDay, Date
    <3>2. QED
      BY <1>0, <1>1, <2>1, <2>2, <3>1
  <2>4. CASE d.month > 2
    <3>1. /\ DayOfYear(same) - Extra(y) = DayOfYear(d) - Extra(d.year)
          /\ Extra(d.year) \in {0, 1}
      <4>1. DaysBefore[d.month] \in Int
        BY DEF DaysBefore, Date
      <4>2. QED
        BY <1>0, <2>1, <2>4, <4>1 DEF DayOfYear, LeapDay, Date, Extra
    <3>2. QED
      BY <1>0, <1>1, <2>1, <2>2, <3>1
  <2>5. QED
    BY <2>3, <2>4 DEF Date
<1>3. CASE ~IsDate(same)
  <2>1. d.month = 2 /\ d.day = 29 /\ Leap(d.year) /\ ~Leap(y)
    <3>1. same.year = y /\ same.month = d.month /\ same.day = d.day
      BY DEF Date
    <3>2. d.month = 2 /\ d.day = 29 /\ Leap(d.year)
      BY <1>3, <3>1 DEF Date, IsDate, MonthLength
    <3>3. d.year % 4 = 0
      BY <1>0, <3>2 DEF Leap
    <3>4. y % 4 # 0
      BY <1>0, <3>3
    <3>5. y % 400 = 0 => y % 4 = 0
      BY <1>0
    <3>6. QED
      BY <3>2, <3>4, <3>5 DEF Leap
  <2>2. PreviousYear(d) = [year |-> y, month |-> 2, day |-> 28]
    BY <1>3, <2>1 DEF PreviousYear, Date
  <2>3. PreviousYear(d) \in Date
    BY <1>0, <2>2 DEF Date, IsDate, MonthLength
  <2>4. DayOfYear(d) = 60 /\ DayOfYear(PreviousYear(d)) = 59 /\ Extra(y) = 0
    BY <2>1, <2>2 DEF DayOfYear, LeapDay, DaysBefore, Extra
  <2>5. QED
    BY <1>0, <1>1, <2>2, <2>3, <2>4, DayNumbers
<1>4. QED
  BY <1>2, <1>3

\* A season ends on a date in every year, last year too: never on a leap day.
LEMMA SeasonEnds ==
    ASSUME NEW y \in Int, NEW end \in {SummerEnd, WinterEnd}
    PROVE  /\ EndIn(y, end) \in Date
           /\ EndIn(y, end).year = y
           /\ PreviousYear(EndIn(y, end)) = EndIn(y - 1, end)
<1>1. /\ end[1] \in 1..12
      /\ end[2] \in 1..31
      /\ \A z \in Int : end[2] \in 1..MonthLength(z, end[1])
  <2>1. end[1] \in 1..12 /\ end[2] \in 1..MonthLength(2001, end[1])
    BY PeriodsAssumption DEF IsDate
  <2>2. ~Leap(2001)
    BY DEF Leap
  <2>3. QED
    BY <2>1, <2>2 DEF MonthLength
<1>2. \A z \in Int : EndIn(z, end) \in Date
  BY <1>1 DEF EndIn, Date, IsDate
<1>3. [EndIn(y, end) EXCEPT !.year = EndIn(y, end).year - 1]
          = EndIn(y - 1, end)
  BY DEF EndIn
<1>4. IsDate(EndIn(y - 1, end))
  BY <1>2 DEF Date
<1>5. QED
  BY <1>2, <1>3, <1>4 DEF PreviousYear, EndIn

\* Of last year's and this year's end, the first is over.
LEMMA EndsInOrder ==
    ASSUME NEW y \in Int, NEW end \in {SummerEnd, WinterEnd},
           NEW d \in Date, d.year = y + 1
    PROVE  DayNumber(EndIn(y, end)) < DayNumber(d)
<1>1. EndIn(y, end) \in Date /\ EndIn(y, end).year = y
  BY SeasonEnds
<1>2. QED
  BY <1>1, YearsInOrder

\* Without a season the next end counts: none is nearer.
LEMMA NextEnd ==
    ASSUME NEW d \in Date
    PROVE  LET next == {e \in Ends(d.year) \cup Ends(d.year + 1) :
                            NotBefore(d, e)}
           IN  /\ Deadline(d, "all_year") \in next
               /\ \A f \in next : NotBefore(Deadline(d, "all_year"), f)
<1> DEFINE next == {e \in Ends(d.year) \cup Ends(d.year + 1) :
                        NotBefore(d, e)}
           First(e) == \A f \in next : NotBefore(e, f)
<1>1. d.year \in Int /\ d.year + 1 \in Int
  BY DEF Date
<1>2. \A e \in Ends(d.year) \cup Ends(d.year + 1) : DayNumber(e) \in Int
  <2>1. Ends(d.year) \cup Ends(d.year + 1) \subseteq Date
    BY <1>1, SeasonEnds DEF Ends
  <2>2. QED
    BY <2>1, DayNumbers
<1>3. EndIn(d.year + 1, SummerEnd) \in next
  <2>1. /\ EndIn(d.year + 1, SummerEnd) \in Date
        /\ EndIn(d.year + 1, SummerEnd).year = d.year + 1
    BY <1>1, SeasonEnds
  <2>2. DayNumber(d) < DayNumber(EndIn(d.year + 1, SummerEnd))
    BY <2>1, YearsInOrder
  <2>3. DayNumber(d) \in Int
    BY DayNumbers
  <2>4. QED
    BY <1>2, <2>2, <2>3 DEF NotBefore, Ends
<1>4. \E e \in next : First(e)
  <2> DEFINE a == EndIn(d.year, SummerEnd)
             b == EndIn(d.year, WinterEnd)
             p == EndIn(d.year + 1, SummerEnd)
             q == EndIn(d.year + 1, WinterEnd)
  <2>1. /\ next \subseteq {a, b, p, q}
        /\ p \in next
        /\ DayNumber(a) \in Int /\ DayNumber(b) \in Int
        /\ DayNumber(p) \in Int /\ DayNumber(q) \in Int
    BY <1>2, <1>3 DEF Ends
  <2> HIDE DEF next, a, b, p, q
  <2>2. QED
    BY <2>1 DEF NotBefore
<1>5. Deadline(d, "all_year") = CHOOSE e \in next : First(e)
  BY DEF Deadline
<1> HIDE DEF next, First
<1>6. Deadline(d, "all_year") \in next /\ First(Deadline(d, "all_year"))
  BY <1>4, <1>5
<1>7. QED
  BY <1>6 DEF next, First

\* The deadline is the end of a season, and a year before it that season was
\* over: there are sales to go by.
LEMMA DeadlineIsNear ==
    ASSUME NEW d \in Date, NEW season \in Seasons
    PROVE  /\ Deadline(d, season) \in Date
           /\ DayNumber(PreviousYear(Deadline(d, season))) < DayNumber(d)
<1> DEFINE y == d.year
<1>1. y \in Int /\ y + 1 \in Int /\ y - 1 \in Int
  BY DEF Date
<1>2. ASSUME NEW end \in {SummerEnd, WinterEnd}
      PROVE  /\ EndIn(y, end) \in Date /\ EndIn(y + 1, end) \in Date
             /\ DayNumber(PreviousYear(EndIn(y, end))) < DayNumber(d)
             /\ PreviousYear(EndIn(y + 1, end)) = EndIn(y, end)
             /\ DayNumber(EndIn(y, end)) < DayNumber(EndIn(y + 1, end))
  <2>1. /\ EndIn(y, end) \in Date /\ EndIn(y + 1, end) \in Date
        /\ EndIn(y + 1, end).year = y + 1
        /\ PreviousYear(EndIn(y, end)) = EndIn(y - 1, end)
    BY <1>1, SeasonEnds
  <2>2. PreviousYear(EndIn(y + 1, end)) = EndIn((y + 1) - 1, end)
    BY <1>1, SeasonEnds
  <2>3. (y + 1) - 1 = y /\ (y - 1) + 1 = y
    BY <1>1
  <2>4. DayNumber(EndIn(y - 1, end)) < DayNumber(d)
    BY <1>1, <2>3, EndsInOrder
  <2>5. DayNumber(EndIn(y, end)) < DayNumber(EndIn(y + 1, end))
    BY <1>1, <2>1, EndsInOrder
  <2>6. QED
    BY <2>1, <2>2, <2>3, <2>4, <2>5
<1>3. DayNumber(d) \in Int /\ \A e \in Date : DayNumber(e) \in Int
  BY DayNumbers
<1>4. CASE season = "summer"
  BY <1>2, <1>4 DEF Deadline
<1>5. CASE season = "winter"
  <2>1. CASE NotBefore(d, EndIn(y, WinterEnd))
    BY <1>2, <1>5, <2>1 DEF Deadline
  <2>2. CASE ~NotBefore(d, EndIn(y, WinterEnd))
    <3>1. Deadline(d, season) = EndIn(y + 1, WinterEnd)
      BY <1>5, <2>2 DEF Deadline
    <3>2. DayNumber(EndIn(y, WinterEnd)) < DayNumber(d)
      BY <1>2, <1>3, <2>2 DEF NotBefore
    <3>3. QED
      BY <1>2, <3>1, <3>2
  <2>3. QED
    BY <2>1, <2>2
<1>6. CASE season = "all_year"
  <2> DEFINE e == Deadline(d, "all_year")
  <2>1. /\ e \in Ends(y) \cup Ends(y + 1)
        /\ \A f \in Ends(y) \cup Ends(y + 1) :
              NotBefore(d, f) => NotBefore(e, f)
    BY NextEnd
  <2> HIDE DEF e
  <2>2. CASE e \in Ends(y)
    BY <1>2, <1>6, <2>2 DEF Ends, e
  <2>3. ASSUME NEW end \in {SummerEnd, WinterEnd}, e = EndIn(y + 1, end)
        PROVE  e \in Date /\ DayNumber(PreviousYear(e)) < DayNumber(d)
    <3>1. ~NotBefore(e, EndIn(y, end))
      BY <1>2, <1>3, <2>3 DEF NotBefore
    <3>2. ~NotBefore(d, EndIn(y, end))
      BY <2>1, <3>1 DEF Ends
    <3>3. DayNumber(EndIn(y, end)) < DayNumber(d)
      BY <1>2, <1>3, <3>2 DEF NotBefore
    <3>4. QED
      BY <1>2, <2>3, <3>3
  <2>4. QED
    BY <1>6, <2>1, <2>2, <2>3 DEF Ends, e
<1>7. QED
  BY <1>4, <1>5, <1>6 DEF Seasons

-----------------------------------------------------------------------------
(* The windows of a forecast.                                              *)

\* The windows, once chosen, are those of a season that is not over this year
\* but was last year.
WindowInv ==
    /\ asOf \in AsOf
    /\ \/ window = NoWindow
       \/ \E end \in Date :
             /\ NotBefore(asOf, end)
             /\ DayNumber(PreviousYear(end)) < DayNumber(asOf)
             /\ window = Window(asOf, end)

\* The day of a forecast is a date.
LEMMA AsOfIsDate == AsOf \subseteq Date
  BY CalculationAssumption DEF Date, IsDate, MonthLength

\* Labels that agree, or are lacking, name a season.
LEMMA LabelsNameSeason ==
    ASSUME NEW first \in SUBSET Seasons, NEW second \in SUBSET Seasons
    PROVE  (CHOOSE k \in Kinds({first, second}) : TRUE) \in Seasons
<1>1. Kinds({first, second}) \subseteq Seasons
  BY DEF Kinds, Seasons
<1>2. Kinds({first, second}) # {}
  <2>1. CASE first = {}
    BY <2>1 DEF Kinds
  <2>2. CASE first # {}
    BY <2>2 DEF Kinds
  <2>3. QED
    BY <2>1, <2>2
<1>3. QED
  BY <1>1, <1>2

\* Only ChooseWindow sets the windows, and nothing moves the day.
LEMMA WindowStep == WindowInv /\ [Next]_vars => WindowInv'
<1> SUFFICES ASSUME WindowInv, [Next]_vars PROVE WindowInv'
  OBVIOUS
<1>1. asOf' = asOf
  BY DEF Next, vars, RefuseStyle, ChooseWindow, Preserve, Lacking,
     ReadWindows, CheckBase, ChooseShares, ReadTrends, Allocate
<1>2. CASE window' = window
  BY <1>1, <1>2 DEF WindowInv
<1>3. CASE window' # window
  <2>1. ChooseWindow
    BY <1>3 DEF Next, vars, RefuseStyle, Preserve, Lacking, ReadWindows,
       CheckBase, ChooseShares, ReadTrends, Allocate
  <2>2. PICK first \in SUBSET Seasons, second \in SUBSET Seasons :
           LET season == CHOOSE k \in Kinds({first, second}) : TRUE
               end == Deadline(asOf, season)
           IN  NotBefore(asOf, end) /\ window' = Window(asOf, end)
    BY <1>3, <2>1 DEF ChooseWindow
  <2> DEFINE season == CHOOSE k \in Kinds({first, second}) : TRUE
             end == Deadline(asOf, season)
  <2>3. season \in Seasons
    BY LabelsNameSeason
  <2> HIDE DEF season
  <2>4. end \in Date /\ DayNumber(PreviousYear(end)) < DayNumber(asOf)
    BY <2>3, DeadlineIsNear, AsOfIsDate DEF WindowInv
  <2>5. NotBefore(asOf, end) /\ window' = Window(asOf, end)
    BY <2>2 DEF season
  <2> HIDE DEF end
  <2>6. QED
    BY <1>1, <2>4, <2>5 DEF WindowInv
<1>4. QED
  BY <1>2, <1>3

\* The windows are none, or those of a season.
THEOREM WindowInvariant == Spec => []WindowInv
<1>1. Init => WindowInv
  BY DEF Init, WindowInv
<1>2. QED
  BY <1>1, WindowStep, PTL DEF Spec

\* For any day and any ends of the seasons, no window of sales reaches into the
\* day of the forecast, whatever the deadline (forecast_window).
THEOREM DaysAreOver == Spec => []OnlyDaysThatAreOver
<1>1. WindowInv => OnlyDaysThatAreOver
  <2> SUFFICES ASSUME WindowInv PROVE OnlyDaysThatAreOver
    OBVIOUS
  <2>1. CASE window = NoWindow
    BY <2>1 DEF OnlyDaysThatAreOver, NoWindow
  <2>2. CASE window # NoWindow
    <3>1. PICK end \in Date :
             /\ DayNumber(PreviousYear(end)) < DayNumber(asOf)
             /\ window = Window(asOf, end)
      BY <2>2 DEF WindowInv
    <3>2. /\ DayNumber(asOf) \in Int
          /\ DayNumber(PreviousYear(asOf)) \in Int
          /\ DayNumber(PreviousYear(end)) \in Int
          /\ DayNumber(asOf) - DayNumber(PreviousYear(asOf)) \in 365..366
      BY AsOfIsDate, YearAgo, DayNumbers DEF WindowInv
    <3>3. /\ window["current"][2] = DayNumber(asOf)
          /\ window["previous"][2] = DayNumber(PreviousYear(asOf))
          /\ window["history"][2] = DayNumber(PreviousYear(end)) + 1
      BY <3>1 DEF Window
    <3>4. QED
      BY <2>2, <3>1, <3>2, <3>3 DEF OnlyDaysThatAreOver
  <2>3. QED
    BY <2>1, <2>2
<1>2. QED
  BY <1>1, WindowInvariant, PTL

\* For any day and any ends of the seasons, leap years included, sales are
\* compared with those of the same days of last year (forecast_window).
THEOREM DaysAreCompared == Spec => []SameDaysLastYear
<1>1. WindowInv => SameDaysLastYear
  <2> SUFFICES ASSUME WindowInv PROVE SameDaysLastYear
    OBVIOUS
  <2>1. CASE window = NoWindow
    BY <2>1 DEF SameDaysLastYear, NoWindow
  <2>2. CASE window # NoWindow
    <3>1. PICK end \in Date : window = Window(asOf, end)
      BY <2>2 DEF WindowInv
    <3> DEFINE today == DayNumber(asOf)
               prior == DayNumber(PreviousYear(asOf))
               last == DayNumber(end)
               before == DayNumber(PreviousYear(end))
    <3>2. /\ today \in Int /\ prior \in Int /\ last \in Int /\ before \in Int
          /\ today - prior \in 365..366
          /\ last - before \in 365..366
      BY AsOfIsDate, YearAgo, DayNumbers DEF WindowInv
    <3>3. /\ window["current"] = <<today - 30, today>>
          /\ window["previous"] = <<prior - 30, prior>>
          /\ window["future"] = <<today, last + 1>>
          /\ window["history"] = <<prior, before + 1>>
      BY <3>1 DEF Window
    <3> HIDE DEF today, prior, last, before
    <3>4. QED
      BY <3>2, <3>3 DEF SameDaysLastYear
  <2>3. QED
    BY <2>1, <2>2
<1>2. QED
  BY <1>1, WindowInvariant, PTL

-----------------------------------------------------------------------------
(* The numbers of a forecast.                                              *)

\* Whole numbers and tenths are numbers.
LEMMA NumberType ==
    \A n \in Nat : /\ Int2Dec(n) \in Decimal /\ Int2Dec(n).c = n
                   /\ Tenths(n) \in Decimal /\ Tenths(n).c = n
BY DEF Int2Dec, Tenths, Decimal

\* A trend is a number between 0.8 and 1.2, so no division by it fails.
LEMMA TrendType ==
    ASSUME NEW t \in Trend
    PROVE  TrendFactor(t) \in Decimal /\ TrendFactor(t).c # 0
<1>1. t.total \in Nat /\ t.days15 \in Nat /\ t.days7 \in Nat
  BY DEF Trend
<1>2. CASE t.total = 0
  BY <1>2, NumberType DEF TrendFactor
<1>3. CASE t.total # 0
  <2> DEFINE mean == Over(Int2Dec(t.total), Int2Dec(30))
             w == Over(Weighted(t), mean)
             v == Larger(Tenths(8), w)
  <2>1. mean \in Decimal /\ mean.c # 0
    BY <1>1, <1>3, NumberType, OverType
  <2>2. Weighted(t) \in Decimal
    <3>1. /\ Over(Times(Tenths(7), Int2Dec(t.total)), Int2Dec(30)) \in Decimal
          /\ Over(Times(Tenths(2), Int2Dec(t.days15)), Int2Dec(15)) \in Decimal
          /\ Over(Times(Tenths(1), Int2Dec(t.days7)), Int2Dec(7)) \in Decimal
      BY <1>1, NumberType, TimesType, OverType
    <3>2. QED
      BY <3>1, PlusType DEF Weighted
  <2>3. w \in Decimal
    BY <2>1, <2>2, OverType
  <2>4. Tenths(8) \in Decimal /\ Tenths(8).c = 8
    BY NumberType
  <2> HIDE DEF mean, w
  <2>5. v \in Decimal /\ v.c # 0
    <3>1. CASE ~AtMost(Tenths(8), w)
      BY <2>4, <3>1 DEF Larger
    <3>2. CASE AtMost(Tenths(8), w)
      <4> DEFINE e == Least(Tenths(8).e, w.e)
      <4>1. e \in Int /\ e <= Tenths(8).e /\ e <= w.e
        BY <2>3, <2>4 DEF Least, Decimal
      <4> HIDE DEF e
      <4>2. /\ At(Tenths(8), e) # 0
            /\ At(Tenths(8), e) \in Nat /\ At(w, e) \in Nat
        BY <2>3, <2>4, <4>1, ZeroAt, AtScale
      <4>3. At(Tenths(8), e) <= At(w, e)
        BY <2>3, <2>4, <3>2, <4>1, AtMostAt
      <4>4. w.c # 0
        BY <2>3, <4>1, <4>2, <4>3, ZeroAt
      <4>5. QED
        BY <2>3, <3>2, <4>4 DEF Larger
    <3>3. QED
      BY <3>1, <3>2
  <2> HIDE DEF v
  <2>6. Smaller(Tenths(12), v) \in Decimal /\ Smaller(Tenths(12), v).c # 0
    BY <2>5, NumberType DEF Smaller
  <2>7. TrendFactor(t) = Smaller(Tenths(12), v)
    BY <1>3 DEF TrendFactor, v, w, mean
  <2>8. QED
    BY <2>6, <2>7
<1>4. QED
  BY <1>2, <1>3

\* The demand and the multiplier are numbers: nothing is divided by 0.
LEMMA TheoryType ==
    ASSUME NEW demand \in Nat, NEW t \in Trend, NEW u \in Trend, u.total # 0
    PROVE  Theory(demand, t, u) \in Decimal /\ Multiplier(t, u) \in Decimal
<1>1. t.total \in Nat /\ u.total \in Nat
  BY DEF Trend
<1>2. /\ Int2Dec(demand) \in Decimal /\ Int2Dec(t.total) \in Decimal
      /\ Int2Dec(u.total) \in Decimal /\ Int2Dec(u.total).c # 0
  BY <1>1, NumberType
<1>3. /\ TrendFactor(t) \in Decimal
      /\ TrendFactor(u) \in Decimal /\ TrendFactor(u).c # 0
  BY TrendType
<1>4. Growth \in Decimal
  BY ForecastAssumption DEF Growth, Decimal
<1>5. Multiplier(t, u) \in Decimal
  <2>1. Over(Int2Dec(t.total), Int2Dec(u.total)) \in Decimal
    BY <1>2, OverType
  <2>2. QED
    BY <1>3, <2>1, TimesType, OverType DEF Multiplier
<1>6. Times(Int2Dec(demand), Growth) \in Decimal
  BY <1>2, <1>4, TimesType
<1>7. Over(Times(Over(Times(Int2Dec(demand), Int2Dec(t.total)),
                      Int2Dec(u.total)), TrendFactor(t)),
           TrendFactor(u)) \in Decimal
  <2>1. Over(Times(Int2Dec(demand), Int2Dec(t.total)),
             Int2Dec(u.total)) \in Decimal
    BY <1>2, TimesType, OverType
  <2>2. QED
    BY <1>3, <2>1, TimesType, OverType
<1>8. QED
  BY <1>5, <1>6, <1>7 DEF Theory

\* Who weighs more gets no smaller share, however it is rounded.
LEMMA SharesOrder ==
    ASSUME NEW S, NEW theory \in Decimal, NEW w \in [S -> Nat],
           SumFunction(w) \in Nat \ {0}
    PROVE  LET shares == Shares(theory, w)
           IN  /\ shares \in [S -> Nat]
               /\ \A s, r \in S : w[s] <= w[r] => shares[s] <= shares[r]
<1> DEFINE sum == SumFunction(w)
           Product(s) == Times(theory, Int2Dec(w[s]))
           Share(s) == Over(Over(Product(s), Int2Dec(sum)), Int2Dec(Unit))
           shares == [s \in DOMAIN w |-> HalfUp(Share(s)) * Unit]
<1>1. Shares(theory, w) = shares
  BY DEF Shares
<1>2. /\ Unit \in Nat \ {0}
      /\ Int2Dec(Unit) \in Decimal /\ Int2Dec(Unit).c # 0
      /\ Int2Dec(sum) \in Decimal /\ Int2Dec(sum).c # 0
  BY ForecastAssumption, NumberType
<1>3. ASSUME NEW s \in S, NEW r \in S, w[s] <= w[r]
      PROVE  /\ HalfUp(Share(s)) \in Nat /\ HalfUp(Share(r)) \in Nat
             /\ HalfUp(Share(s)) <= HalfUp(Share(r))
  <2>1. /\ Product(s) \in Decimal /\ Product(r) \in Decimal
        /\ AtMost(Product(s), Product(r))
    <3> DEFINE m == theory.c * w[s]
               n == theory.c * w[r]
               e == theory.e + 0
    <3>1. /\ theory.c \in Nat /\ theory.e \in Int
          /\ w[s] \in Nat /\ w[r] \in Nat
      BY DEF Decimal
    <3>2. m <= n /\ e \in Int
      BY <1>3, <3>1, TimesOrder
    <3>3. m \in Nat /\ n \in Nat
      BY <3>1
    <3>4. /\ Product(s) = Rounded(m, e, FALSE)
          /\ Product(r) = Rounded(n, e, FALSE)
      BY DEF Times, Int2Dec
    <3> HIDE DEF m, n, e, Product
    <3>5. AtMost(Rounded(m, e, FALSE), Rounded(n, e, FALSE))
      BY <3>2, <3>3, RoundedInOrder
    <3>6. Rounded(m, e, FALSE) \in Decimal /\ Rounded(n, e, FALSE) \in Decimal
      BY <3>2, <3>3, RoundedType
    <3>7. QED
      BY <3>4, <3>5, <3>6
  <2> HIDE DEF Product, sum
  <2>2. /\ Over(Product(s), Int2Dec(sum)) \in Decimal
        /\ Over(Product(r), Int2Dec(sum)) \in Decimal
        /\ AtMost(Over(Product(s), Int2Dec(sum)),
                  Over(Product(r), Int2Dec(sum)))
    BY <1>2, <2>1, OverInOrder
  <2>3. /\ Share(s) \in Decimal /\ Share(r) \in Decimal
        /\ AtMost(Share(s), Share(r))
    BY <1>2, <2>2, OverInOrder
  <2> HIDE DEF Share
  <2>4. QED
    BY <2>3, HalfUpInOrder
<1> HIDE DEF Share
<1>4. shares \in [S -> Nat]
  BY <1>2, <1>3
<1>5. ASSUME NEW s \in S, NEW r \in S, w[s] <= w[r]
      PROVE  shares[s] <= shares[r]
  <2>1. HalfUp(Share(s)) * Unit <= HalfUp(Share(r)) * Unit
    BY <1>2, <1>3, <1>5, TimesOrder
  <2>2. QED
    BY <2>1
<1> HIDE DEF shares
<1>6. QED
  BY <1>1, <1>4, <1>5

OverOne(n) == <<n, 1>>

\* Whole numbers and tenths as fractions.
LEMMA WholeType ==
    ASSUME NEW n \in Nat
    PROVE  /\ OverOne(n) \in Fraction
           /\ n # 0 => OverOne(n) \in Positive
           /\ AsFraction(Int2Dec(n)) = OverOne(n)
           /\ AsFraction(Tenths(n)) = <<n, 10>>
           /\ <<n, 10>> \in Fraction
<1>1. Ten[0] = 1 /\ Ten[1] = 10
  BY TenType
<1>2. AsFraction(Int2Dec(n)) = OverOne(n)
  <2>1. Floor(Int2Dec(n)) = 0
    BY DEF Floor, Int2Dec, Least
  <2>2. QED
    BY <1>1, <2>1 DEF AsFraction, Num, Den, Int2Dec, OverOne
<1>3. AsFraction(Tenths(n)) = <<n, 10>>
  <2>1. Floor(Tenths(n)) = -1
    BY DEF Floor, Tenths, Least
  <2>2. QED
    BY <1>1, <2>1 DEF AsFraction, Num, Den, Tenths
<1>4. QED
  BY <1>2, <1>3 DEF OverOne, Fraction, Positive

\* The cap as a fraction.
LEMMA GrowthFraction ==
    /\ Growth \in Decimal
    /\ AsFraction(Growth) = <<Cap, 100>>
    /\ <<Cap, 100>> \in Positive
<1>1. Ten[0] = 1 /\ Ten[1] = 10 /\ Ten[2] = 100
  <2>1. Ten[1] = 10 * Ten[0] /\ Ten[2] = 10 * Ten[1] /\ Ten[0] = 1
    <3>1. Ten[0 + 1] = 10 * Ten[0] /\ Ten[1 + 1] = 10 * Ten[1]
      BY TenType
    <3>2. QED
      BY <3>1, TenType
  <2>2. QED
    BY <2>1
<1>2. Floor(Growth) = -2
  BY DEF Floor, Growth, Least
<1>3. QED
  BY <1>1, <1>2, ForecastAssumption
     DEF AsFraction, Num, Den, Growth, Decimal, Fraction, Positive

\* A fraction in lowest terms is the same.
LEMMA ReducedSame ==
    ASSUME NEW n \in Nat, NEW d \in Nat \ {0}
    PROVE  /\ Reduced(n, d) \in Fraction
           /\ FSame(<<n, d>>, Reduced(n, d))
           /\ n # 0 => Reduced(n, d) \in Positive
<1> DEFINE Divides(g) == n % g = 0 /\ d % g = 0
           Gcd(g) == /\ n % g = 0 /\ d % g = 0
                     /\ \A h \in (g + 1)..d : n % h # 0 \/ d % h # 0
           left == {k \in Nat : k < d /\ Divides(d - k)}
<1>1. \E g \in 1..d : Gcd(g)
  <2>1. d - 1 \in left
    BY DEF left
  <2>2. PICK k \in left : \A l \in left : k <= l
    BY <2>1, LeastElement
  <2>3. d - k \in 1..d /\ Divides(d - k)
    BY <2>2
  <2>4. ASSUME NEW h \in ((d - k) + 1)..d PROVE ~Divides(h)
    <3>1. d - h \in Nat /\ d - h < d /\ d - (d - h) = h /\ d - h < k
      BY <2>2
    <3>2. CASE Divides(h)
      <4>1. d - h \in left
        BY <3>1, <3>2
      <4>2. QED
        BY <2>2, <3>1, <4>1
    <3>3. QED
      BY <3>2
  <2>5. QED
    BY <2>3, <2>4
<1> DEFINE g == CHOOSE x \in 1..d : Gcd(x)
           p == n \div g
           q == d \div g
<1>2. Reduced(n, d) = <<p, q>>
  BY DEF Reduced
<1>3. g \in 1..d /\ Gcd(g)
  BY <1>1
<1>4. g \in Nat \ {0} /\ n % g = 0 /\ d % g = 0
  BY <1>3
<1> HIDE DEF g
<1>5. p \in Nat /\ q \in Nat /\ n = p * g /\ d = q * g
  BY <1>4
<1>6. q # 0 /\ (n # 0 => p # 0)
  BY <1>4, <1>5
<1> HIDE DEF p, q
<1>7. n * q = p * d
  BY <1>4, <1>5
<1>8. QED
  BY <1>2, <1>5, <1>6, <1>7 DEF FSame, Fraction, Positive

\* A weighted window, as a fraction.
LEMMA PieceIsNear ==
    ASSUME Precision >= 4, NEW a \in Nat, NEW n \in Nat, NEW d \in Nat \ {0}
    PROVE  LET z == Over(Times(Tenths(a), Int2Dec(n)), Int2Dec(d))
           IN  /\ z \in Decimal
               /\ Near(AsFraction(z), <<a * n, 10 * d>>, 2)
<1> DEFINE x == Tenths(a)
           y == Int2Dec(n)
           w == Int2Dec(d)
           p == Times(x, y)
           z == Over(p, w)
           f == <<a, 10>>
           g == OverOne(n)
           h == OverOne(d)
<1>1. /\ x \in Decimal /\ y \in Decimal /\ w \in Decimal /\ w.c # 0
      /\ f \in Fraction /\ g \in Fraction /\ h \in Positive /\ h \in Fraction
      /\ AsFraction(x) = f /\ AsFraction(y) = g /\ AsFraction(w) = h
  BY NumberType, WholeType DEF Positive
<1>2. p \in Decimal /\ z \in Decimal
  BY <1>1, TimesType, OverType
<1> DEFINE zero == 0
           one == 1
           two == 2
<1>3. /\ zero \in Nat /\ one \in Nat /\ two \in Nat
      /\ zero <= Parts /\ one < Parts /\ two < Parts
      /\ one = zero + zero + 1 /\ two = one + zero + 1
  BY PartsMany, PartsType
<1>4. FTimes(f, g) \in Fraction
  BY <1>1, FType
<1>5. FTimes(FTimes(f, g), FFlip(h)) = <<a * n, 10 * d>>
  BY DEF FTimes, FFlip, OverOne
<1> HIDE DEF x, y, w, p, z, f, g, h, zero, one, two
<1>6. /\ Near(AsFraction(x), f, zero)
      /\ Near(AsFraction(y), g, zero)
      /\ Near(AsFraction(w), h, zero)
  BY <1>1, <1>3, NearSelf DEF FSame
<1>7. Near(AsFraction(p), FTimes(f, g), one)
  BY <1>1, <1>3, <1>6, NearProduct DEF p
<1>8. Near(AsFraction(z), FTimes(FTimes(f, g), FFlip(h)), two)
  BY <1>1, <1>2, <1>3, <1>4, <1>6, <1>7, NearQuotient DEF z
<1>9. QED
  BY <1>2, <1>5, <1>8 DEF x, y, w, p, z, two

\* The weighted sales, as a fraction.
LEMMA WeightedIsNear ==
    ASSUME Precision >= 4, NEW t \in Trend
    PROVE  LET f1 == <<7 * t.total, 10 * 30>>
               f2 == <<2 * t.days15, 10 * 15>>
               f3 == <<1 * t.days7, 10 * 7>>
           IN  /\ Weighted(t) \in Decimal
               /\ FPlus(FPlus(f1, f2), f3) \in Fraction
               /\ Near(AsFraction(Weighted(t)), FPlus(FPlus(f1, f2), f3), 4)
<1> DEFINE x1 == Over(Times(Tenths(7), Int2Dec(t.total)), Int2Dec(30))
           x2 == Over(Times(Tenths(2), Int2Dec(t.days15)), Int2Dec(15))
           x3 == Over(Times(Tenths(1), Int2Dec(t.days7)), Int2Dec(7))
           f1 == <<7 * t.total, 10 * 30>>
           f2 == <<2 * t.days15, 10 * 15>>
           f3 == <<1 * t.days7, 10 * 7>>
           two == 2
           three == 3
           four == 4
<1>1. t.total \in Nat /\ t.days15 \in Nat /\ t.days7 \in Nat
  BY DEF Trend
<1>2. x1 \in Decimal /\ Near(AsFraction(x1), f1, two)
  BY <1>1, PieceIsNear
<1>3. x2 \in Decimal /\ Near(AsFraction(x2), f2, two)
  BY <1>1, PieceIsNear
<1>4. x3 \in Decimal /\ Near(AsFraction(x3), f3, two)
  BY <1>1, PieceIsNear
<1>5. f1 \in Fraction /\ f2 \in Fraction /\ f3 \in Fraction
  BY <1>1 DEF Fraction
<1>6. /\ two \in Nat /\ three \in Nat /\ four \in Nat
      /\ two <= three /\ three <= Parts /\ three < Parts /\ four < Parts
      /\ three = two + 1 /\ four = three + 1
  BY PartsMany, PartsType
<1>7. Weighted(t) = Plus(Plus(x1, x2), x3)
  BY DEF Weighted
<1> HIDE DEF x1, x2, x3, f1, f2, f3, two, three, four
<1>8. Plus(x1, x2) \in Decimal /\ Plus(Plus(x1, x2), x3) \in Decimal
  BY <1>2, <1>3, <1>4, PlusType
<1>9. FPlus(f1, f2) \in Fraction /\ FPlus(FPlus(f1, f2), f3) \in Fraction
  BY <1>5, FType
<1>10. Near(AsFraction(Plus(x1, x2)), FPlus(f1, f2), three)
  BY <1>2, <1>3, <1>5, <1>6, NearTotal
<1>11. Near(AsFraction(x3), f3, three)
  <2>1. AsFraction(x3) \in Fraction
    BY <1>4, OperationsAreNear
  <2>2. QED
    BY <1>4, <1>5, <1>6, <2>1, NearMore
<1>12. Near(AsFraction(Plus(Plus(x1, x2), x3)), FPlus(FPlus(f1, f2), f3), four)
  BY <1>4, <1>5, <1>6, <1>8, <1>9, <1>10, <1>11, NearTotal
<1>13. QED
  BY <1>7, <1>8, <1>9, <1>12 DEF f1, f2, f3, four

\* What the rules weigh, over the average day.
Ratio(t) == <<49 * t.total + 28 * t.days15 + 30 * t.days7, 70 * t.total>>

\* The ratio before it is bounded is off by six parts.
LEMMA RatioIsNear ==
    ASSUME Precision >= 4, NEW t \in Trend, t.total # 0
    PROVE  LET z == Over(Weighted(t), Over(Int2Dec(t.total), Int2Dec(30)))
           IN  /\ z \in Decimal
               /\ Ratio(t) \in Positive
               /\ Near(AsFraction(z), Ratio(t), 6)
<1> DEFINE f1 == <<7 * t.total, 10 * 30>>
           f2 == <<2 * t.days15, 10 * 15>>
           f3 == <<1 * t.days7, 10 * 7>>
           f == FPlus(FPlus(f1, f2), f3)
           x == Weighted(t)
           n == Int2Dec(t.total)
           d == Int2Dec(30)
           y == Over(n, d)
           z == Over(x, y)
           i == OverOne(t.total)
           j == OverOne(30)
           g == FTimes(i, FFlip(j))
<1>1. t.total \in Nat \ {0} /\ t.days15 \in Nat /\ t.days7 \in Nat
  BY DEF Trend
<1>2. x \in Decimal /\ f \in Fraction /\ Near(AsFraction(x), f, 4)
  BY WeightedIsNear
<1>3. /\ n \in Decimal /\ n.c # 0 /\ d \in Decimal /\ d.c # 0
      /\ i \in Positive /\ j \in Positive
      /\ AsFraction(n) = i /\ AsFraction(d) = j
  <2>1. \A k \in Nat \ {0} :
           /\ Int2Dec(k) \in Decimal /\ Int2Dec(k).c # 0
           /\ OverOne(k) \in Positive
           /\ AsFraction(Int2Dec(k)) = OverOne(k)
    BY NumberType, WholeType
  <2>2. t.total \in Nat \ {0} /\ 30 \in Nat \ {0}
    BY <1>1
  <2>3. QED
    BY <2>1, <2>2
<1>4. y \in Decimal /\ y.c # 0 /\ z \in Decimal
  BY <1>2, <1>3, OverType
<1>5. g = <<t.total, 30>> /\ g \in Positive
  BY <1>1 DEF FTimes, FFlip, OverOne, Positive, Fraction
<1>6. Ratio(t) \in Positive
  <2>1. /\ 49 * t.total + 28 * t.days15 + 30 * t.days7 \in Nat \ {0}
        /\ 70 * t.total \in Nat \ {0}
    <3>1. \A a \in Nat \ {0}, b, c \in Nat :
             49 * a + 28 * b + 30 * c \in Nat \ {0} /\ 70 * a \in Nat \ {0}
      OBVIOUS
    <3>2. QED
      BY <1>1, <3>1
  <2>2. QED
    BY <2>1 DEF Ratio, Positive, Fraction
<1>7. FSame(FTimes(f, FFlip(g)), Ratio(t))
  <2> DEFINE a == t.total
             b == t.days15
             c == t.days7
  <2>1. f = <<((7 * a) * 150 + (2 * b) * 300) * 70 + (1 * c) * (300 * 150),
              (300 * 150) * 70>>
    BY <1>1 DEF FPlus
  <2>2. FTimes(f, FFlip(g))
          = <<(((7 * a) * 150 + (2 * b) * 300) * 70 + (1 * c) * (300 * 150))
                 * 30, ((300 * 150) * 70) * a>>
    BY <1>5, <2>1 DEF FTimes, FFlip
  <2>3. Ratio(t) = <<49 * a + 28 * b + 30 * c, 70 * a>>
    BY DEF Ratio
  <2>4. a \in Nat /\ b \in Nat /\ c \in Nat
    BY <1>1
  <2> HIDE DEF a, b, c, f, g
  <2>5. ((((7 * a) * 150 + (2 * b) * 300) * 70 + (1 * c) * (300 * 150)) * 30)
           * (70 * a)
        = (49 * a + 28 * b + 30 * c) * (((300 * 150) * 70) * a)
    BY <2>4
  <2>6. QED
    BY <2>2, <2>3, <2>5 DEF FSame
<1> DEFINE zero == 0
           one == 1
           four == 4
           six == 6
<1>8. /\ zero \in Nat /\ one \in Nat /\ four \in Nat /\ six \in Nat
      /\ zero <= Parts /\ one < Parts /\ four < Parts /\ six < Parts
      /\ one = zero + zero + 1 /\ six = four + one + 1
  BY PartsMany, PartsType
<1>9. Near(AsFraction(x), f, four)
  BY <1>2
<1>10. i \in Fraction /\ j \in Fraction /\ g \in Fraction
       /\ Ratio(t) \in Fraction
  BY <1>3, <1>5, <1>6 DEF Positive
<1> HIDE DEF f, x, n, d, y, z, i, j, g, zero, one, four, six
<1>11. Near(AsFraction(n), i, zero) /\ Near(AsFraction(d), j, zero)
  BY <1>3, <1>8, <1>10, NearSelf DEF FSame
<1>12. Near(AsFraction(y), g, one)
  BY <1>3, <1>8, <1>10, <1>11, NearQuotient DEF y, g
<1>13. Near(AsFraction(z), FTimes(f, FFlip(g)), six)
  BY <1>2, <1>4, <1>5, <1>8, <1>9, <1>12, NearQuotient DEF z
<1>14. Near(AsFraction(z), Ratio(t), six)
  <2>1. AsFraction(z) \in Fraction /\ FFlip(g) \in Fraction
    BY <1>4, <1>5, <1>10, OperationsAreNear, FType DEF Positive
  <2>2. FTimes(f, FFlip(g)) \in Fraction
    BY <1>2, <2>1, FType
  <2>3. QED
    BY <1>7, <1>8, <1>10, <1>13, <2>1, <2>2, NearSame
<1>15. QED
  BY <1>4, <1>6, <1>14 DEF x, y, n, d, z, six

\* The trend factor is near that of the rules.
LEMMA TrendIsNear ==
    ASSUME Precision >= 4, NEW t \in Trend
    PROVE  /\ ExactTrend(t) \in Positive
           /\ Near(AsFraction(TrendFactor(t)), ExactTrend(t), 6)
<1> DEFINE six == 6
           low == <<4, 5>>
           high == <<6, 5>>
           one == <<1, 1>>
<1>1. six \in Nat /\ six <= Parts /\ six < Parts
  BY PartsMany, PartsType
<1>2. low \in Positive /\ high \in Positive /\ one \in Positive
      /\ low \in Fraction /\ high \in Fraction /\ one \in Fraction
  BY DEF Positive, Fraction
<1>3. t.total \in Nat
  BY DEF Trend
<1>4. CASE t.total = 0
  <2>1. ExactTrend(t) = one
    BY <1>4 DEF ExactTrend
  <2>2. AsFraction(TrendFactor(t)) = one
    BY <1>4, WholeType DEF TrendFactor, OverOne
  <2> HIDE DEF six, one
  <2>3. Near(one, one, six)
    BY <1>1, <1>2, NearSelf DEF FSame
  <2>4. QED
    BY <1>2, <2>1, <2>2, <2>3 DEF six
<1>5. CASE t.total # 0
  <2> DEFINE f == Ratio(t)
             z == Over(Weighted(t), Over(Int2Dec(t.total), Int2Dec(30)))
             v == Larger(Tenths(8), z)
             w == Smaller(Tenths(12), v)
  <2>1. z \in Decimal /\ f \in Positive /\ f \in Fraction
        /\ Near(AsFraction(z), f, six)
    BY <1>5, RatioIsNear DEF Positive
  <2>2. TrendFactor(t) = w
    BY <1>5 DEF TrendFactor
  <2>3. /\ Tenths(8) \in Decimal /\ Tenths(12) \in Decimal
        /\ FSame(AsFraction(Tenths(8)), low)
        /\ FSame(AsFraction(Tenths(12)), high)
    <3>1. \A k \in Nat : /\ Tenths(k) \in Decimal
                          /\ AsFraction(Tenths(k)) = <<k, 10>>
      BY NumberType, WholeType
    <3>2. /\ Tenths(8) \in Decimal /\ AsFraction(Tenths(8)) = <<8, 10>>
          /\ Tenths(12) \in Decimal /\ AsFraction(Tenths(12)) = <<12, 10>>
      BY <3>1
    <3>3. QED
      BY <3>2 DEF FSame
  <2>4. v \in Decimal
    BY <2>1, <2>3 DEF Larger
  <2>5. ExactTrend(t) = CASE t.total = 0 -> one
                          [] t.total > 0 /\ LessThan(f, low) -> low
                          [] t.total > 0 /\ LessThan(high, f) -> high
                          [] OTHER -> Reduced(f[1], f[2])
    BY DEF ExactTrend, Ratio
  <2>6. /\ f[1] \in Nat /\ f[2] \in Nat /\ f[2] # 0 /\ f[1] # 0
        /\ f = <<f[1], f[2]>>
    BY <2>1, FractionParts DEF Positive
  <2>7. /\ LessThan(f, low) <=> ~FAtMost(low, f)
        /\ LessThan(high, f) <=> ~FAtMost(f, high)
        /\ FAtMost(low, high) /\ ~FAtMost(high, low)
    BY <2>6 DEF LessThan, FAtMost
  <2> HIDE DEF f, z, v, w, low, high, one, six
  <2>8. CASE LessThan(f, low)
    <3>1. FAtMost(f, low)
      BY <1>2, <2>1, <2>7, <2>8, FOrder
    <3>2. Near(AsFraction(v), low, six)
      BY <1>1, <1>2, <2>1, <2>3, <3>1, BoundIsNear DEF v
    <3>3. Near(AsFraction(w), low, six)
      BY <1>1, <1>2, <2>3, <2>4, <2>7, <3>2, BoundIsNear DEF w
    <3>4. ExactTrend(t) = low
      <4>1. ~LessThan(high, f) \/ LessThan(f, low)
        BY <2>8
      <4>2. FAtMost(f, high)
        BY <1>2, <2>1, <2>7, <3>1, FOrder
      <4>3. QED
        BY <1>3, <1>5, <2>5, <2>7, <2>8, <4>2
    <3>5. QED
      BY <1>2, <2>2, <3>3, <3>4 DEF six
  <2>9. CASE ~LessThan(f, low)
    <3>1. FAtMost(low, f)
      BY <2>7, <2>9
    <3>2. Near(AsFraction(v), f, six)
      BY <1>1, <1>2, <2>1, <2>3, <3>1, BoundIsNear DEF v
    <3>3. CASE LessThan(high, f)
      <4>1. FAtMost(high, f)
        BY <1>2, <2>1, <2>7, <3>3, FOrder
      <4>2. Near(AsFraction(w), high, six)
        BY <1>1, <1>2, <2>1, <2>3, <2>4, <3>2, <4>1, BoundIsNear DEF w
      <4>3. ExactTrend(t) = high
        BY <1>3, <1>5, <2>5, <2>9, <3>3
      <4>4. QED
        BY <1>2, <2>2, <4>2, <4>3 DEF six
    <3>4. CASE ~LessThan(high, f)
      <4>1. FAtMost(f, high)
        BY <2>7, <3>4
      <4>2. Near(AsFraction(w), f, six)
        BY <1>1, <1>2, <2>1, <2>3, <2>4, <3>2, <4>1, BoundIsNear DEF w
      <4>3. ExactTrend(t) = Reduced(f[1], f[2])
        BY <1>3, <1>5, <2>5, <2>9, <3>4
      <4>4. /\ Reduced(f[1], f[2]) \in Positive
            /\ Reduced(f[1], f[2]) \in Fraction
            /\ FSame(f, Reduced(f[1], f[2]))
        BY <2>6, ReducedSame DEF Positive
      <4>5. AsFraction(w) \in Fraction
        <5>1. w \in Decimal
          BY <2>3, <2>4 DEF w, Smaller
        <5>2. QED
          BY <5>1, OperationsAreNear
      <4>6. Near(AsFraction(w), Reduced(f[1], f[2]), six)
        BY <1>1, <2>1, <4>2, <4>4, <4>5, NearSame
      <4>7. QED
        BY <2>2, <4>3, <4>4, <4>6 DEF six
    <3>5. QED
      BY <3>3, <3>4
  <2>10. QED
    BY <2>8, <2>9
<1>6. QED
  BY <1>4, <1>5

\* The growth since last year, with and without the cap, for any trends.
Grown(n, t) ==
    <<n.total * ExactTrend(n)[1] * ExactTrend(t)[2],
      t.total * ExactTrend(n)[2] * ExactTrend(t)[1]>>

CapFraction == <<Cap, 100>>

Capped(n, t) == IF LessThan(CapFraction, Grown(n, t)) THEN Reduced(Cap, 100)
                ELSE Grown(n, t)

\* The multiplier and the demand, from the trends as they were computed.
LEMMA MultiplierIsNear ==
    ASSUME Precision >= 4, NEW demand \in Nat,
           NEW n \in Trend, NEW t \in Trend, t.total # 0
    PROVE  \E f \in Fraction :
              /\ Near(AsFraction(Multiplier(n, t)), f, 3)
              /\ Near(f, Grown(n, t), 12)
              /\ ~AtMost(Multiplier(n, t), Growth)
                 \/ Near(AsFraction(Theory(demand, n, t)),
                         FTimes(OverOne(demand), f), 4)
<1> DEFINE u == Int2Dec(demand)
           x == Int2Dec(n.total)
           y == Int2Dec(t.total)
           a == TrendFactor(n)
           b == TrendFactor(t)
           U == OverOne(demand)
           X == OverOne(n.total)
           Y == OverOne(t.total)
           A == AsFraction(a)
           B == AsFraction(b)
           E == ExactTrend(n)
           F == ExactTrend(t)
           f == FTimes(FTimes(FTimes(X, FFlip(Y)), A), FFlip(B))
           o == 0
           i == 1
           j == 2
           k == 3
           l == 4
           s == 6
<1>1. /\ o \in Nat /\ i \in Nat /\ j \in Nat /\ k \in Nat /\ l \in Nat
      /\ s \in Nat /\ o <= Parts /\ s <= Parts
      /\ i < Parts /\ j < Parts /\ k < Parts /\ l < Parts
      /\ i = o + o + 1 /\ j = i + o + 1 /\ k = j + o + 1 /\ l = k + o + 1
  BY PartsRoom
<1>2. n.total \in Nat /\ t.total \in Nat /\ t.total # 0
  BY DEF Trend
<1>3. /\ u \in Decimal /\ x \in Decimal /\ y \in Decimal /\ y.c # 0
      /\ U \in Fraction /\ X \in Fraction /\ Y \in Positive
      /\ AsFraction(u) = U /\ AsFraction(x) = X /\ AsFraction(y) = Y
  BY <1>2, NumberType, WholeType
<1>4. /\ a \in Decimal /\ a.c # 0 /\ b \in Decimal /\ b.c # 0
  BY TrendType
<1>5. A \in Positive /\ B \in Positive
  BY <1>4, OperationsAreNear
<1>6. /\ E \in Positive /\ F \in Positive
      /\ Near(A, E, s) /\ Near(B, F, s)
  BY TrendIsNear
<1>7. Grown(n, t) = FTimes(FTimes(FTimes(X, FFlip(Y)), E), FFlip(F))
  <2> DEFINE e1 == E[1]
             e2 == E[2]
             f1 == F[1]
             f2 == F[2]
             p == n.total
             q == t.total
  <2>1. e1 \in Nat /\ e2 \in Nat /\ f1 \in Nat /\ f2 \in Nat
    BY <1>6, FractionParts DEF Positive
  <2>2. FTimes(FTimes(FTimes(X, FFlip(Y)), E), FFlip(F))
          = <<((p * 1) * e1) * f2, ((1 * q) * e2) * f1>>
    BY DEF FTimes, FFlip, OverOne
  <2>3. Grown(n, t) = <<p * e1 * f2, q * e2 * f1>>
    BY DEF Grown
  <2>4. p \in Nat /\ q \in Nat
    BY <1>2
  <2> HIDE DEF e1, e2, f1, f2, p, q
  <2>5. p * 1 = p /\ 1 * q = q
    BY <2>4
  <2>6. QED
    BY <2>2, <2>3, <2>5
<1>8. Multiplier(n, t) = Over(Times(Over(x, y), a), b)
  BY DEF Multiplier
<1>9. AtMost(Multiplier(n, t), Growth)
        => Theory(demand, n, t)
             = Over(Times(Over(Times(u, x), y), a), b)
  BY DEF Theory
<1> HIDE DEF u, x, y, a, b, U, X, Y, A, B, E, F, o, i, j, k, l, s
<1>10. /\ X \in Fraction /\ Y \in Fraction /\ A \in Fraction /\ B \in Fraction
       /\ E \in Fraction /\ F \in Fraction
       /\ FFlip(Y) \in Fraction /\ FFlip(B) \in Fraction
       /\ FFlip(F) \in Fraction
  BY <1>3, <1>5, <1>6, FType DEF Positive
<1>11. /\ Near(AsFraction(u), U, o) /\ Near(AsFraction(x), X, o)
       /\ Near(AsFraction(y), Y, o) /\ Near(AsFraction(a), A, o)
       /\ Near(AsFraction(b), B, o)
  <2>1. \A g \in Fraction : Near(g, g, o)
    BY <1>1, NearSelf DEF FSame
  <2>2. QED
    BY <1>3, <1>10, <2>1 DEF A, B
<1> DEFINE XY == FTimes(X, FFlip(Y))
           XYA == FTimes(XY, A)
           XYE == FTimes(XY, E)
<1>12. XY \in Fraction /\ XYA \in Fraction /\ XYE \in Fraction
  <2>1. XY \in Fraction
    BY <1>10, FType
  <2> HIDE DEF XY
  <2>2. QED
    BY <1>10, <2>1, FType
<1>13. f = FTimes(XYA, FFlip(B)) /\ f \in Fraction
  <2>1. f = FTimes(XYA, FFlip(B))
    OBVIOUS
  <2> HIDE DEF f, XYA
  <2>2. QED
    BY <1>10, <1>12, <2>1, FType
<1>14. Near(AsFraction(Multiplier(n, t)), f, k)
  <2> HIDE DEF f
  <2>1. /\ Over(x, y) \in Decimal /\ Near(AsFraction(Over(x, y)), XY, i)
    BY <1>1, <1>3, <1>11, OverType, NearQuotient
  <2> HIDE DEF XY
  <2>2. /\ Times(Over(x, y), a) \in Decimal
        /\ Near(AsFraction(Times(Over(x, y), a)), XYA, j)
    BY <1>1, <1>4, <1>10, <1>11, <1>12, <2>1, TimesType, NearProduct
  <2> HIDE DEF XYA
  <2>3. Near(AsFraction(Over(Times(Over(x, y), a), b)),
             FTimes(XYA, FFlip(B)), k)
    BY <1>1, <1>4, <1>5, <1>11, <1>12, <2>2, NearQuotient
  <2>4. QED
    BY <1>8, <1>13, <2>3
<1>15. Near(f, Grown(n, t), 12)
  <2> DEFINE r == s + s
  <2>1. o + s = s /\ r = 12 /\ s + s \in Nat /\ s + s <= Parts
    BY PartsRoom DEF o, s
  <2>2. Near(XY, XY, o)
    BY <1>1, <1>12, NearSelf DEF FSame
  <2> HIDE DEF f, XY
  <2>3. Near(XYA, XYE, s)
    <3>1. Near(FTimes(XY, A), FTimes(XY, E), o + s)
      BY <1>1, <1>6, <1>10, <1>12, <2>1, <2>2, NearTimes
    <3>2. QED
      BY <2>1, <3>1
  <2>4. Near(FFlip(B), FFlip(F), s)
    BY <1>5, <1>6, NearFlip
  <2>5. Grown(n, t) = FTimes(XYE, FFlip(F))
    BY <1>7 DEF XY
  <2> HIDE DEF XYA, XYE, r
  <2>6. Near(FTimes(XYA, FFlip(B)), FTimes(XYE, FFlip(F)), s + s)
    BY <1>1, <1>10, <1>12, <2>1, <2>3, <2>4, NearTimes
  <2>7. QED
    BY <1>13, <2>1, <2>5, <2>6 DEF r
<1>16. ASSUME AtMost(Multiplier(n, t), Growth)
       PROVE  Near(AsFraction(Theory(demand, n, t)), FTimes(U, f), l)
  <2> DEFINE g1 == FTimes(U, X)
             g2 == FTimes(g1, FFlip(Y))
             g3 == FTimes(g2, A)
             g4 == FTimes(g3, FFlip(B))
             v1 == Times(u, x)
             v2 == Over(v1, y)
             v3 == Times(v2, a)
             v4 == Over(v3, b)
  <2>1. /\ g1 \in Fraction /\ v1 \in Decimal /\ Near(AsFraction(v1), g1, i)
    BY <1>1, <1>3, <1>10, <1>11, TimesType, NearProduct, FType
  <2>2. g2 = FTimes(U, XY)
    BY <1>3, <1>10, FTimesOnce
  <2> HIDE DEF g1, v1
  <2>3. /\ g2 \in Fraction /\ v2 \in Decimal /\ Near(AsFraction(v2), g2, j)
    BY <1>1, <1>3, <1>10, <1>11, <2>1, OverType, NearQuotient, FType
  <2> HIDE DEF g2, v2, XY
  <2>4. g3 = FTimes(U, XYA)
    BY <1>3, <1>10, <1>12, <2>2, FTimesOnce
  <2>5. /\ g3 \in Fraction /\ v3 \in Decimal /\ Near(AsFraction(v3), g3, k)
    BY <1>1, <1>4, <1>10, <1>11, <2>3, TimesType, NearProduct, FType
  <2> HIDE DEF g3, v3, XYA
  <2>6. g4 = FTimes(U, FTimes(XYA, FFlip(B)))
    BY <1>3, <1>10, <1>12, <2>4, FTimesOnce
  <2>7. Near(AsFraction(v4), g4, l)
    BY <1>1, <1>4, <1>5, <1>11, <2>5, NearQuotient
  <2> HIDE DEF g4, f
  <2>8. v4 = Theory(demand, n, t)
    BY <1>9, <1>16 DEF v4, v3, v2, v1
  <2>9. QED
    BY <1>13, <2>6, <2>7, <2>8
<1>17. QED
  <2> HIDE DEF f
  <2>1. /\ Near(AsFraction(Multiplier(n, t)), f, 3)
        /\ AtMost(Multiplier(n, t), Growth) =>
              Near(AsFraction(Theory(demand, n, t)),
                   FTimes(OverOne(demand), f), 4)
    BY <1>14, <1>16 DEF k, l, U
  <2>2. QED
    BY <1>13, <1>15, <2>1

\* The demand is near that of the rules, capped or not.
LEMMA TheoryIsNear ==
    ASSUME Precision >= 4, NEW demand \in Nat,
           NEW n \in Trend, NEW t \in Trend, t.total # 0
    PROVE  /\ Capped(n, t) \in Fraction
           /\ Near(AsFraction(Theory(demand, n, t)),
                   FTimes(OverOne(demand), Capped(n, t)), 16)
<1> DEFINE C == CapFraction
           R == Reduced(Cap, 100)
           E == Grown(n, t)
           U == OverOne(demand)
           M == AsFraction(Multiplier(n, t))
           z == Theory(demand, n, t)
           Z == AsFraction(z)
<1>1. /\ Growth \in Decimal /\ AsFraction(Growth) = C /\ C \in Fraction
  BY GrowthFraction DEF CapFraction, Positive
<1>2. R \in Fraction /\ FSame(C, R)
  BY ForecastAssumption, ReducedSame DEF CapFraction
<1>3. E \in Fraction
  <2>1. /\ ExactTrend(n) \in Positive /\ ExactTrend(t) \in Positive
        /\ n.total \in Nat /\ t.total \in Nat
    BY TrendIsNear DEF Trend
  <2> DEFINE p == n.total
             q == t.total
             e1 == ExactTrend(n)[1]
             e2 == ExactTrend(n)[2]
             f1 == ExactTrend(t)[1]
             f2 == ExactTrend(t)[2]
  <2>2. /\ e1 \in Nat /\ e2 \in Nat \ {0} /\ f1 \in Nat /\ f1 # 0
        /\ f2 \in Nat /\ p \in Nat /\ q \in Nat /\ q # 0
    BY <2>1, FractionParts DEF Positive
  <2>3. E = <<p * e1 * f2, q * e2 * f1>>
    BY DEF Grown
  <2> HIDE DEF p, q, e1, e2, f1, f2
  <2>4. p * e1 \in Nat /\ q * e2 \in Nat \ {0}
    BY <2>2, ProductType
  <2>5. (p * e1) * f2 \in Nat /\ (q * e2) * f1 \in Nat \ {0}
    BY <2>2, <2>4, ProductType
  <2>6. QED
    BY <2>3, <2>5 DEF Fraction
<1>4. U \in Fraction /\ Int2Dec(demand) \in Decimal
      /\ AsFraction(Int2Dec(demand)) = U
  BY WholeType, NumberType
<1>5. z \in Decimal /\ Z \in Fraction
      /\ Multiplier(n, t) \in Decimal /\ M \in Fraction
  BY TheoryType, OperationsAreNear
<1>6. AtMost(Multiplier(n, t), Growth) <=> FAtMost(M, C)
  BY <1>1, <1>5, OrderOfFractions
<1>7. PICK f \in Fraction :
         /\ Near(M, f, 3)
         /\ Near(f, E, 12)
         /\ ~FAtMost(M, C) \/ Near(Z, FTimes(U, f), 4)
  BY <1>6, MultiplierIsNear
<1>8. LessThan(C, E) <=> ~FAtMost(E, C)
  <2>1. /\ C[1] \in Nat /\ C[2] \in Nat /\ E[1] \in Nat /\ E[2] \in Nat
    BY <1>1, <1>3, FractionParts
  <2> HIDE DEF C, E
  <2>2. QED
    BY <2>1 DEF LessThan, FAtMost
<1>9. Capped(n, t) = IF LessThan(C, E) THEN R ELSE E
  BY DEF Capped
<1>10. ~FAtMost(M, C) => z = Times(Int2Dec(demand), Growth)
  BY <1>6 DEF Theory
<1> HIDE DEF C, R, E, U, M, z, Z
<1> DEFINE o == 0
           i == 1
           k == 3
           l == 4
           s == 12
           p == 15
           r == 16
<1>11. /\ o \in Nat /\ i \in Nat /\ k \in Nat /\ l \in Nat /\ s \in Nat
       /\ p \in Nat /\ r \in Nat
       /\ o <= Parts /\ k <= Parts /\ s <= Parts /\ p <= Parts /\ r <= Parts
       /\ i < Parts /\ s < Parts /\ p < Parts /\ r < Parts
       /\ i = o + o + 1 /\ o + s = s /\ o + p = p
       /\ k + s = p /\ l + s = r /\ i + p = r /\ k <= s /\ i <= r
       /\ o + s <= Parts /\ l + s < Parts /\ k + s < Parts
       /\ i + p < Parts /\ o + p <= Parts
  BY PartsRoom
<1>12. /\ Near(M, f, k)
       /\ Near(f, E, s)
       /\ ~FAtMost(M, C) \/ Near(Z, FTimes(U, f), l)
  BY <1>7
<1> HIDE DEF o, i, k, l, s, p, r
<1>13. Near(U, U, o)
  BY <1>4, <1>11, NearSelf DEF FSame
<1>14. ASSUME NEW g \in Fraction, Near(f, g, s), FAtMost(M, C)
       PROVE  Near(Z, FTimes(U, g), r)
  <2>1. Near(FTimes(U, f), FTimes(U, g), o + s)
    BY <1>4, <1>11, <1>13, <1>14, NearTimes
  <2>2. FTimes(U, f) \in Fraction /\ FTimes(U, g) \in Fraction
    BY <1>4, <1>14, FType
  <2>3. Near(Z, FTimes(U, f), l) /\ Near(FTimes(U, f), FTimes(U, g), s)
    BY <1>11, <1>12, <1>14, <2>1
  <2>4. Near(Z, FTimes(U, g), l + s)
    BY <1>5, <1>11, <2>2, <2>3, NearThrough
  <2>5. QED
    BY <1>11, <2>4
<1>15. ASSUME NEW g \in Fraction, Near(C, g, p), ~FAtMost(M, C)
       PROVE  Near(Z, FTimes(U, g), r)
  <2>1. Near(FTimes(U, C), FTimes(U, g), o + p)
    BY <1>1, <1>4, <1>11, <1>13, <1>15, NearTimes
  <2>2. FTimes(U, C) \in Fraction /\ FTimes(U, g) \in Fraction
    BY <1>1, <1>4, <1>15, FType
  <2>3. Near(Z, FTimes(U, C), i)
    <3>1. Near(AsFraction(Growth), C, o)
      BY <1>1, <1>11, NearSelf DEF FSame
    <3>2. Near(AsFraction(Int2Dec(demand)), U, o)
      BY <1>4, <1>13
    <3>3. Near(AsFraction(Times(Int2Dec(demand), Growth)), FTimes(U, C), i)
      BY <1>1, <1>4, <1>11, <3>1, <3>2, NearProduct
    <3>4. QED
      BY <1>10, <1>15, <3>3 DEF Z
  <2>4. Near(FTimes(U, C), FTimes(U, g), p)
    BY <1>11, <2>1
  <2>5. Near(Z, FTimes(U, g), i + p)
    BY <1>5, <1>11, <2>2, <2>3, <2>4, NearThrough
  <2>6. QED
    BY <1>11, <2>5
<1>16. CASE LessThan(C, E)
  <2>1. FAtMost(C, E)
    BY <1>1, <1>3, <1>8, <1>16, FOrder
  <2>2. ASSUME FAtMost(M, C) PROVE Near(Z, FTimes(U, R), r)
    <3>1. Near(f, C, s)
      <4>1. CASE FAtMost(f, C)
        BY <1>1, <1>3, <1>11, <1>12, <2>1, <4>1, NearBetween
      <4>2. CASE ~FAtMost(f, C)
        <5>1. FAtMost(C, f)
          BY <1>1, <4>2, FOrder
        <5>2. Near(C, f, k)
          BY <1>1, <1>5, <1>11, <1>12, <2>2, <5>1, NearBetween
        <5>3. Near(C, f, s)
          BY <1>1, <1>11, <5>2, NearMore
        <5>4. QED
          BY <1>1, <5>3, NearBack
      <4>3. QED
        BY <4>1, <4>2
    <3>2. Near(f, R, s)
      BY <1>1, <1>2, <1>11, <3>1, NearSame
    <3>3. QED
      BY <1>2, <1>14, <2>2, <3>2
  <2>3. ASSUME ~FAtMost(M, C) PROVE Near(Z, FTimes(U, R), r)
    <3>1. Near(C, R, p)
      BY <1>1, <1>2, <1>11, NearSelf
    <3>2. QED
      BY <1>2, <1>15, <2>3, <3>1
  <2>4. Capped(n, t) \in Fraction /\ Near(Z, FTimes(U, Capped(n, t)), r)
    <3>1. Near(Z, FTimes(U, R), r)
      BY <2>2, <2>3
    <3>2. QED
      BY <1>2, <1>9, <1>16, <3>1
  <2>5. QED
    BY <2>4 DEF Z, U, z, r
<1>17. CASE ~LessThan(C, E)
  <2>1. FAtMost(E, C)
    BY <1>8, <1>17
  <2>2. Near(Z, FTimes(U, E), r)
    <3>1. CASE FAtMost(M, C)
      BY <1>3, <1>12, <1>14, <3>1
    <3>2. CASE ~FAtMost(M, C)
      <4>1. FAtMost(C, M)
        BY <1>1, <1>5, <3>2, FOrder
      <4>2. Near(M, E, k + s)
        BY <1>3, <1>5, <1>11, <1>12, NearThrough
      <4>3. Near(E, M, p)
        BY <1>3, <1>5, <1>11, <4>2, NearBack
      <4>4. Near(E, C, p)
        BY <1>1, <1>3, <1>5, <1>11, <2>1, <4>1, <4>3, NearBetween
      <4>5. Near(C, E, p)
        BY <1>1, <1>3, <4>4, NearBack
      <4>6. QED
        BY <1>3, <1>15, <3>2, <4>5
    <3>3. QED
      BY <3>1, <3>2
  <2>3. QED
    BY <1>3, <1>9, <1>17, <2>2 DEF Z, U, z, r
<1>18. QED
  BY <1>16, <1>17

\* Rounding to a whole unit moves by half a unit, and the roundings before by
\* no more than their slack.
LEMMA UnitIsNear ==
    ASSUME Precision >= 4, NEW x \in Decimal, NEW p \in Nat,
           NEW q \in Nat \ {0},
           Near(AsFraction(x), <<p, q * Unit>>, 19)
    PROVE  LET h == HalfUp(x) * Unit
           IN  /\ h \in Nat
               /\ 2 * (h * q - p) <= Unit * q + Slack(p)
               /\ 2 * (p - h * q) <= Unit * q + Slack(p)
<1> DEFINE h == HalfUp(x)
           n == Num(x)
           d == Den(x)
           t == Ten[Precision - 1]
           r == q * Unit
           g == h * r
           a == n * r
           b == p * d
<1>1. /\ n \in Nat /\ d \in Nat \ {0}
      /\ h \in Nat
      /\ 2 * (h * d) <= 2 * n + d
      /\ 2 * n <= 2 * (h * d) + d
  <2> DEFINE f == Floor(x)
  <2>1. /\ f \in Int /\ f <= 0 /\ f <= x.e
        /\ n \in Nat /\ d \in Nat \ {0} /\ n = At(x, f) /\ d = Ten[-f]
    BY FractionType DEF Den
  <2> HIDE DEF f, n, d, h
  <2>2. /\ h \in Nat
        /\ 2 * (h * d) <= 2 * n + d
        /\ 2 * n + d < 2 * (h * d) + 2 * d
    BY <2>1, HalfUpAt DEF h
  <2>3. h * d \in Nat
    BY <2>1, <2>2
  <2>4. QED
    BY <2>1, <2>2, <2>3
<1>2. t \in Nat \ {0} /\ Parts = 2 * t
  BY PrecisionAssumption, TenType DEF Parts
<1>3. r \in Nat \ {0} /\ Unit \in Nat
  BY ForecastAssumption, ProductType
<1>4. Close(a, b, 19)
  BY DEF Near, AsFraction
<1> HIDE DEF h, n, d, t, r
<1>5. a \in Nat /\ b \in Nat /\ g \in Nat /\ g * d \in Nat /\ r * d \in Nat
  BY <1>1, <1>3
<1>6. 2 * (g * d) <= 2 * a + r * d /\ 2 * a <= 2 * (g * d) + r * d
  <2> DEFINE k == 2 * (h * d)
             l == 2 * n
  <2>1. k \in Nat /\ l \in Nat /\ k <= l + d /\ l <= k + d
    BY <1>1
  <2>2. /\ k * r = 2 * (g * d) /\ (l + d) * r = 2 * a + r * d
        /\ l * r = 2 * a /\ (k + d) * r = 2 * (g * d) + r * d
    BY <1>1, <1>3
  <2> HIDE DEF k, l, g, a
  <2>3. k * r <= (l + d) * r /\ l * r <= (k + d) * r
    BY <1>1, <1>3, <2>1, TimesOrder
  <2>4. QED
    BY <2>2, <2>3
<1>7. /\ 2 * t * a <= 2 * t * b + 20 * b
      /\ 2 * t * b <= 2 * t * a + 20 * b
  <2> HIDE DEF a, b
  <2>1. Parts * a <= Parts * b + 20 * b /\ Parts * b <= Parts * a + 20 * b
    BY <1>4, <1>5, UnderOff DEF Close
  <2>2. QED
    BY <1>2, <2>1
<1>8. /\ 2 * t * g * d <= (2 * t * p + 20 * p + t * r) * d
      /\ 2 * t * p * d <= (2 * t * g + 20 * p + t * r) * d
  <2> DEFINE k == g * d
             m == r * d
             tk == t * k
             tm == t * m
             ta == t * a
             tb == t * b
  <2>1. k \in Nat /\ m \in Nat
    BY <1>5
  <2>2. tk \in Nat /\ tm \in Nat /\ ta \in Nat /\ tb \in Nat
    BY <1>2, <1>5, <2>1
  <2>3. 2 * tk <= 2 * ta + tm /\ 2 * ta <= 2 * tk + tm
    <3> HIDE DEF a, g
    <3>1. 2 * k <= 2 * a + m /\ 2 * a <= 2 * k + m
      BY <1>6
    <3> HIDE DEF k, m
    <3>2. /\ (2 * k) * t <= (2 * a + m) * t
          /\ (2 * a) * t <= (2 * k + m) * t
      BY <1>2, <1>5, <2>1, <3>1, TimesOrder
    <3>3. /\ (2 * k) * t = 2 * tk /\ (2 * a + m) * t = 2 * ta + tm
          /\ (2 * a) * t = 2 * ta /\ (2 * k + m) * t = 2 * tk + tm
      BY <1>2, <1>5, <2>1
    <3>4. QED
      BY <3>2, <3>3
  <2>4. 2 * ta <= 2 * tb + 20 * b /\ 2 * tb <= 2 * ta + 20 * b
    <3> HIDE DEF a, b
    <3>1. 2 * t * a = 2 * ta /\ 2 * t * b = 2 * tb
      BY <1>2, <1>5
    <3>2. QED
      BY <1>7, <3>1
  <2>5. /\ 2 * t * g * d = 2 * tk
        /\ (2 * t * p + 20 * p + t * r) * d = 2 * tb + 20 * b + tm
        /\ 2 * t * p * d = 2 * tb
        /\ (2 * t * g + 20 * p + t * r) * d = 2 * tk + 20 * b + tm
    <3> HIDE DEF g
    <3>1. g \in Nat /\ p \in Nat
      BY <1>5
    <3>2. QED
      BY <1>1, <1>2, <1>3, <3>1
  <2> HIDE DEF tk, tm, ta, tb, b
  <2>6. 2 * tk <= 2 * tb + 20 * b + tm /\ 2 * tb <= 2 * tk + 20 * b + tm
    BY <1>5, <2>2, <2>3, <2>4
  <2>7. QED
    BY <2>5, <2>6
<1> DEFINE i == t * g
           j == t * p
           k == t * r
<1>9. i \in Nat /\ j \in Nat /\ k \in Nat
  BY <1>2, <1>3, <1>5
<1>10. 2 * i <= 2 * j + 20 * p + k /\ 2 * j <= 2 * i + 20 * p + k
  <2> HIDE DEF g
  <2> DEFINE c1 == 2 * i
             c2 == 2 * j + 20 * p + k
             c3 == 2 * j
             c4 == 2 * i + 20 * p + k
  <2>1. c1 \in Nat /\ c2 \in Nat /\ c3 \in Nat /\ c4 \in Nat
    BY <1>9
  <2>2. /\ 2 * t * g * d = c1 * d
        /\ (2 * t * p + 20 * p + t * r) * d = c2 * d
        /\ 2 * t * p * d = c3 * d
        /\ (2 * t * g + 20 * p + t * r) * d = c4 * d
    BY <1>1, <1>2, <1>3, <1>5
  <2>3. c1 * d <= c2 * d /\ c3 * d <= c4 * d
    BY <1>8, <2>2
  <2> HIDE DEF c1, c2, c3, c4
  <2>4. c1 <= c2 /\ c3 <= c4
    BY <1>1, <2>1, <2>3, Scaling
  <2>5. QED
    BY <2>4 DEF c1, c2, c3, c4
<1>11. /\ 2 * (g - p) <= r + Slack(p)
       /\ 2 * (p - g) <= r + Slack(p)
  <2> DEFINE v == 20 * p
             o == 2 * (g - p) - r
             u == 2 * (p - g) - r
  <2>1. v \in Nat /\ o \in Int /\ u \in Int
    BY <1>3, <1>5
  <2>2. t * o <= v /\ t * u <= v
    <3>1. t * o = 2 * i - 2 * j - k /\ t * u = 2 * j - 2 * i - k
      BY <1>2, <1>3, <1>5
    <3> HIDE DEF i, j, k, o, u
    <3>2. QED
      BY <1>9, <1>10, <3>1
  <2> HIDE DEF v, o, u
  <2>3. o <= v \div t /\ u <= v \div t
    <3> DEFINE w == v \div t
    <3>1. w \in Nat /\ v < t * w + t
      BY <1>2, <2>1
    <3> HIDE DEF w
    <3>2. ASSUME NEW y \in Int, t * y <= v PROVE y <= w
      <4>1. CASE y > w
        <5>1. y - (w + 1) \in Nat
          BY <3>1, <4>1
        <5>2. t * (y - (w + 1)) \in Nat
          BY <1>2, <5>1
        <5>3. t * (y - (w + 1)) = t * y - (t * w + t)
          BY <1>2, <3>1
        <5>4. t * y \in Int /\ t * w \in Int
          BY <1>2, <3>1
        <5>5. FALSE
          BY <1>2, <2>1, <3>1, <3>2, <5>2, <5>3, <5>4
        <5>6. QED
          BY <5>5
      <4>2. QED
        BY <3>1, <4>1
    <3>3. QED
      BY <2>1, <2>2, <3>2 DEF w
  <2>4. Slack(p) = v \div t
    BY DEF Slack, v, t
  <2>5. v \div t \in Int
    BY <1>2, <2>1
  <2> HIDE DEF g
  <2>6. QED
    BY <1>3, <1>5, <2>1, <2>3, <2>4, <2>5 DEF o, u
<1>12. (h * Unit) * q = g /\ Unit * q = r /\ h * Unit \in Nat
  BY <1>1, <1>3 DEF r
<1>13. QED
  BY <1>11, <1>12 DEF h

\* The share of a SKU before it is rounded.
LEMMA ShareIsNear ==
    ASSUME Precision >= 4, NEW demand \in Nat, NEW X \in Fraction,
           NEW theory \in Decimal,
           Near(AsFraction(theory), FTimes(OverOne(demand), X), 16),
           NEW w \in Nat, NEW sum \in Nat \ {0}
    PROVE  LET z == Over(Over(Times(theory, Int2Dec(w)), Int2Dec(sum)),
                         Int2Dec(Unit))
           IN  /\ z \in Decimal
               /\ Near(AsFraction(z),
                       <<demand * X[1] * w, (X[2] * sum) * Unit>>, 19)
<1> DEFINE f == FTimes(OverOne(demand), X)
           u == Int2Dec(w)
           s == Int2Dec(sum)
           c == Int2Dec(Unit)
           U == OverOne(w)
           S == OverOne(sum)
           C == OverOne(Unit)
           o == 0
           i == 16
           j == 17
           k == 18
           l == 19
           v1 == Times(theory, u)
           v2 == Over(v1, s)
           v3 == Over(v2, c)
           g1 == FTimes(f, U)
           g2 == FTimes(g1, FFlip(S))
           g3 == FTimes(g2, FFlip(C))
<1>1. /\ o \in Nat /\ i \in Nat /\ j \in Nat /\ k \in Nat /\ l \in Nat
      /\ o <= Parts /\ j < Parts /\ k < Parts /\ l < Parts
      /\ j = i + o + 1 /\ k = j + o + 1 /\ l = k + o + 1
  BY PartsRoom
<1>2. /\ u \in Decimal /\ s \in Decimal /\ s.c # 0 /\ c \in Decimal /\ c.c # 0
      /\ U \in Fraction /\ S \in Positive /\ C \in Positive
      /\ AsFraction(u) = U /\ AsFraction(s) = S /\ AsFraction(c) = C
  <2>1. w \in Nat /\ sum \in Nat /\ sum # 0 /\ Unit \in Nat /\ Unit # 0
    BY ForecastAssumption
  <2>2. QED
    BY <2>1, NumberType, WholeType
<1>3. f \in Fraction
  BY WholeType, FType
<1>4. g3 = <<demand * X[1] * w, (X[2] * sum) * Unit>>
  <2>1. X[1] \in Nat /\ X[2] \in Nat /\ Unit \in Nat
    BY FractionParts, ForecastAssumption
  <2> DEFINE x1 == X[1]
             x2 == X[2]
  <2>2. g3 = <<(((demand * x1) * w) * 1) * 1, (((1 * x2) * 1) * sum) * Unit>>
    BY DEF FTimes, FFlip, OverOne
  <2>3. (((demand * x1) * w) * 1) * 1 = demand * x1 * w
    BY <2>1
  <2>4. (((1 * x2) * 1) * sum) * Unit = (x2 * sum) * Unit
    BY <2>1
  <2> HIDE DEF g3
  <2>5. QED
    BY <2>2, <2>3, <2>4
<1>5. Near(AsFraction(theory), f, i)
  OBVIOUS
<1> HIDE DEF f, u, s, c, U, S, C, o, i, j, k, l
<1>6. U \in Fraction /\ S \in Fraction /\ C \in Fraction
      /\ FFlip(S) \in Fraction /\ FFlip(C) \in Fraction
  BY <1>2, FType DEF Positive
<1>7. /\ Near(AsFraction(u), U, o) /\ Near(AsFraction(s), S, o)
      /\ Near(AsFraction(c), C, o)
  <2>1. \A g \in Fraction : Near(g, g, o)
    BY <1>1, NearSelf DEF FSame
  <2>2. QED
    BY <1>2, <1>6, <2>1
<1>8. v1 \in Decimal /\ g1 \in Fraction /\ Near(AsFraction(v1), g1, j)
  BY <1>1, <1>2, <1>3, <1>5, <1>6, <1>7, TimesType, NearProduct, FType
<1> HIDE DEF v1, g1
<1>9. v2 \in Decimal /\ g2 \in Fraction /\ Near(AsFraction(v2), g2, k)
  BY <1>1, <1>2, <1>6, <1>7, <1>8, OverType, NearQuotient, FType
<1> HIDE DEF v2, g2
<1>10. v3 \in Decimal /\ Near(AsFraction(v3), g3, l)
  BY <1>1, <1>2, <1>6, <1>7, <1>9, OverType, NearQuotient
<1> HIDE DEF g3
<1>11. QED
  BY <1>4, <1>10 DEF v3, v2, v1, u, s, c, l

-----------------------------------------------------------------------------
(* A forecast, step by step.                                               *)

\* There is no year zero.
LEMMA YearsCount ==
    ASSUME NEW y \in Int, y > 2
    PROVE  YearStart(y) >= 730
<1> DEFINE z == y - 1
<1>1. z \in Int /\ z >= 2
  OBVIOUS
<1>2. z \div 100 <= z \div 4 /\ z \div 4 \in Int /\ z \div 100 \in Int
  BY <1>1
<1>3. z \div 400 >= 0 /\ z \div 400 \in Int
  BY <1>1
<1> HIDE DEF z
<1>4. QED
  BY <1>1, <1>2, <1>3 DEF YearStart, z

\* The windows lie after the first day there is.
LEMMA WindowType ==
    ASSUME NEW d \in AsOf, NEW end \in Date, NotBefore(d, end)
    PROVE  /\ DOMAIN Window(d, end) = DOMAIN NoWindow
           /\ \A w \in DOMAIN NoWindow : Window(d, end)[w] \in Nat \X Nat
<1> DEFINE today == DayNumber(d)
           prior == DayNumber(PreviousYear(d))
           last == DayNumber(end)
           before == DayNumber(PreviousYear(end))
<1>1. d \in Date /\ d.year > 2 /\ d.year \in Int
  BY AsOfIsDate, CalculationAssumption DEF Date
<1>2. /\ today \in Int /\ prior \in Int /\ last \in Int /\ before \in Int
      /\ today - prior \in 365..366
      /\ last - before \in 365..366
      /\ last >= today
  BY <1>1, YearAgo, DayNumbers DEF NotBefore
<1>3. today > 730
  <2>1. /\ today = YearStart(d.year) + DayOfYear(d)
        /\ YearStart(d.year) \in Int /\ DayOfYear(d) \in Int
    BY <1>1, DayNumbers
  <2>2. DayOfYear(d) >= 1
    BY <1>1, <2>1, DayInYear
  <2>3. QED
    BY <1>1, <2>1, <2>2, YearsCount
<1>4. Window(d, end) = [current |-> <<today - 30, today>>,
                        previous |-> <<prior - 30, prior>>,
                        future |-> <<today, last + 1>>,
                        history |-> <<prior, before + 1>>]
  BY DEF Window
<1> HIDE DEF today, prior, last, before
<1>5. /\ today - 30 \in Nat /\ today \in Nat
      /\ prior - 30 \in Nat /\ prior \in Nat
      /\ last + 1 \in Nat /\ before + 1 \in Nat
  BY <1>2, <1>3
<1>6. DOMAIN NoWindow = {"current", "previous", "future", "history"}
  BY DEF NoWindow
<1>7. QED
  BY <1>4, <1>5, <1>6

\* The inputs are there before they are used, with a base to compare with and
\* weights to share by, and a forecast that is ready was computed from them.
ReadyInv ==
    /\ pc # "done" => status = "open"
    /\ pc \in {"share", "trend", "allocate"} => previous >= PreviousBelow
    /\ pc = "allocate" => then.total = previous /\ now.total = Sum(current)
    /\ status = "ready" =>
          /\ then.total # 0
          /\ Sum(weights) # 0
          /\ forecast = Shares(Theory(future, now, then), weights)

ForecastInv == WindowInv /\ TypeOK /\ ReadyInv

\* Sales of SKUs add up to a number.
LEMMA SumType == ASSUME NEW f \in [Sku -> Nat] PROVE Sum(f) \in Nat
  BY Sums, CalculationAssumption DEF Sum

\* The sales of the SKUs are numbers.
LEMMA SoldType == Sold \subseteq [Sku -> Nat]
<1>1. Sales \cup {0} \subseteq Nat
  BY CalculationAssumption
<1>2. QED
  BY <1>1 DEF Sold

\* Nothing is read, and nothing forecast.
LEMMA ForecastInit == Init => ForecastInv
<1> SUFFICES ASSUME Init PROVE ForecastInv
  OBVIOUS
<1>1. WindowInv
  BY DEF Init, WindowInv
<1>2. Nothing \in [Sku -> Nat] /\ NoTrend \in Trend
  BY DEF Nothing, NoTrend, Trend
<1>3. TypeOK
  <2>1. \A w \in DOMAIN NoWindow : NoWindow[w] \in Nat \X Nat
    BY DEF NoWindow
  <2>2. QED
    BY <1>2, <2>1 DEF Init, TypeOK
<1>4. QED
  BY <1>1, <1>3 DEF Init, ForecastInv, ReadyInv

\* What a step keeps that leaves the shares, the trends and the forecast
\* alone and is not the last.
LEMMA QuietForecast ==
    ASSUME ForecastInv, WindowInv',
           UNCHANGED <<asOf, skus, inputs, weights, trends, forecast>>,
           pc # "done",
           \/ UNCHANGED window
           \/ \E end \in Date : NotBefore(asOf, end)
                                /\ window' = Window(asOf, end),
           \/ status' \in {"needs_review", "manual", "preserved"}
              /\ pc' = "done"
           \/ status' = "open" /\ pc' \in {"read", "share", "trend"},
           pc' \in {"share", "trend"} => previous >= PreviousBelow
    PROVE  ForecastInv'
<1>1. status = "open" /\ forecast = Nothing
  BY DEF ForecastInv, TypeOK, ReadyInv
<1>2. /\ DOMAIN window' = DOMAIN NoWindow
      /\ \A w \in DOMAIN window' : window'[w] \in Nat \X Nat
  BY WindowType DEF ForecastInv, TypeOK
<1>3. TypeOK'
  BY <1>1, <1>2 DEF ForecastInv, TypeOK, inputs, trends
<1>4. ReadyInv'
  BY DEF ReadyInv, inputs
<1>5. QED
  BY <1>3, <1>4 DEF ForecastInv

\* The style is refused, or its windows are chosen.
LEMMA WindowForecast ==
    ASSUME ForecastInv, WindowInv', ChooseWindow PROVE ForecastInv'
<1>1. /\ pc # "done" /\ status = "open"
      /\ UNCHANGED <<asOf, skus, inputs, weights, trends, forecast>>
  BY DEF ChooseWindow, ForecastInv, ReadyInv
<1>2. PICK first \in SUBSET Seasons, second \in SUBSET Seasons :
         LET season == CHOOSE k \in Kinds({first, second}) : TRUE
             end == Deadline(asOf, season)
         IN  \/ Leave("needs_review") /\ UNCHANGED window
             \/ /\ NotBefore(asOf, end)
                /\ window' = Window(asOf, end)
                /\ Goto("read")
  BY DEF ChooseWindow
<1> DEFINE season == CHOOSE k \in Kinds({first, second}) : TRUE
           end == Deadline(asOf, season)
<1>3. season \in Seasons
  BY LabelsNameSeason
<1> HIDE DEF season
<1>4. end \in Date
  BY <1>3, DeadlineIsNear, AsOfIsDate DEF ForecastInv, WindowInv
<1>5. \/ Leave("needs_review") /\ UNCHANGED window
      \/ /\ NotBefore(asOf, end)
         /\ window' = Window(asOf, end)
         /\ Goto("read")
  BY <1>2 DEF season
<1> HIDE DEF end
<1>6. QED
  BY <1>1, <1>4, <1>5, QuietForecast DEF Leave, Goto

\* Sales of SKUs and of styles are numbers.
LEMMA ReadForecast ==
    ASSUME ForecastInv, WindowInv', ReadWindows PROVE ForecastInv'
<1>1. /\ current' \in [Sku -> Nat] /\ previous' \in Nat /\ future' \in Nat
      /\ pc # "done" /\ pc' = "base" /\ UNCHANGED status
      /\ UNCHANGED <<asOf, skus, window, weights, trends, forecast>>
  BY SoldType, CalculationAssumption DEF ReadWindows, Goto
<1>2. status = "open"
  BY <1>1 DEF ForecastInv, ReadyInv
<1>3. TypeOK'
  BY <1>1 DEF ForecastInv, TypeOK, trends
<1>4. ReadyInv'
  BY <1>1, <1>2 DEF ReadyInv
<1>5. QED
  BY <1>3, <1>4 DEF ForecastInv

\* The shares follow sales, which are numbers.
LEMMA ShareForecast ==
    ASSUME ForecastInv, WindowInv', ChooseShares PROVE ForecastInv'
<1>1. /\ weights' \in [Sku -> Nat]
      /\ UNCHANGED <<asOf, skus, window, inputs, trends, forecast>>
      /\ pc = "share"
      /\ \/ pc' = "trend" /\ UNCHANGED status
         \/ pc' = "done" /\ status' = "manual"
  BY SoldType DEF ForecastInv, TypeOK, ChooseShares, Leave, Goto
<1>2. status = "open" /\ forecast = Nothing
  BY <1>1 DEF ForecastInv, TypeOK, ReadyInv
<1>3. TypeOK'
  BY <1>1, <1>2 DEF ForecastInv, TypeOK, inputs, trends
<1>4. ReadyInv'
  BY <1>1, <1>2 DEF ForecastInv, ReadyInv, inputs
<1>5. QED
  BY <1>3, <1>4 DEF ForecastInv

\* The trends are of the sales that were read.
LEMMA TrendForecast ==
    ASSUME ForecastInv, WindowInv', ReadTrends PROVE ForecastInv'
<1>1. /\ UNCHANGED <<asOf, skus, window, inputs, weights, forecast>>
      /\ pc = "trend"
  BY DEF ReadTrends
<1>2. /\ status = "open" /\ forecast = Nothing /\ previous >= PreviousBelow
      /\ previous \in Nat
  BY <1>1 DEF ForecastInv, TypeOK, ReadyInv
<1>3. \/ /\ now' \in Trend /\ now'.total = Sum(current)
         /\ then' \in Trend /\ then'.total = previous
         /\ pc' = "allocate" /\ UNCHANGED status
      \/ UNCHANGED trends /\ pc' = "done" /\ status' = "needs_review"
  <2>1. Sum(current) \in Nat
    BY SumType DEF ForecastInv, TypeOK
  <2>2. \A n \in Nat, a, b \in Short :
           [total |-> n, days15 |-> a, days7 |-> b] \in Trend
    BY CalculationAssumption DEF Trend
  <2>3. QED
    BY <1>2, <2>1, <2>2 DEF ReadTrends, Leave, Goto
<1>4. TypeOK'
  BY <1>1, <1>2, <1>3 DEF ForecastInv, TypeOK, inputs, trends
<1>5. ReadyInv'
  BY <1>1, <1>2, <1>3 DEF ForecastInv, ReadyInv, inputs, Sum
<1>6. QED
  BY <1>4, <1>5 DEF ForecastInv

\* The shares of a demand that can be computed.
LEMMA AllocateForecast ==
    ASSUME ForecastInv, WindowInv', Allocate PROVE ForecastInv'
<1>1. /\ UNCHANGED <<asOf, skus, window, inputs, weights, trends>>
      /\ pc = "allocate" /\ pc' = "done"
  BY DEF Allocate, Leave
<1>2. /\ status = "open" /\ forecast = Nothing
      /\ then.total = previous /\ previous >= PreviousBelow
      /\ now \in Trend /\ then \in Trend /\ future \in Nat
      /\ weights \in [Sku -> Nat]
  BY <1>1 DEF ForecastInv, TypeOK, ReadyInv
<1>3. CASE status' = "needs_review" /\ UNCHANGED forecast
  <2>1. TypeOK'
    BY <1>1, <1>2, <1>3 DEF ForecastInv, TypeOK, inputs, trends
  <2>2. ReadyInv'
    BY <1>1, <1>3 DEF ReadyInv
  <2>3. QED
    BY <2>1, <2>2 DEF ForecastInv
<1>4. CASE /\ Sum(weights) # 0
           /\ status' = "ready"
           /\ forecast' = Shares(Theory(future, now, then), weights)
  <2>1. then.total # 0
    BY <1>2, CalculationAssumption DEF Trend
  <2>2. Theory(future, now, then) \in Decimal
    BY <1>2, <2>1, TheoryType
  <2>3. SumFunction(weights) \in Nat \ {0}
    BY <1>2, <1>4, SumType DEF Sum
  <2>4. forecast' \in [Sku -> Nat]
    BY <1>2, <1>4, <2>2, <2>3, SharesOrder
  <2>5. TypeOK'
    BY <1>1, <1>4, <2>4 DEF ForecastInv, TypeOK, inputs, trends
  <2>6. ReadyInv'
    BY <1>1, <1>4, <2>1 DEF ReadyInv, inputs, trends, Sum
  <2>7. QED
    BY <2>5, <2>6 DEF ForecastInv
<1>5. QED
  BY <1>3, <1>4 DEF Allocate, Leave

\* Every action of a forecast keeps the invariant.
LEMMA ForecastStep == ForecastInv /\ [Next]_vars => ForecastInv'
<1> SUFFICES ASSUME ForecastInv, [Next]_vars PROVE ForecastInv'
  OBVIOUS
<1>1. WindowInv'
  BY WindowStep DEF ForecastInv
<1>2. CASE RefuseStyle \/ Preserve \/ Lacking
  BY <1>1, <1>2, QuietForecast DEF RefuseStyle, Preserve, Lacking, Leave
<1>3. CASE ChooseWindow
  BY <1>1, <1>3, WindowForecast
<1>4. CASE ReadWindows
  BY <1>1, <1>4, ReadForecast
<1>5. CASE CheckBase
  <2>1. /\ pc = "base" /\ status = "open" /\ previous \in Nat
        /\ UNCHANGED <<asOf, skus, window, inputs, weights, trends, forecast>>
        /\ \/ status' = "manual" /\ pc' = "done"
           \/ /\ ~(previous < PreviousBelow)
              /\ pc' = "share" /\ status' = "open"
    BY <1>5 DEF CheckBase, Leave, Goto, ForecastInv, ReadyInv, TypeOK
  <2>2. previous >= PreviousBelow \/ previous < PreviousBelow
    BY <2>1, CalculationAssumption
  <2>3. QED
    BY <1>1, <2>1, <2>2, QuietForecast
<1>6. CASE ChooseShares
  BY <1>1, <1>6, ShareForecast
<1>7. CASE ReadTrends
  BY <1>1, <1>7, TrendForecast
<1>8. CASE Allocate
  BY <1>1, <1>8, AllocateForecast
<1>9. CASE UNCHANGED vars
  BY <1>1, <1>9 DEF ForecastInv, TypeOK, ReadyInv, vars, inputs, trends,
     Sum
<1>10. QED
  BY <1>2, <1>3, <1>4, <1>5, <1>6, <1>7, <1>8, <1>9 DEF Next

\* A forecast is computed from numbers, in the order of the code.
THEOREM ForecastInvariant == Spec => []ForecastInv
<1>1. QED
  BY ForecastInit, ForecastStep, PTL DEF Spec

\* Every quantity is a number, and there is none unless the forecast is ready,
\* whatever was sold and however many SKUs share it (inspect_forecast).
THEOREM ForecastTypes == Spec => []TypeOK
<1>1. ForecastInv => TypeOK
  BY DEF ForecastInv
<1>2. QED
  BY <1>1, ForecastInvariant, PTL

\* A forecast that is ready was computed from numbers, and what it was divided
\* by is not zero.
LEMMA ReadyParts ==
    ASSUME ForecastInv, status = "ready"
    PROVE  /\ now \in Trend /\ then \in Trend /\ then.total # 0
           /\ future \in Nat /\ weights \in [Sku -> Nat]
           /\ Sum(weights) \in Nat \ {0}
           /\ Theory(future, now, then) \in Decimal
           /\ forecast = Shares(Theory(future, now, then), weights)
           /\ skus \subseteq Sku
<1>1. /\ now \in Trend /\ then \in Trend /\ then.total # 0
      /\ future \in Nat /\ weights \in [Sku -> Nat]
      /\ Sum(weights) # 0 /\ skus \subseteq Sku
      /\ forecast = Shares(Theory(future, now, then), weights)
  BY DEF ForecastInv, TypeOK, ReadyInv
<1>2. Sum(weights) \in Nat
  BY <1>1, SumType
<1>3. Theory(future, now, then) \in Decimal
  BY <1>1, TheoryType
<1>4. QED
  BY <1>1, <1>2, <1>3

\* What a forecast is about to divide by: last year's sales and trend, the
\* shares, the average day.  Division by 0 raises, which nothing would catch.
DivisorsAreNumbers ==
    pc = "allocate" =>
        /\ then.total \in Nat \ {0}
        /\ \A t \in {now, then} :
              /\ TrendFactor(t) \in Decimal /\ TrendFactor(t).c # 0
              /\ t.total # 0 => Over(Int2Dec(t.total), Int2Dec(30)).c # 0
        /\ ValidTrend(now) /\ ValidTrend(then) /\ Sum(weights) # 0 =>
              Theory(future, now, then) \in Decimal

\* For any sales, nothing is divided by 0: the base of the comparison is above
\* its limit, and a trend is at least 0.8 (inspect_forecast, trend_factor).
THEOREM NothingDividedByZero == Spec => []DivisorsAreNumbers
<1>1. ForecastInv => DivisorsAreNumbers
  <2> SUFFICES ASSUME ForecastInv, pc = "allocate" PROVE DivisorsAreNumbers
    BY DEF DivisorsAreNumbers
  <2>1. /\ now \in Trend /\ then \in Trend /\ future \in Nat
        /\ then.total = previous /\ previous >= PreviousBelow
    BY DEF ForecastInv, TypeOK, ReadyInv
  <2>2. then.total \in Nat \ {0}
    BY <2>1, CalculationAssumption DEF Trend
  <2>3. \A t \in {now, then} :
            TrendFactor(t) \in Decimal /\ TrendFactor(t).c # 0
    BY <2>1, TrendType
  <2>4. ASSUME NEW t \in {now, then}, t.total # 0
        PROVE  Over(Int2Dec(t.total), Int2Dec(30)).c # 0
    <3>1. t.total \in Nat /\ 30 \in Nat
      BY <2>1 DEF Trend
    <3>2. /\ Int2Dec(t.total) \in Decimal /\ Int2Dec(t.total).c # 0
          /\ Int2Dec(30) \in Decimal /\ Int2Dec(30).c # 0
      BY <2>4, <3>1, NumberType
    <3>3. QED
      BY <3>2, OverType
  <2>5. Theory(future, now, then) \in Decimal
    BY <2>1, <2>2, TheoryType
  <2>6. QED
    BY <2>2, <2>3, <2>4, <2>5 DEF DivisorsAreNumbers
<1>2. QED
  BY <1>1, ForecastInvariant, PTL

\* Whoever weighs more is given no less, at any precision of the arithmetic,
\* for any sales and any number of SKUs (allocate_forecast).
THEOREM SharesStayInOrder == Spec => []SharesInOrder
<1>1. ForecastInv => SharesInOrder
  <2> SUFFICES ASSUME ForecastInv, status = "ready" PROVE SharesInOrder
    BY DEF SharesInOrder
  <2> DEFINE theory == Theory(future, now, then)
  <2>1. /\ theory \in Decimal /\ weights \in [Sku -> Nat]
        /\ SumFunction(weights) \in Nat \ {0}
        /\ forecast = Shares(theory, weights) /\ skus \subseteq Sku
    BY ReadyParts DEF Sum
  <2> HIDE DEF theory
  <2>2. \A s, r \in Sku : weights[s] <= weights[r] =>
                             forecast[s] <= forecast[r]
    BY <2>1, SharesOrder
  <2>3. QED
    BY <2>1, <2>2 DEF SharesInOrder
<1>2. QED
  BY <1>1, ForecastInvariant, PTL

\* With four digits or more (the code has 28), nothing but the last rounding
\* to a unit moves the forecast of a SKU by more than the slack of nineteen
\* roundings: for any sales, trends, cap and unit, the quantity is the one the
\* rules give, to half a unit (allocate_forecast).
THEOREM ForecastsAreNear ==
    ASSUME Precision >= 4
    PROVE  Spec => []ForecastIsNear
<1>1. ForecastInv => ForecastIsNear
  <2> SUFFICES ASSUME ForecastInv, status = "ready", NEW s \in skus
               PROVE  LET x == Exact(s)
                          off == IF forecast[s] * x[2] > x[1]
                                 THEN forecast[s] * x[2] - x[1]
                                 ELSE x[1] - forecast[s] * x[2]
                      IN  2 * off <= Unit * x[2] + Slack(x[1])
    BY DEF ForecastIsNear
  <2> DEFINE theory == Theory(future, now, then)
             X == Capped(now, then)
             w == weights[s]
             sum == Sum(weights)
             z == Over(Over(Times(theory, Int2Dec(w)), Int2Dec(sum)),
                       Int2Dec(Unit))
             p == future * X[1] * w
             q == X[2] * sum
             h == HalfUp(z) * Unit
  <2>1. /\ now \in Trend /\ then \in Trend /\ then.total # 0
        /\ future \in Nat /\ weights \in [Sku -> Nat] /\ w \in Nat
        /\ sum \in Nat \ {0} /\ theory \in Decimal
        /\ forecast = Shares(theory, weights)
    BY ReadyParts
  <2>2. forecast[s] = h
    <3>1. s \in DOMAIN weights
      BY ReadyParts
    <3>2. sum = SumFunction(weights)
      BY DEF Sum
    <3>3. QED
      BY <2>1, <3>1, <3>2 DEF Shares
  <2>3. /\ X \in Fraction
        /\ Near(AsFraction(theory), FTimes(OverOne(future), X), 16)
    BY <2>1, TheoryIsNear
  <2>4. Exact(s) = <<p, q>>
    <3>1. ExactGrowth = X
      BY DEF ExactGrowth, Capped, Grown, CapFraction
    <3>2. QED
      BY <3>1 DEF Exact
  <2> HIDE DEF theory, X, w, sum, h
  <2>5. z \in Decimal /\ Near(AsFraction(z), <<p, q * Unit>>, 19)
    BY <2>1, <2>3, ShareIsNear
  <2>6. p \in Nat /\ q \in Nat \ {0}
    <3>1. X[1] \in Nat /\ X[2] \in Nat \ {0}
      BY <2>3, FractionParts
    <3>2. future * X[1] \in Nat
      BY <2>1, <3>1, ProductType
    <3>3. QED
      BY <2>1, <3>1, <3>2, ProductType
  <2> HIDE DEF z, p, q
  <2>7. /\ h \in Nat
        /\ 2 * (h * q - p) <= Unit * q + Slack(p)
        /\ 2 * (p - h * q) <= Unit * q + Slack(p)
    BY <2>5, <2>6, UnitIsNear DEF h
  <2>8. QED
    BY <2>2, <2>4, <2>7
<1>2. QED
  BY <1>1, ForecastInvariant, PTL
=============================================================================
