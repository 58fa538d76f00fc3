--------------------------- MODULE PlanningProofs ---------------------------
(***************************************************************************)
(* From the tables to the sheet, for any SKUs, styles, columns, sheets and *)
(* number of days: the numbers that are read, the scopes that are left out *)
(* of a plan, the forecasts that are written, and the column with the      *)
(* company's sales: which numbers a fill may find, write and hand on.      *)
(***************************************************************************)
EXTENDS Planning, CalculationProofs, TLAPS

-----------------------------------------------------------------------------
(* The column with the company's sales.                                     *)

\* The numbers in the cells f count the days before d.
Agree(f, d) == \A s \in Item : f[s].is = "number" => f[s].day = d

\* Numbers and title belong together, but between the two requests of a fill
\* that replaces both, or after it stopped there.
TitleInv ==
    ~torn /\ ~(filling = "numbers" /\ retitled) => Agree(column, title)

\* What a fill is about to write: whole styles under its own title and, under
\* one that it has replaced or will replace, the numbers of all SKUs.
ChosenInv ==
    /\ filling \in {"title", "numbers"} =>
          \A s \in chosen, r \in Item :
              StyleOf[r] = StyleOf[s] => r \in chosen
    /\ filling = "title" /\ title # Untitled => chosen = Item
    /\ filling = "numbers" => title = basis
    /\ filling = "numbers" /\ retitled => chosen = Item
    /\ filling \in {"resolve", "title"} => ~retitled

\* What the forecast gets.
GivenInv == ~torn \/ filling # "no" => Agree(given, basis)

CompanyInv == CompanyTypeOK /\ TitleInv /\ ChosenInv /\ GivenInv
-----------------------------------------------------------------------------
\* An empty column agrees with any title.
LEMMA NobodyAgrees == Nobody \in [Item -> Content] /\ \A d : Agree(Nobody, d)
<1>1. Blank \in Content /\ Blank.is # "number"
  BY DEF Blank, Content
<1>2. QED
  BY <1>1 DEF Nobody, Agree

\* The column and the fill at the start.
LEMMA CompanyInitInv == CompanyInit => CompanyInv
<1> SUFFICES ASSUME CompanyInit PROVE CompanyInv
  OBVIOUS
<1>1. CompanyTypeOK
  <2>1. day \in Day /\ basis \in Day /\ typed \in 0..MaxTyped
    BY CompanyAssumption DEF CompanyInit, Day
  <2>2. column \in [Item -> Content] /\ given \in [Item -> Content]
    BY NobodyAgrees DEF CompanyInit
  <2>3. QED
    BY <2>1, <2>2 DEF CompanyInit, CompanyTypeOK
<1>2. TitleInv /\ ChosenInv /\ GivenInv
  BY NobodyAgrees DEF CompanyInit, TitleInv, ChosenInv, GivenInv
<1>3. QED
  BY <1>1, <1>2 DEF CompanyInv

\* The invariant speaks of the variables of companyVars only.
LEMMA CompanyStutter ==
    ASSUME CompanyInv, UNCHANGED companyVars PROVE CompanyInv'
BY DEF CompanyInv, CompanyTypeOK, TitleInv, ChosenInv, GivenInv, Agree,
       companyVars, sheetVars, fillVars

\* A whole style is in Whole, or none of its SKUs.
LEMMA WholeStyles ==
    ASSUME NEW found, NEW s \in Whole(found), NEW r \in Item,
           StyleOf[r] = StyleOf[s]
    PROVE  r \in Whole(found)
BY DEF Whole, OfStyle

\* Days, people, and fills that end without writing.
LEMMA QuietStep ==
    ASSUME CompanyInv,
           \/ Tomorrow
           \/ \E s \in Item : Type(s)
           \/ StartFill \/ Decline \/ Reuse \/ Stop
    PROVE  CompanyInv'
<1> USE CompanyAssumption DEF CompanyInv, CompanyTypeOK
<1>1. CASE Tomorrow
  BY <1>1 DEF Tomorrow, sheetVars, fillVars, TitleInv, ChosenInv, GivenInv,
              Agree, Day
<1>2. ASSUME NEW s \in Item, Type(s) PROVE CompanyInv'
  <2>1. PICK c \in {k \in Content : k.is # "number"} :
            column' = [column EXCEPT ![s] = c]
    BY <1>2 DEF Type
  <2>2. UNCHANGED <<day, twice, title, fillVars, torn>> /\ title # Untitled
    BY <1>2 DEF Type
  <2>3. typed' \in 0..MaxTyped
    BY <1>2 DEF Type
  <2>4. TitleInv'
    BY <2>1, <2>2 DEF TitleInv, Agree, fillVars
  <2>5. CompanyTypeOK' /\ ChosenInv' /\ GivenInv'
    BY <2>1, <2>2, <2>3 DEF fillVars, ChosenInv, GivenInv, Agree
  <2>6. QED
    BY <2>4, <2>5
<1>3. CASE StartFill
  <2>1. Nobody \in [Item -> Content] /\ Agree(Nobody, basis')
    BY NobodyAgrees
  <2>2. QED
    BY <1>3, <2>1 DEF StartFill, sheetVars, TitleInv, ChosenInv, GivenInv,
                      Agree
<1>4. CASE Decline
  BY <1>4 DEF Decline, Unavailable, sheetVars, TitleInv, ChosenInv, GivenInv,
              Agree
<1>5. CASE Reuse
  <2>1. ~torn => Agree(given', basis')
    BY <1>5 DEF Reuse, Reusable, Current, TitleInv, Agree, sheetVars
  <2>2. QED
    BY <1>5, <2>1 DEF Reuse, sheetVars, TitleInv, ChosenInv, GivenInv, Agree
<1>6. CASE Stop
  <2>1. Nobody \in [Item -> Content] /\ Agree(Nobody, basis')
    BY NobodyAgrees
  <2>2. QED
    BY <1>6, <2>1 DEF Stop, sheetVars, TitleInv, ChosenInv, GivenInv, Agree
<1>7. QED
  BY <1>1, <1>2, <1>3, <1>4, <1>5, <1>6

\* A query that ends with something to write.
LEMMA QueryStep == ASSUME CompanyInv, Query PROVE CompanyInv'
<1> USE CompanyAssumption DEF CompanyInv, CompanyTypeOK
<1>1. PICK found :
          LET whole == Whole(found)
          IN  \/ /\ ~Presentable(whole)
                 /\ Unavailable
              \/ /\ Presentable(whole)
                 /\ chosen' = whole
                 /\ given' = [s \in Item |-> IF s \in whole
                                             THEN Number(basis) ELSE Blank]
                 /\ filling' = IF Current THEN "numbers" ELSE "title"
                 /\ UNCHANGED <<day, sheetVars, replace, basis, retitled,
                                torn>>
  BY DEF Query
<1> DEFINE whole == Whole(found)
<1>2. CASE Unavailable
  BY <1>2 DEF Query, Unavailable, sheetVars, TitleInv, ChosenInv, GivenInv,
              Agree
<1>3. CASE ~Unavailable
  <2>1. /\ Presentable(whole)
        /\ chosen' = whole
        /\ given' = [s \in Item |-> IF s \in whole
                                    THEN Number(basis) ELSE Blank]
        /\ filling' = IF Current THEN "numbers" ELSE "title"
        /\ UNCHANGED <<day, sheetVars, replace, basis, retitled, torn>>
    BY <1>1, <1>3
  <2>2. whole \subseteq Item
    BY DEF Whole
  <2>3. given' \in [Item -> Content] /\ Agree(given', basis)
    BY <2>1 DEF Number, Content, Blank, Agree
  <2>4. filling = "resolve" /\ ~retitled
    BY DEF Query, ChosenInv
  <2>5. ChosenInv'
    BY <2>1, <2>2, <2>4, WholeStyles
    DEF ChosenInv, Presentable, Current, sheetVars
  <2>6. TitleInv'
    BY <2>1, <2>4 DEF TitleInv, Agree, sheetVars
  <2>7. QED
    BY <2>1, <2>2, <2>3, <2>5, <2>6 DEF GivenInv, sheetVars, Agree
<1>4. QED
  BY <1>2, <1>3

\* The two requests that write.
LEMMA WriteStep ==
    ASSUME CompanyInv, SetTitle \/ WriteNumbers PROVE CompanyInv'
<1> USE CompanyAssumption DEF CompanyInv, CompanyTypeOK
<1>1. CASE SetTitle
  <2>1. TitleInv'
    BY <1>1, NobodyAgrees DEF SetTitle, TitleInv
  <2>2. QED
    BY <1>1, <2>1 DEF SetTitle, ChosenInv, GivenInv, Agree, Untitled, Day
<1>2. CASE WriteNumbers
  <2>1. column' = [s \in Item |-> IF s \in chosen THEN Number(basis)
                                  ELSE column[s]]
    BY <1>2 DEF WriteNumbers
  <2>2. column' \in [Item -> Content]
    BY <2>1 DEF Number, Content
  <2>3. title = basis /\ (retitled => chosen = Item)
    BY <1>2 DEF WriteNumbers, ChosenInv
  <2>4. ~torn' => Agree(column', title)
    BY <1>2, <2>1, <2>3 DEF WriteNumbers, TitleInv, Agree, Number
  <2>5. QED
    BY <1>2, <2>2, <2>3, <2>4
    DEF WriteNumbers, TitleInv, ChosenInv, GivenInv, Agree, Day, Untitled
<1>3. QED
  BY <1>1, <1>2

\* Every step of people, of a query and of a write keeps the invariant.
LEMMA CompanyInvStep ==
    ASSUME CompanyInv, [CompanyNext]_companyVars PROVE CompanyInv'
BY QuietStep, QueryStep, WriteStep, CompanyStutter DEF CompanyNext

-----------------------------------------------------------------------------
\* The inductive invariant of the column and its fills.
THEOREM CompanyInvariant == CompanySpec => []CompanyInv
BY CompanyInitInv, CompanyInvStep, PTL DEF CompanySpec

\* Through fills of any number of days the numbers in the column count the
\* days of its title, unless a fill stopped between the two (build_update and
\* append_company_values are requests of their own).
THEOREM TitlesAreTrue == CompanySpec => []TitleTellsPeriod
<1>1. CompanyInv => TitleTellsPeriod
  BY DEF CompanyInv, TitleInv, TitleTellsPeriod, Agree
<1>2. QED
  BY <1>1, CompanyInvariant, PTL

\* The forecast never gets numbers of other days, read or queried, with the
\* same exception (resolve_company_sales).
THEOREM SharesAreTrue == CompanySpec => []SharesAreCurrent
<1>1. CompanyInv => SharesAreCurrent
  BY DEF CompanyInv, GivenInv, SharesAreCurrent, Agree
<1>2. QED
  BY <1>1, CompanyInvariant, PTL

\* A fill writes all numbers of a style or none, also after one that stopped
\* (resolve_company_sales: one SKU without a number takes its style with it).
THEOREM StylesStayWhole == CompanySpec => StylesAreWhole
<1> DEFINE Together ==
        \A s, r \in Item :
            LET new == Number(basis)
            IN  /\ StyleOf[r] = StyleOf[s]
                /\ column'[s] = new /\ column[s] # new
                => column'[r] = new
<1>1. ASSUME CompanyInv, [CompanyNext]_companyVars PROVE Together
  <2> USE <1>1 DEF CompanyInv, CompanyTypeOK
  <2>1. CASE WriteNumbers
    BY <2>1 DEF WriteNumbers, ChosenInv
  <2>2. ASSUME NEW s \in Item, Type(s) PROVE Together
    <3>1. PICK c \in {k \in Content : k.is # "number"} :
              column' = [column EXCEPT ![s] = c]
      BY <2>2 DEF Type
    <3>2. c # Number(basis)
      BY <3>1 DEF Number
    <3>3. QED
      BY <3>1, <3>2
  <2>3. CASE UNCHANGED column
    BY <2>3
  <2>4. QED
    BY <2>1, <2>2, <2>3
    DEF CompanyNext, companyVars, sheetVars, Tomorrow, StartFill, Decline,
        Unavailable, Reuse, Query, SetTitle, Stop
<1>2. QED
  BY <1>1, CompanyInvariant, PTL DEF CompanySpec, StylesAreWhole

-----------------------------------------------------------------------------
(* The plan for the columns of a platform.                                 *)

\* Of the tables and the numbers, as much as the sums allow.
ReadInv ==
    /\ days \subseteq Dates
    /\ asked \subseteq Item
    /\ lacking \subseteq asked
    /\ todo \subseteq SUBSET Item
    /\ known \subseteq Item
    /\ NumbersAreTrue

\* A forecast has data only for styles with all their history.
DataInv ==
    \A x \in data : IsForecast(x[2]) =>
        /\ OfStyle(x[1]) \subseteq known
        /\ \A c \in Column : <<x[1], c>> \in data \/ IsSales(c)

\* From the sheet that was taken to the plan and the sheet that it leaves.
PlanInv ==
    /\ planning \in {"read", "isolate", "write", "done"}
    /\ planning # "read" => reading = "over"
    /\ planning \in {"isolate", "write"} =>
          DataInv /\ DOMAIN sheet = Item \X Column
    /\ planning = "write" =>
          /\ plan.entries = [x \in Planned |-> Status(x[1], x[2])]
          /\ Blocked({}) \subseteq plan.blocked
          /\ plan.blocked \subseteq Style \X Column
    /\ ForecastMatchesHistory
    /\ TotalsAddUp

FillPlanInv == ReadInv /\ PlanInv

-----------------------------------------------------------------------------
(* Isolation. *)

\* A part of a plan fails only by what is in the plan.
LEMMA FewerFailures ==
    ASSUME NEW entries, NEW totals, NEW blocked, NEW S,
           NEW ours \in SUBSET blocked
    PROVE  Failures(Only(entries, S), totals, ours)
               \subseteq Failures(entries, totals, blocked)
BY DEF Failures, Only

\* What is written of a style is what would be written if the plan had nothing
\* else (isolate_scopes).
LEMMA StyleAlone ==
    ASSUME NEW entries, NEW totals, NEW blocked,
           DOMAIN entries \subseteq Item \X Column,
           blocked \subseteq Style \X Column,
           NEW st \in Style
    PROVE  LET rows == OfStyle(st) \X Column
               ours == {b \in blocked : \E x \in rows : b = Scope(x)}
           IN  Active(entries, totals, blocked) \cap rows
                   = Active(Only(entries, rows), totals, ours)
<1> DEFINE rows == OfStyle(st) \X Column
           ours == {b \in blocked : \E x \in rows : b = Scope(x)}
           all == Failures(entries, totals, blocked)
           own == Failures(Only(entries, rows), totals, ours)
<1>1. own \subseteq all
  BY FewerFailures
<1>2. ASSUME NEW f \in all, NEW e \in rows, f[1] = StyleOf[e[1]]
      PROVE  f \in own
  <2>1. CASE f \in blocked
    <3>1. <<e[1], f[2]>> \in rows /\ f = Scope(<<e[1], f[2]>>)
      BY <1>2, <2>1 DEF Scope
    <3>2. QED
      BY <2>1, <3>1 DEF Failures
  <2>2. ASSUME NEW x \in DOMAIN entries, f = Scope(x),
               \/ entries[x] = "needs_review"
               \/ totals[x[2]] = "needs_review" /\ ~IsForecast(x[2])
        PROVE  f \in own
    <3>1. x \in rows
      BY <1>2, <2>2 DEF Scope, OfStyle
    <3>2. x \in DOMAIN Only(entries, rows)
          /\ Only(entries, rows)[x] = entries[x]
      BY <3>1 DEF Only
    <3>3. QED
      BY <2>2, <3>2 DEF Failures
  <2>3. QED
    BY <1>2, <2>1, <2>2 DEF Failures
<1>3. ASSUME NEW e \in rows
      PROVE  /\ Scope(e) \in all <=> Scope(e) \in own
             /\ ForecastStands(e, totals, all)
                    <=> ForecastStands(e, totals, own)
  BY <1>1, <1>2 DEF Scope, ForecastStands
<1>4. DOMAIN Only(entries, rows) = DOMAIN entries \cap rows
  BY DEF Only
<1>5. QED
  BY <1>3, <1>4 DEF Active

\* The same of one history column of the style.
LEMMA CellsAlone ==
    ASSUME NEW entries, NEW totals, NEW blocked,
           DOMAIN entries \subseteq Item \X Column,
           NEW st \in Style, NEW c \in Column, ~IsForecast(c)
    PROVE  LET cells == OfStyle(st) \X {c}
               ours == {b \in blocked : \E x \in cells : b = Scope(x)}
           IN  Active(entries, totals, blocked) \cap cells
                   = Active(Only(entries, cells), totals, ours)
<1> DEFINE cells == OfStyle(st) \X {c}
           ours == {b \in blocked : \E x \in cells : b = Scope(x)}
           all == Failures(entries, totals, blocked)
           own == Failures(Only(entries, cells), totals, ours)
<1>1. own \subseteq all
  BY FewerFailures
<1>2. ASSUME NEW e \in cells, Scope(e) \in all
      PROVE  Scope(e) \in own
  <2>1. CASE Scope(e) \in blocked
    BY <1>2, <2>1 DEF Failures
  <2>2. ASSUME NEW x \in DOMAIN entries, Scope(e) = Scope(x),
               \/ entries[x] = "needs_review"
               \/ totals[x[2]] = "needs_review" /\ ~IsForecast(x[2])
        PROVE  Scope(e) \in own
    <3>1. x \in cells
      BY <1>2, <2>2 DEF Scope, OfStyle
    <3>2. x \in DOMAIN Only(entries, cells)
          /\ Only(entries, cells)[x] = entries[x]
      BY <3>1 DEF Only
    <3>3. QED
      BY <2>2, <3>2 DEF Failures
  <2>3. QED
    BY <1>2, <2>1, <2>2 DEF Failures
<1>3. DOMAIN Only(entries, cells) = DOMAIN entries \cap cells
  BY DEF Only
<1>4. QED
  BY <1>1, <1>2, <1>3 DEF Active
-----------------------------------------------------------------------------
(* Reading. *)

\* Before anything is read there is no result and no plan.
LEMMA FillPlanInitInv == FillPlanInit => FillPlanInv
<1> SUFFICES ASSUME FillPlanInit PROVE FillPlanInv
  OBVIOUS
<1>1. todo \subseteq SUBSET Item
  BY DEF FillPlanInit, WarehouseInit, Groups, OfStyle
<1>2. ReadInv
  BY <1>1 DEF FillPlanInit, WarehouseInit, ReadInv, NumbersAreTrue
<1>3. PlanInv
  BY DEF FillPlanInit, PlanInv, ForecastMatchesHistory, TotalsAddUp
<1>4. QED
  BY <1>2, <1>3 DEF FillPlanInv

\* A group that is given up has no number that is used.
LEMMA IssueRead == ASSUME ReadInv, Issue PROVE ReadInv'
BY DEF ReadInv, Issue, EndGroup, NumbersAreTrue

\* A number from a summary is that of one row.
LEMMA SnapshotRead == ASSUME ReadInv, Snapshot PROVE ReadInv'
<1> DEFINE of(n) == {s \in asked : listed[s] = n}
<1>1. CASE Issue
  BY <1>1, IssueRead
<1>2. CASE ~Issue
  <2>1. /\ known' = known \cup of("one")
        /\ number' = [s \in Item |-> IF s \in of("one") THEN Total(s)
                                     ELSE number[s]]
        /\ UNCHANGED slipped
        /\ \/ EndGroup
           \/ /\ lacking' = of("none")
              /\ UNCHANGED <<tables, todo, asked>>
    BY <1>2 DEF Snapshot
  <2>2. NumbersAreTrue'
    BY <2>1 DEF ReadInv, NumbersAreTrue
  <2>3. (days \subseteq Dates /\ asked \subseteq Item /\ lacking \subseteq asked
         /\ todo \subseteq SUBSET Item /\ known \subseteq Item)'
    BY <2>1 DEF ReadInv, EndGroup, tables
  <2>4. QED
    BY <2>2, <2>3 DEF ReadInv
<1>3. QED
  BY <1>1, <1>2

\* A number from the details counts a window that was there as a whole, or is
\* known to have slipped.
LEMMA FactsRead == ASSUME ReadInv, Facts PROVE ReadInv'
<1> DEFINE counted == {s \in lacking : quality[s] # "bad" \/ Count(s) = 0}
<1>1. CASE Issue
  BY <1>1, IssueRead
<1>2. CASE ~Issue
  <2>1. /\ Covered(seen)
        /\ known' = known \cup counted
        /\ number' = [s \in Item |-> IF s \in counted THEN Count(s)
                                     ELSE number[s]]
        /\ slipped' = IF seen \subseteq days THEN slipped
                      ELSE slipped \cup counted
        /\ EndGroup
    BY <1>2 DEF Facts
  <2>2. counted \subseteq Item
    BY DEF ReadInv
  <2>3. seen \subseteq days => \A s \in Item : Count(s) = Total(s)
    <3>1. seen \subseteq days => days = Dates
      BY <2>1 DEF ReadInv, Covered
    <3>2. \A s \in Item : SoldOn[s] = [d \in Dates |-> SoldOn[s][d]]
      BY WarehouseAssumption
    <3>3. QED
      BY <3>1, <3>2, Zenon DEF Count, Total
  <2>4. NumbersAreTrue'
    BY <2>1, <2>2, <2>3 DEF ReadInv, NumbersAreTrue
  <2>5. QED
    BY <2>1, <2>2, <2>4 DEF ReadInv, EndGroup
<1>3. QED
  BY <1>1, <1>2

\* A step of the warehouse or of its reader keeps what is known of the
\* numbers read (warehouse.py, the two queries of a group).
LEMMA WarehouseRead == ASSUME ReadInv, WarehouseNext PROVE ReadInv'
<1> USE DEF ReadInv, NumbersAreTrue, tables, query, result
<1>1. ASSUME NEW d \in Dates, LoadDay(d) \/ DropDay(d) PROVE ReadInv'
  BY <1>1 DEF LoadDay, DropDay
<1>2. ASSUME NEW s \in asked, Summarise(s) PROVE ReadInv'
  BY <1>2 DEF Summarise
<1>3. CASE NextGroup
  BY <1>3 DEF NextGroup
<1>4. CASE AllRead \/ Present \/ Coverage
  BY <1>4 DEF AllRead, Present, Coverage, Answered
<1>5. CASE QueryFails
  BY <1>5, IssueRead DEF QueryFails
<1>6. QED
  BY <1>1, <1>2, <1>3, <1>4, <1>5, SnapshotRead, FactsRead
  DEF WarehouseNext

\* Once all groups are read the tables are left alone.
LEMMA ReadingIsOver == ASSUME reading = "over", WarehouseNext PROVE FALSE
BY DEF WarehouseNext, LoadDay, DropDay, Summarise, NextGroup, AllRead,
       QueryFails, Present, Coverage, Snapshot, Facts, Queries
-----------------------------------------------------------------------------
(* Planning. *)

\* The numbers are taken over for the plan.
LEMMA TakeStep == ASSUME FillPlanInv, Take PROVE FillPlanInv'
<1> USE FillPlanAssumption DEF FillPlanInv
<1>1. ReadInv'
  BY DEF Take, ReadInv, NumbersAreTrue, query, result
<1>2. planning' = "isolate" /\ reading' = "over"
  BY DEF Take, query
<1>3. DataInv'
  BY DEF Take, DataInv, result, IsForecast, IsSales, OfStyle
<1>4. DOMAIN sheet' = Item \X Column
  BY DEF Take
<1>5. PlanInv'
  BY <1>2, <1>3, <1>4 DEF PlanInv, ForecastMatchesHistory, TotalsAddUp
<1>6. QED
  BY <1>1, <1>5

\* The plan is drawn up: its totals, what blocks, and the forecasts.
LEMMA DraftStep == ASSUME FillPlanInv, Draft PROVE FillPlanInv'
<1> USE DEF FillPlanInv
<1>1. /\ planning = "isolate" /\ planning' = "write"
      /\ UNCHANGED <<warehouseVars, groups, order, sheet, data>>
  BY DEF Draft
<1>2. ReadInv'
  BY <1>1 DEF ReadInv, NumbersAreTrue, warehouseVars, tables, query,
              result
<1>3. PICK t \in Below, dated \in SUBSET Open(order, sheet) :
          plan' = [NoPlan EXCEPT
                !.entries = [x \in Planned |-> Status(x[1], x[2])],
                !.totals = TotalsOver(t),
                !.blocked = Blocked(dated)]
  BY DEF Draft
<1>4. /\ plan'.entries = [x \in Planned |-> Status(x[1], x[2])]
      /\ plan'.blocked = Blocked(dated)
  BY <1>3 DEF NoPlan
<1>5. Blocked({}) \subseteq Blocked(dated)
  BY DEF Blocked
<1>6. Blocked(dated) \subseteq Style \X Column
  BY DEF Blocked, Open
<1>7. /\ Planned' = Planned
      /\ \A i, c : Status(i, c)' = Status(i, c)
      /\ Blocked({})' = Blocked({})
  BY <1>1 DEF Planned, Status, Blocked, Columns, Open, LeftOut, Skipped,
              HasQuantity, Differs, Quantity, warehouseVars, result
<1>8. (DataInv /\ DOMAIN sheet = Item \X Column /\ reading = "over")'
  BY <1>1 DEF PlanInv, DataInv, warehouseVars, result, query
<1>9. PlanInv'
  BY <1>1, <1>4, <1>5, <1>6, <1>7, <1>8
  DEF PlanInv, ForecastMatchesHistory, TotalsAddUp
<1>10. QED
  BY <1>2, <1>9
\* A forecast that is carried out has its history: no scope of its style has
\* failed, so that each history cell was in the plan and agrees, or was
\* compared with the sheet.
LEMMA ForecastHasHistory ==
    ASSUME PlanInv, planning = "write",
           NEW x \in Active(plan.entries, plan.totals, plan.blocked),
           IsForecast(x[2]),
           order.history \/ (order.manual /\ ~order.overwrite),
           NEW i \in OfStyle(StyleOf[x[1]]),
           NEW c \in Column, ~IsForecast(c)
    PROVE  /\ HasQuantity(i, c)
           /\ order.history =>
                 <<i, c>> \in Active(plan.entries, plan.totals, plan.blocked)
           /\ ~order.history =>
                 /\ <<i, c>> \notin DOMAIN plan.entries
                 /\ sheet[i, c] \in {Empty, Value(Quantity(i, c))}
<1> DEFINE st == StyleOf[x[1]]
           failures == Failures(plan.entries, plan.totals, plan.blocked)
<1> USE FillPlanAssumption
<1>1. /\ plan.entries = [y \in Planned |-> Status(y[1], y[2])]
      /\ Blocked({}) \subseteq plan.blocked
      /\ DataInv
  BY DEF PlanInv
<1>2. x \in Planned
  BY <1>1 DEF Active
<1>3. /\ x \in Item \X Columns(order)
      /\ st \in Open(order, sheet)
      /\ HasQuantity(x[1], x[2])
  BY <1>2 DEF Planned, Skipped
<1>4. order.forecast
  BY <1>3 DEF Columns
<1>5. i \in Item /\ StyleOf[i] = st
  BY DEF OfStyle
<1>6. <<st, c>> \notin failures
  <2>1. c.platform = x[2].platform
    BY <1>3 DEF Columns
  <2>2. ForecastStands(x, plan.totals, failures)
    BY DEF Active
  <2>3. QED
    BY <2>1, <2>2 DEF ForecastStands
<1>7. HasQuantity(i, c)
  <2>1. <<st, x[2]>> \in data
    BY <1>3 DEF HasQuantity, IsForecast, IsSales
  <2>2. OfStyle(st) \subseteq known /\ (<<st, c>> \in data \/ IsSales(c))
    BY <1>1, <2>1 DEF DataInv
  <2>3. QED
    BY <1>4, <1>5, <2>2 DEF HasQuantity
<1>8. CASE order.history
  <2>1. <<i, c>> \in Planned
    BY <1>3, <1>4, <1>5, <1>8 DEF Planned, Columns, LeftOut, Skipped
  <2>2. QED
    BY <1>1, <1>5, <1>6, <1>7, <1>8, <2>1 DEF Active, Scope
<1>9. CASE ~order.history
  <2>1. <<i, c>> \notin DOMAIN plan.entries
    BY <1>1, <1>9 DEF Planned, Columns
  <2>2. \A r \in OfStyle(st) : HasQuantity(r, c)
    <3>1. <<st, x[2]>> \in data
      BY <1>3 DEF HasQuantity, IsForecast, IsSales
    <3>2. OfStyle(st) \subseteq known /\ (<<st, c>> \in data \/ IsSales(c))
      BY <1>1, <3>1 DEF DataInv
    <3>3. QED
      BY <1>4, <3>2 DEF HasQuantity, OfStyle
  <2>3. <<st, c>> \notin Blocked({})
    BY <1>1, <1>6 DEF Failures
  <2>4. ~Differs(i, c)
    BY <1>3, <1>4, <1>9, <2>2, <2>3 DEF Blocked
  <2>5. QED
    BY <1>7, <1>9, <2>1, <2>4 DEF Differs
<1>10. QED
  BY <1>7, <1>8, <1>9

\* The sum that is expected below a column is the sum of the cells that are
\* there after the write, for each of them is the same.
LEMMA WrittenAddUp == ASSUME WritePlan PROVE TotalsAddUp'
<1> DEFINE active == Active(plan.entries, plan.totals, plan.blocked)
           sums == [c \in Kept(active, plan.totals) |-> Expected(active, c)]
<1>1. /\ plan' = [plan EXCEPT !.active = active, !.sums = sums]
      /\ sheet' = [x \in Item \X Column |->
                      IF x \in active THEN Value(Quantity(x[1], x[2]))
                      ELSE sheet[x]]
  BY DEF WritePlan
<1>2. /\ plan'.active = active
      /\ plan'.totals = plan.totals
      /\ plan'.sums = sums
  BY <1>1
<1>3. ASSUME NEW x \in active
      PROVE  plan.totals[x[2]] # "needs_review"
  BY <1>3 DEF Active, Failures, ForecastStands, Scope
<1>4. ASSUME NEW c \in Column
      PROVE  Expected(active, c) = SumFunction([i \in Item |-> sheet'[i, c].n])
  <2>1. ASSUME NEW i \in Item
        PROVE  (IF <<i, c>> \in active THEN Quantity(i, c)
                ELSE sheet[i, c].n) = sheet'[i, c].n
    <3>1. <<i, c>> \in Item \X Column
      OBVIOUS
    <3>2. CASE <<i, c>> \in active
      <4>1. sheet'[i, c] = Value(Quantity(i, c))
        BY <1>1, <3>1, <3>2
      <4>2. \A q : Value(q).n = q
        BY DEF Value
      <4>3. QED
        BY <3>2, <4>1, <4>2, Zenon
    <3>3. CASE <<i, c>> \notin active
      BY <1>1, <3>1, <3>3
    <3>4. QED
      BY <3>2, <3>3
  <2>2. [i \in Item |-> IF <<i, c>> \in active THEN Quantity(i, c)
                        ELSE sheet[i, c].n]
            = [i \in Item |-> sheet'[i, c].n]
    BY <2>1
  <2>3. QED
    BY <2>2 DEF Expected
<1>5. QED
  BY <1>2, <1>3, <1>4 DEF TotalsAddUp

\* The active part of the plan is written into the sheet.
LEMMA WritePlanStep == ASSUME FillPlanInv, WritePlan PROVE FillPlanInv'
<1> DEFINE active == Active(plan.entries, plan.totals, plan.blocked)
<1>1. /\ planning = "write" /\ planning' = "done"
      /\ plan'.active = active
      /\ sheet' = [x \in Item \X Column |->
                      IF x \in active THEN Value(Quantity(x[1], x[2]))
                      ELSE sheet[x]]
      /\ UNCHANGED <<warehouseVars, groups, order, data>>
  <2>1. \A w : [plan EXCEPT !.active = active, !.sums = w].active = active
    BY DEF WritePlan
  <2>2. QED
    BY <2>1 DEF WritePlan
<1>2. ReadInv'
  BY <1>1 DEF FillPlanInv, ReadInv, NumbersAreTrue, warehouseVars, tables,
              query, result
<1>3. \A i, c : /\ HasQuantity(i, c)' <=> HasQuantity(i, c)
                /\ Quantity(i, c)' = Quantity(i, c)
  BY <1>1 DEF HasQuantity, Quantity, warehouseVars, result
<1>4. ForecastMatchesHistory'
  <2> SUFFICES ASSUME NEW x \in active, IsForecast(x[2]),
                      order.history \/ (order.manual /\ ~order.overwrite),
                      NEW i \in OfStyle(StyleOf[x[1]]),
                      NEW c \in Column, ~IsForecast(c)
               PROVE  /\ HasQuantity(i, c)
                      /\ \/ sheet'[i, c] = Value(Quantity(i, c))
                         \/ ~order.history /\ sheet'[i, c] = Empty
    BY <1>1, <1>3 DEF ForecastMatchesHistory
  <2>1. /\ HasQuantity(i, c)
        /\ order.history => <<i, c>> \in active
        /\ ~order.history =>
              /\ <<i, c>> \notin DOMAIN plan.entries
              /\ sheet[i, c] \in {Empty, Value(Quantity(i, c))}
    BY <1>1, ForecastHasHistory DEF FillPlanInv
  <2>2. <<i, c>> \in Item \X Column
    BY DEF OfStyle
  <2>3. <<i, c>> \notin DOMAIN plan.entries => <<i, c>> \notin active
    BY DEF Active
  <2>4. QED
    BY <1>1, <2>1, <2>2, <2>3
<1>5. TotalsAddUp'
  BY <1>1, WrittenAddUp
<1>6. PlanInv'
  BY <1>1, <1>4, <1>5 DEF FillPlanInv, PlanInv, warehouseVars, query
<1>7. QED
  BY <1>2, <1>6 DEF FillPlanInv

\* A step that changes nothing keeps the invariant.
LEMMA FillPlanStutter ==
    ASSUME FillPlanInv, UNCHANGED fillPlanVars PROVE FillPlanInv'
<1>1. ReadInv'
  BY DEF FillPlanInv, ReadInv, NumbersAreTrue, fillPlanVars, warehouseVars,
         tables, query, result
<1>2. UNCHANGED <<planning, order, sheet, data, plan, reading, known, number>>
  BY DEF fillPlanVars, planVars, warehouseVars, query, result
<1>3. /\ Planned' = Planned
      /\ \A i, c : Status(i, c)' = Status(i, c)
      /\ Blocked({})' = Blocked({})
  BY <1>2 DEF Planned, Status, Blocked, Columns, Open, LeftOut, Skipped,
              HasQuantity, Differs, Quantity
<1>4. DataInv' <=> DataInv
  BY <1>2 DEF DataInv
<1>5. ForecastMatchesHistory'
  BY <1>2 DEF FillPlanInv, PlanInv, ForecastMatchesHistory, HasQuantity,
              Quantity
<1>6. TotalsAddUp'
  BY <1>2 DEF FillPlanInv, PlanInv, TotalsAddUp
<1>7. PlanInv'
  BY <1>2, <1>3, <1>4, <1>5, <1>6 DEF FillPlanInv, PlanInv
<1>8. QED
  BY <1>1, <1>7 DEF FillPlanInv

\* Every step of reading and planning keeps the invariant.
LEMMA FillPlanInvStep ==
    ASSUME FillPlanInv, [FillPlanNext]_fillPlanVars PROVE FillPlanInv'
<1>1. CASE WarehouseNext /\ UNCHANGED planVars
  <2>1. planning = "read"
    BY <1>1, ReadingIsOver DEF FillPlanInv, PlanInv
  <2>2. PlanInv'
    BY <1>1, <2>1 DEF PlanInv, ForecastMatchesHistory, TotalsAddUp, planVars
  <2>3. QED
    BY <1>1, <2>2, WarehouseRead DEF FillPlanInv
<1>2. QED
  BY <1>1, TakeStep, DraftStep, WritePlanStep, FillPlanStutter
  DEF FillPlanNext

-----------------------------------------------------------------------------
\* Each part of Planning keeps to its own specification, whichever is followed.
THEOREM PlanningParts == PlanningSpec => FillPlanSpec /\ CompanySpec /\ Spec
<1>1. PlanningInit => FillPlanInit /\ CompanyInit /\ Init
  BY DEF PlanningInit
<1>2. [PlanningNext]_planningVars =>
          /\ [FillPlanNext]_fillPlanVars
          /\ [CompanyNext]_companyVars
          /\ [Next]_vars
  BY DEF PlanningNext, planningVars
<1>3. QED
  BY <1>1, <1>2, PTL DEF PlanningSpec, FillPlanSpec, CompanySpec, Spec

\* The inductive invariant of reading and planning.
THEOREM FillPlanInvariant == FillPlanSpec => []FillPlanInv
BY FillPlanInitInv, FillPlanInvStep, PTL DEF FillPlanSpec

\* Whatever tables a number comes from and whatever is loaded meanwhile, it is
\* what was sold in the whole window, or a day that was seen was taken away
\* before it was counted (sales_window, summary_window).
THEOREM ReadNumbersAreTrue == PlanningSpec => []NumbersAreTrue
BY PlanningParts, FillPlanInvariant, PTL DEF FillPlanInv, ReadInv

\* For any plan and sheet, what is written of a style, and of a history column
\* of it, does not depend on the rest of the plan (isolate_scopes).
THEOREM ConflictsAreLocal == PlanningSpec => []ConflictsStayLocal
<1>1. ASSUME FillPlanInv, planning = "write"
      PROVE  /\ DOMAIN plan.entries \subseteq Item \X Column
             /\ plan.blocked \subseteq Style \X Column
  BY <1>1 DEF FillPlanInv, PlanInv, Planned, Columns
<1>2. FillPlanInv => ConflictsStayLocal
  <2> SUFFICES ASSUME FillPlanInv, planning = "write"
               PROVE  ConflictsStayLocal
    BY DEF ConflictsStayLocal
  <2> DEFINE whole == Active(plan.entries, plan.totals, plan.blocked)
             Alone(S) == Active(Only(plan.entries, S), plan.totals,
                                {b \in plan.blocked :
                                    \E x \in S : b = Scope(x)})
  <2>1. ASSUME NEW st \in Style
        PROVE  whole \cap (OfStyle(st) \X Column)
                   = Alone(OfStyle(st) \X Column)
    BY <1>1, StyleAlone
  <2>2. ASSUME NEW st \in Style, NEW c \in Column, ~IsForecast(c)
        PROVE  whole \cap (OfStyle(st) \X {c}) = Alone(OfStyle(st) \X {c})
    <3>1. DOMAIN plan.entries \subseteq Item \X Column
      BY <1>1
    <3>2. QED
      BY <2>2, <3>1, CellsAlone
  <2>3. QED
    BY <2>1, <2>2 DEF ConflictsStayLocal
<1>3. QED
  BY <1>2, PlanningParts, FillPlanInvariant, PTL

\* For any plan and sheet, a forecast is written only beside the history that
\* it was computed from (isolate_scopes, build_forecast_values).
THEOREM ForecastsHaveHistory == PlanningSpec => []ForecastMatchesHistory
BY PlanningParts, FillPlanInvariant, PTL DEF FillPlanInv, PlanInv

\* For any plan and sheet, no total is verified that is not the sum of the
\* cells, and no column is written above a total that is in conflict
\* (isolate_scopes).
THEOREM SumsAreTrue == PlanningSpec => []TotalsAddUp
BY PlanningParts, FillPlanInvariant, PTL DEF FillPlanInv, PlanInv

-----------------------------------------------------------------------------
(* Types.                                                                   *)

\* Sums of sales are numbers.
LEMMA SumsAreNumbers ==
    ASSUME days \subseteq Dates
    PROVE  \A s \in Item : Total(s) \in Nat /\ Count(s) \in Nat
<1> SUFFICES ASSUME NEW s \in Item PROVE Total(s) \in Nat /\ Count(s) \in Nat
  OBVIOUS
<1>1. IsFiniteSet(Dates) /\ IsFiniteSet(days)
  BY WarehouseAssumption, FS_Subset
<1>2. SoldOn[s] \in [Dates -> Nat]
  BY WarehouseAssumption
<1>3. [d \in days |-> SoldOn[s][d]] \in [days -> Nat]
  BY <1>2
<1>4. Total(s) \in Nat
  BY <1>1, <1>2, Sums DEF Total
<1>5. Count(s) \in Nat
  BY <1>1, <1>3, Sums DEF Count
<1>6. QED
  BY <1>4, <1>5

\* A group that is given up leaves everything of its kind.
LEMMA IssueTypes == ASSUME WarehouseTypeOK, Issue PROVE WarehouseTypeOK'
BY DEF WarehouseTypeOK, Issue, EndGroup, Queries

\* A step of the warehouse or of its reader leaves everything of its kind.
LEMMA WarehouseTypes ==
    ASSUME WarehouseTypeOK, WarehouseNext PROVE WarehouseTypeOK'
<1> USE DEF WarehouseTypeOK, Queries, tables, query, result
<1>1. ASSUME NEW d \in Dates, LoadDay(d) \/ DropDay(d)
      PROVE  WarehouseTypeOK'
  BY <1>1, WarehouseAssumption DEF LoadDay, DropDay
<1>2. ASSUME NEW s \in asked, Summarise(s) PROVE WarehouseTypeOK'
  BY <1>2 DEF Summarise
<1>3. CASE NextGroup
  BY <1>3 DEF NextGroup
<1>4. CASE AllRead \/ Present \/ Coverage
  BY <1>4 DEF AllRead, Present, Coverage, Answered
<1>5. CASE QueryFails
  BY <1>5, IssueTypes DEF QueryFails
<1>6. CASE Snapshot
  <2> DEFINE of(n) == {s \in asked : listed[s] = n}
  <2>1. CASE Issue
    BY <2>1, IssueTypes
  <2>2. CASE ~Issue
    <3>1. /\ known' = known \cup of("one")
          /\ number' = [s \in Item |-> IF s \in of("one") THEN Total(s)
                                       ELSE number[s]]
          /\ UNCHANGED slipped
          /\ \/ EndGroup
             \/ /\ Answered("coverage")
                /\ lacking' = of("none")
                /\ UNCHANGED <<tables, todo, asked, seen>>
      BY <1>6, <2>2 DEF Snapshot
    <3>2. number' \in [Item -> Nat]
      BY <3>1, SumsAreNumbers
    <3>3. QED
      BY <3>1, <3>2 DEF EndGroup, Answered
  <2>3. QED
    BY <2>1, <2>2
<1>7. CASE Facts
  <2> DEFINE counted == {s \in lacking : quality[s] # "bad" \/ Count(s) = 0}
  <2>1. CASE Issue
    BY <2>1, IssueTypes
  <2>2. CASE ~Issue
    <3>1. /\ known' = known \cup counted
          /\ number' = [s \in Item |-> IF s \in counted THEN Count(s)
                                       ELSE number[s]]
          /\ slipped' = IF seen \subseteq days THEN slipped
                        ELSE slipped \cup counted
          /\ EndGroup
      BY <1>7, <2>2 DEF Facts
    <3>2. number' \in [Item -> Nat]
      BY <3>1, SumsAreNumbers
    <3>3. counted \subseteq Item
      OBVIOUS
    <3> HIDE DEF counted
    <3>4. QED
      BY <3>1, <3>2, <3>3 DEF EndGroup
  <2>3. QED
    BY <2>1, <2>2
<1>8. QED
  BY <1>1, <1>2, <1>3, <1>4, <1>5, <1>6, <1>7 DEF WarehouseNext

\* The fields of a plan stay what they are when some of them are set.
LEMMA PlanFields ==
    ASSUME NEW p, NEW e, NEW t, NEW b, NEW a, NEW n,
           DOMAIN p = DOMAIN NoPlan
    PROVE  LET q == [p EXCEPT !.entries = e, !.totals = t, !.blocked = b]
               w == [p EXCEPT !.active = a, !.sums = n]
           IN  /\ DOMAIN q = DOMAIN NoPlan /\ DOMAIN w = DOMAIN NoPlan
               /\ q.entries = e /\ q.blocked = b /\ q.active = p.active
               /\ w.entries = p.entries /\ w.blocked = p.blocked
               /\ w.active = a
BY DEF NoPlan

\* Reading and planning leave everything of its kind, whatever the tables, the
\* sheets and the other data contain.
LEMMA FillPlanTypesStep ==
    ASSUME FillPlanTypeOK, FillPlanInv, [FillPlanNext]_fillPlanVars
    PROVE  FillPlanTypeOK'
<1> USE DEF FillPlanTypeOK
<1>1. CASE WarehouseNext /\ UNCHANGED planVars
  BY <1>1, WarehouseTypes DEF planVars
<1>2. CASE Take
  <2>1. 0 \in 0..MaxDrops
    BY WarehouseAssumption
  <2>2. /\ kind' = "detail" /\ days' = {} /\ present' = FALSE /\ drops' = 0
        /\ UNCHANGED <<listed, quality, query, result>>
    BY <1>2 DEF Take
  <2>3. WarehouseTypeOK'
    BY <2>1, <2>2, Zenon DEF WarehouseTypeOK, query, result
  <2>4. QED
    BY <1>2, <2>3, FillPlanAssumption DEF Take
<1>3. CASE Draft
  <2>1. PICK t \in Below, dated \in SUBSET Open(order, sheet) :
            plan' = [NoPlan EXCEPT
                  !.entries = [x \in Planned |-> Status(x[1], x[2])],
                  !.totals = TotalsOver(t),
                  !.blocked = Blocked(dated)]
    BY <1>3 DEF Draft
  <2>2. /\ DOMAIN plan' = DOMAIN NoPlan
        /\ plan'.entries = [x \in Planned |-> Status(x[1], x[2])]
        /\ plan'.blocked = Blocked(dated)
        /\ plan'.active = NoPlan.active
    BY <2>1, PlanFields
  <2>3. NoPlan.active = {}
    BY DEF NoPlan
  <2>4. Planned \subseteq Item \X Column
    BY DEF Planned, Columns
  <2>5. \A i, c : Status(i, c) \in {"needs_review", "unchanged", "write"}
    BY DEF Status
  <2>6. Blocked(dated) \subseteq Style \X Column
    BY DEF Blocked, Open
  <2>7. /\ UNCHANGED <<groups, order, sheet, data>>
        /\ planning' = "write"
        /\ WarehouseTypeOK'
    BY <1>3 DEF Draft, WarehouseTypeOK, warehouseVars, tables, query, result
  <2>8. QED
    BY <2>2, <2>3, <2>4, <2>5, <2>6, <2>7
<1>4. CASE WritePlan
  <2> DEFINE active == Active(plan.entries, plan.totals, plan.blocked)
             sums == [c \in Kept(active, plan.totals) |-> Expected(active, c)]
  <2>1. /\ DOMAIN plan' = DOMAIN NoPlan
        /\ plan'.entries = plan.entries
        /\ plan'.blocked = plan.blocked
        /\ plan'.active = active
    <3>1. plan' = [plan EXCEPT !.active = active, !.sums = sums]
      BY <1>4 DEF WritePlan
    <3> HIDE DEF active, sums
    <3>2. QED
      BY <3>1, PlanFields
  <2>2. /\ active \subseteq DOMAIN plan.entries
        /\ \A x \in active : plan.entries[x] # "needs_review"
    BY DEF Active, Failures
  <2> HIDE DEF active
  <2>3. sheet' \in [Item \X Column -> Contents]
    <3>1. sheet' = [x \in Item \X Column |->
                       IF x \in active THEN Value(Quantity(x[1], x[2]))
                       ELSE sheet[x]]
      BY <1>4 DEF WritePlan, active
    <3>2. \A x \in Item \X Column : Quantity(x[1], x[2]) \in Nat
      BY DEF Quantity, WarehouseTypeOK
    <3>3. \A k \in Nat : Value(k) \in Contents
      BY DEF Value, Contents
    <3>4. QED
      BY <3>1, <3>2, <3>3
  <2>4. /\ UNCHANGED <<groups, order, data>>
        /\ planning' = "done"
        /\ WarehouseTypeOK'
    BY <1>4 DEF WritePlan, WarehouseTypeOK, warehouseVars, tables, query,
                result
  <2>5. QED
    BY <2>1, <2>2, <2>3, <2>4
<1>5. CASE UNCHANGED fillPlanVars
  BY <1>5 DEF WarehouseTypeOK, fillPlanVars, planVars, warehouseVars, tables,
              query, result
<1>6. QED
  BY <1>1, <1>2, <1>3, <1>4, <1>5 DEF FillPlanNext

\* Reading and planning start with everything of its kind.
LEMMA FillPlanInitTypes == FillPlanInit => FillPlanTypeOK
<1> SUFFICES ASSUME FillPlanInit PROVE FillPlanTypeOK
  OBVIOUS
<1>1. todo \subseteq SUBSET Item
  BY DEF FillPlanInit, WarehouseInit, Groups, OfStyle
<1>2. WarehouseTypeOK
  <2>1. 0 \in 0..MaxDrops
    BY WarehouseAssumption
  <2>2. /\ listed \in [Item -> {"none", "one", "two"}]
        /\ quality \in [Item -> {"once", "twice", "bad"}]
        /\ number \in [Item -> Nat]
    BY DEF FillPlanInit, WarehouseInit
  <2>3. QED
    BY <1>1, <2>1, <2>2
    DEF FillPlanInit, WarehouseInit, WarehouseTypeOK, Queries
<1>3. NoSheet \in [Item \X Column -> Contents]
  BY DEF NoSheet, Empty, Contents
<1>4. NoPlan.entries = [x \in {} |-> ""] /\ NoPlan.blocked = {}
      /\ NoPlan.active = {}
  BY DEF NoPlan
<1>5. QED
  BY <1>1, <1>2, <1>3, <1>4 DEF FillPlanInit, FillPlanTypeOK

\* Everything that is read, planned, counted or forecast is what it should be;
\* a number in the sheet, of the sales or of a share is a natural number,
\* whatever was sold (services/fill.py).
THEOREM PlanningTypes == PlanningSpec => []PlanningTypeOK
<1> DEFINE OnePart == part \in {"platform", "company", "forecast"}
<1>1. PlanningInit => OnePart
  BY DEF PlanningInit
<1>2. OnePart /\ [PlanningNext]_planningVars => OnePart'
  BY DEF PlanningNext, planningVars
<1>3. PlanningSpec => []OnePart
  BY <1>1, <1>2, PTL DEF PlanningSpec
<1>4. FillPlanSpec => []FillPlanTypeOK
  BY FillPlanInitTypes, FillPlanTypesStep, FillPlanInvariant, PTL
  DEF FillPlanSpec
<1>5. OnePart /\ FillPlanTypeOK /\ CompanyInv /\ TypeOK => PlanningTypeOK
  BY DEF PlanningTypeOK, CompanyInv
<1>6. QED
  BY <1>3, <1>4, <1>5, PlanningParts, CompanyInvariant, ForecastTypes, PTL
=============================================================================
