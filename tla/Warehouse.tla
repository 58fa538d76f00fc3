----------------------------- MODULE Warehouse -----------------------------
(***************************************************************************)
(* How a fill reads the sales of its SKUs on one platform                  *)
(* (infrastructure/warehouse.py, called by services/sales.py) while the    *)
(* tables it reads are being loaded.                                       *)
(*                                                                         *)
(* Each query has a connection and a transaction of its own, so that the   *)
(* tables change between any two.  What other programs do to the tables is *)
(* not in this repository; it is modelled by what the code guards against: *)
(* days of the detail table come and go as a whole, the summary of ADS     *)
(* appears SKU by SKU, rows are there twice, or contradict each other.     *)
(***************************************************************************)
EXTENDS Naturals, FiniteSets, FiniteSetsExt, Functions, Products

CONSTANTS Dates,    \* the days of the window
          SoldOn,     \* what was sold of each SKU on each of them
          MaxDrops  \* bound on days that are taken away again

ASSUME WarehouseAssumption ==
    /\ IsFiniteSet(Dates)
    /\ SoldOn \in [Item -> [Dates -> Nat]]
    /\ MaxDrops \in Nat

VARIABLES
    kind,       \* the platform has a summary, only details, or a snapshot
    days,       \* the days of the window that the detail table has
    present,    \* the summary of yesterday has rows
    listed,     \* the rows that the summary or snapshot has of each SKU
    quality,    \* what the details of a SKU are like
    drops,      \* how often a day was taken away
    todo,       \* the groups of SKUs to be read
    asked,      \* the group being read
    reading,    \* the next query
    retried,    \* it failed before
    lacking,    \* the SKUs to be counted in the details
    seen,       \* the days found there
    known,      \* the SKUs with a number
    number,     \* the numbers
    slipped     \* SKUs counted when a day seen was gone again (history)

tables == <<kind, days, present, listed, quality, drops>>
query == <<todo, asked, reading, retried, lacking, seen>>
result == <<known, number, slipped>>
warehouseVars == <<tables, query, result>>

Queries == {"present", "snapshot", "coverage", "facts"}

WarehouseTypeOK ==
    /\ kind \in {"summary", "detail", "snapshot"}
    /\ days \subseteq Dates
    /\ present \in BOOLEAN
    /\ listed \in [Item -> {"none", "one", "two"}]
    /\ quality \in [Item -> {"once", "twice", "bad"}]
    /\ drops \in 0..MaxDrops
    /\ todo \subseteq SUBSET Item
    /\ asked \subseteq Item
    /\ reading \in Queries \cup {"next", "over"}
    /\ retried \in BOOLEAN
    /\ lacking \subseteq asked
    /\ seen \subseteq Dates
    /\ known \subseteq Item
    /\ number \in [Item -> Nat]
    /\ slipped \subseteq known

\* A manual fill reads style by style and leaves out those that are filled in
\* completely; an automatic one reads all SKUs at once.
Groups == {{Item}} \cup {{OfStyle(st) : st \in open} : open \in SUBSET Style}

WarehouseInit ==
    /\ kind \in {"summary", "detail", "snapshot"}
    /\ days \in SUBSET Dates
    /\ present \in BOOLEAN
    /\ listed = [s \in Item |-> "none"]
    /\ quality = [s \in Item |-> "once"]
    /\ drops = 0
    /\ todo \in Groups
    /\ asked = {}
    /\ reading = "next"
    /\ retried = FALSE
    /\ lacking = {}
    /\ seen = {}
    /\ known = {}
    /\ number = [s \in Item |-> 0]
    /\ slipped = {}

-----------------------------------------------------------------------------
(* The tables. *)

LoadDay(d) ==
    /\ reading # "over"
    /\ d \notin days
    /\ days' = days \cup {d}
    /\ UNCHANGED <<kind, present, listed, quality, drops, query, result>>

DropDay(d) ==
    /\ reading # "over"
    /\ d \in days
    /\ drops < MaxDrops
    /\ drops' = drops + 1
    /\ days' = days \ {d}
    /\ UNCHANGED <<kind, present, listed, quality, query, result>>

Summarise(s) ==
    /\ reading \in Queries
    /\ kind = "summary"
    /\ listed[s] = "none"
    /\ present' = TRUE
    /\ \E n \in {"one", "two"} : listed' = [listed EXCEPT ![s] = n]
    /\ UNCHANGED <<kind, days, quality, drops, query, result>>

-----------------------------------------------------------------------------
(* The loop of inspect_sales over the groups. *)

\* What the tables hold of the SKUs of a group matters from here on, and is
\* chosen here.
NextGroup ==
    /\ reading = "next"
    /\ \E g \in todo :
          /\ asked' = g
          /\ \E l \in [g -> {"none", "one", "two"}],
                q \in [g -> {"once", "twice", "bad"}] :
                /\ ~present \/ kind = "detail" => \A s \in g : l[s] = "none"
                /\ kind = "snapshot" => \A s \in g : q[s] = "once"
                /\ listed' = [s \in Item |-> IF s \in g THEN l[s] ELSE "none"]
                /\ quality' = [s \in Item |-> IF s \in g THEN q[s]
                                              ELSE "once"]
    /\ reading' = CASE kind = "summary" -> "present"
                    [] kind = "snapshot" -> "snapshot"
                    [] kind = "detail" -> "coverage"
    /\ lacking' = IF kind = "detail" THEN asked' ELSE {}
    /\ UNCHANGED <<kind, days, present, drops, todo, retried, seen, result>>

\* The group is done; the tables are of no interest until the next one.
EndGroup ==
    /\ todo' = todo \ {asked}
    /\ asked' = {}
    /\ reading' = "next"
    /\ retried' = FALSE
    /\ lacking' = {}
    /\ seen' = {}
    /\ listed' = [s \in Item |-> "none"]
    /\ quality' = [s \in Item |-> "once"]
    /\ UNCHANGED <<kind, days, present, drops>>

\* Any issue of the answer, and none of its numbers is used.
Issue ==
    /\ EndGroup
    /\ known' = known \ asked
    /\ slipped' = slipped \ asked
    /\ number' = [s \in Item |-> IF s \in asked THEN 0 ELSE number[s]]

AllRead ==
    /\ reading = "next"
    /\ todo = {}
    /\ reading' = "over"
    /\ UNCHANGED <<tables, todo, asked, retried, lacking, seen, result>>

-----------------------------------------------------------------------------
(* The queries. *)

\* _execute: five error codes allow for one more attempt.  A number that is
\* none raises as well.
QueryFails ==
    /\ reading \in Queries
    /\ \/ /\ ~retried
          /\ retried' = TRUE
          /\ UNCHANGED <<tables, todo, asked, reading, lacking, seen, result>>
       \/ Issue

Answered(next) == reading' = next /\ retried' = FALSE

\* summary_window: without any row of yesterday, the details are counted.
Present ==
    /\ reading = "present"
    /\ \/ /\ present
          /\ Answered("snapshot")
          /\ UNCHANGED lacking
       \/ /\ ~present
          /\ Answered("coverage")
          /\ lacking' = asked
    /\ UNCHANGED <<tables, todo, asked, seen, result>>

Total(s) == SumFunction(SoldOn[s])

\* One row gives the number; two leave the SKU without.  SKUs without a row
\* are counted in the details, if the platform has any.
Snapshot ==
    LET of(n) == {s \in asked : listed[s] = n}
    IN  /\ reading = "snapshot"
        /\ \/ /\ kind = "snapshot" /\ of("none") = asked
              /\ Issue
           \/ /\ kind = "snapshot" => of("none") # asked
              /\ known' = known \cup of("one")
              /\ number' = [s \in Item |-> IF s \in of("one") THEN Total(s)
                                           ELSE number[s]]
              /\ UNCHANGED slipped
              /\ IF kind = "snapshot" \/ of("none") = {}
                 THEN EndGroup
                 ELSE /\ Answered("coverage")
                      /\ lacking' = of("none")
                      /\ UNCHANGED <<tables, todo, asked, seen>>

\* Mutant: it is enough that the table has something of the window.
MutantCovered(ds) == ds # {}

Covered(ds) == ds = Dates

\* The days that have rows, of whatever SKU.
Coverage ==
    /\ reading = "coverage"
    /\ seen' = days
    /\ Answered("facts")
    /\ UNCHANGED <<tables, todo, asked, lacking, result>>

\* Copies of a detail count once; a SKU without rows has sold nothing.
Count(s) == SumFunction([d \in days |-> SoldOn[s][d]])

\* The sum, with whatever happened to the table since its days were listed.
Facts ==
    LET counted == {s \in lacking : quality[s] # "bad" \/ Count(s) = 0}
    IN  /\ reading = "facts"
        /\ \/ ~Covered(seen) /\ Issue
           \/ /\ Covered(seen)
              /\ known' = known \cup counted
              /\ number' = [s \in Item |-> IF s \in counted THEN Count(s)
                                           ELSE number[s]]
              /\ slipped' = IF seen \subseteq days THEN slipped
                            ELSE slipped \cup counted
              /\ EndGroup

WarehouseNext ==
    \/ \E d \in Dates : LoadDay(d) \/ DropDay(d)
    \/ \E s \in asked : Summarise(s)
    \/ NextGroup \/ AllRead
    \/ QueryFails \/ Present \/ Snapshot \/ Coverage \/ Facts

-----------------------------------------------------------------------------
(* Properties *)

\* A number that is used is what was sold in the window, whichever tables it
\* comes from and whatever is loaded meanwhile; unless a day was taken out of
\* the details after it was found there (sales_window, summary_window).
NumbersAreTrue == \A s \in known \ slipped : number[s] = Total(s)
=============================================================================
