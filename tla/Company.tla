------------------------------ MODULE Company ------------------------------
(***************************************************************************)
(* The column of a sheet with the sales of the whole company, which one    *)
(* fill after the other reads, fills in and hands to the forecast as the   *)
(* shares of SKUs (services/company.py, domain/sheets/company.py).         *)
(*                                                                         *)
(* The title of the column says which 30 days its numbers count: the ones  *)
(* before the day of the fill.  A number is modelled by the day of the     *)
(* fill it was computed for; numbers of different days differ.  What goes  *)
(* wrong inside a fill (SheetFill) is here one step, Stop.                 *)
(***************************************************************************)
EXTENDS Naturals, Products

CONSTANTS MaxDay,   \* bound on the days
          MaxTyped  \* bound on what people type

ASSUME CompanyAssumption ==
    /\ MaxDay \in Nat \ {0}
    /\ MaxTyped \in Nat

Day == 1..MaxDay
Untitled == 0

Number(d) == [is |-> "number", day |-> d]
Content == {Number(d) : d \in Day}
           \cup {[is |-> k, day |-> 0] :
                    k \in {"blank", "typed", "text", "formula"}}
Blank == [is |-> "blank", day |-> 0]

VARIABLES
    day,        \* today
    twice,      \* the sheet has two columns of this kind
    title,      \* the day the title of the column belongs to, or Untitled
    column,     \* what the cells of the column contain
    typed,      \* how often people typed
    filling,    \* where the fill is
    replace,    \* config["overwrite"]
    basis,      \* the day of this fill, as_of
    chosen,     \* the SKUs whose numbers it will write
    given,      \* the company's sales that the forecast gets
    retitled,   \* the fill has replaced the title of another day
    torn        \* a fill stopped between that title and its numbers (history)

sheetVars == <<twice, title, column, typed>>
fillVars == <<filling, replace, basis, chosen, given, retitled>>
companyVars == <<day, sheetVars, fillVars, torn>>

Nobody == [s \in Item |-> Blank]

CompanyTypeOK ==
    /\ day \in Day
    /\ twice \in BOOLEAN
    /\ title \in Day \cup {Untitled}
    /\ column \in [Item -> Content]
    /\ typed \in 0..MaxTyped
    /\ filling \in {"no", "resolve", "title", "numbers"}
    /\ replace \in BOOLEAN
    /\ basis \in Day
    /\ chosen \subseteq Item
    /\ given \in [Item -> Content]
    /\ retitled \in BOOLEAN
    /\ torn \in BOOLEAN
    /\ title = Untitled => column = Nobody

CompanyInit ==
    /\ day = 1
    /\ twice \in BOOLEAN
    /\ title = Untitled
    /\ column = Nobody
    /\ typed = 0
    /\ filling = "no"
    /\ replace = FALSE
    /\ basis = 1
    /\ chosen = {}
    /\ given = Nobody
    /\ retitled = FALSE
    /\ torn = FALSE

-----------------------------------------------------------------------------
(* The days and the people. *)

Tomorrow ==
    /\ day < MaxDay
    /\ day' = day + 1
    /\ UNCHANGED <<sheetVars, fillVars, torn>>

\* Between two fills.  (SheetFill is about people who type during one.)
Type(s) ==
    /\ filling = "no"
    /\ title # Untitled
    /\ typed < MaxTyped
    /\ typed' = typed + 1
    /\ \E c \in {k \in Content : k.is # "number"} :
          column' = [column EXCEPT ![s] = c]
    /\ UNCHANGED <<day, twice, title, fillVars, torn>>

-----------------------------------------------------------------------------
(* resolve_company_sales *)

StartFill ==
    /\ filling = "no"
    /\ filling' = "resolve"
    /\ replace' \in BOOLEAN
    /\ basis' = day
    /\ chosen' = {}
    /\ given' = Nobody
    /\ retitled' = FALSE
    /\ UNCHANGED <<day, sheetVars, torn>>

\* The result is "unavailable" (or there is nothing to add): no number is
\* written and the forecast gets none.
Unavailable ==
    /\ filling' = "no"
    /\ UNCHANGED <<day, sheetVars, replace, basis, chosen, given, retitled,
                   torn>>

\* Mutant: any titled column will do.
MutantCurrent == title # Untitled

\* The title of the column is the one this fill would give it.
Current == title = basis

\* units(): a number, of a formula too.
IsQuantity(c) == c.is \in {"number", "typed", "formula"}

Reusable == /\ Current
            /\ ~replace
            /\ \A s \in Item : IsQuantity(column[s])

\* Which of two columns is meant is not known; a title of another day stays,
\* unless the fill was told to replace; no style has its identity confirmed.
Decline ==
    /\ filling = "resolve"
    /\ \E known \in SUBSET Style :
          \/ twice
          \/ title # Untitled /\ ~Current /\ ~replace
          \/ known = {}
    /\ Unavailable

\* The column is complete: its numbers are taken as they are.
Reuse ==
    /\ filling = "resolve"
    /\ ~twice
    /\ Reusable
    /\ filling' = "no"
    /\ given' = column
    /\ UNCHANGED <<day, sheetVars, replace, basis, chosen, retitled, torn>>

\* The number of s would not replace anything it must not.
Free(s) == \/ column[s] \in {Blank, Number(basis)}
           \/ replace /\ column[s].is # "formula"

\* Mutant: each SKU for itself.
MutantWhole(found) == {s \in found : Free(s)}

\* "By style": one SKU without a number leaves the whole style without.
Whole(found) ==
    {s \in Item : \A r \in OfStyle(StyleOf[s]) : r \in found /\ Free(r)}

\* Mutant: a new title as soon as there is a number to go with it.
MutantPresentable(whole) == whole # {}

\* A new column needs some number, and a new title all of them.
Presentable(whole) ==
    \/ Current
    \/ title = Untitled /\ whole # {}
    \/ whole = Item

\* The SKUs of which both ADS and JD have one valid row.
Summed(ads, jd) == ads \cap jd

\* A read that raises finds none, and SKUs of a style that is not known are not
\* asked for.
Query ==
    /\ filling = "resolve"
    /\ ~twice
    /\ title # Untitled /\ ~Current => replace
    /\ ~Reusable
    /\ \E ads, jd \in SUBSET Item :
          LET whole == Whole(Summed(ads, jd))
          IN  \/ /\ ~Presentable(whole)
                 /\ Unavailable
              \/ /\ Presentable(whole)
                 /\ chosen' = whole
                 /\ given' = [s \in Item |-> IF s \in whole
                                             THEN Number(basis) ELSE Blank]
                 /\ filling' = IF Current THEN "numbers" ELSE "title"
                 /\ UNCHANGED <<day, sheetVars, replace, basis, retitled,
                                torn>>

-----------------------------------------------------------------------------
(* The fill writes. *)

\* build_update: the column is inserted, or only its title set.
SetTitle ==
    /\ filling = "title"
    /\ title' = basis
    /\ retitled' = (title # Untitled)
    /\ filling' = "numbers"
    /\ UNCHANGED <<day, twice, column, typed, replace, basis, chosen, given,
                   torn>>

\* append_company_values, after the layout was read back and compared.
WriteNumbers ==
    /\ filling = "numbers"
    /\ column' = [s \in Item |-> IF s \in chosen THEN Number(basis)
                                 ELSE column[s]]
    /\ filling' = "no"
    /\ torn' = (torn /\ chosen # Item)
    /\ UNCHANGED <<day, twice, title, typed, replace, basis, chosen, given,
                   retitled>>

\* The plan is refused, somebody types, a request fails, the process dies.
Stop ==
    /\ filling # "no"
    /\ filling' = "no"
    /\ given' = Nobody
    /\ torn' = (torn \/ (filling = "numbers" /\ retitled))
    /\ UNCHANGED <<day, sheetVars, replace, basis, chosen, retitled>>

CompanyNext ==
    \/ Tomorrow
    \/ \E s \in Item : Type(s)
    \/ StartFill \/ Decline \/ Reuse \/ Query
    \/ SetTitle \/ WriteNumbers \/ Stop

CompanySpec == CompanyInit /\ [][CompanyNext]_companyVars
-----------------------------------------------------------------------------
(* Properties *)

\* docs/business-rules.md: "filled in by style".  A fill writes all numbers of
\* a style or none, whatever sources, titles and people left it to work with
\* (resolve_company_sales, append_company_values).
StylesAreWhole ==
    [][\A s, r \in Item :
          LET new == Number(basis)
          IN  /\ StyleOf[r] = StyleOf[s]
              /\ column'[s] = new /\ column[s] # new
              => column'[r] = new]_companyVars

\* The numbers in the column count the days of its title, through fills that
\* replace the title, decline or find a part of the numbers; unless a fill
\* stopped between the title and the numbers.
TitleTellsPeriod ==
    filling = "no" /\ ~torn =>
        \A s \in Item : column[s].is = "number" => column[s].day = title

\* Shares are never computed from numbers of other days, although most fills
\* take them from the sheet (with the same exception).
SharesAreCurrent ==
    ~torn => \A s \in Item : given[s].is = "number" => given[s].day = basis

\* docs/business-rules.md: shares are those of the company "in the same 30
\* days" - of whatever the fill takes for it, after any earlier fill.
SharesCountTheseDays ==
    \A s \in Item : given[s].is = "number" => given[s].day = basis
=============================================================================
