------------------------------ MODULE Planning ------------------------------
(***************************************************************************)
(* What a fill computes before it writes (services/fill.py): the forecast  *)
(* of a style on a platform, the column of the company's sales, and the    *)
(* plan for the columns of a platform.  Each is computed from a snapshot   *)
(* of its own and hands on a result; as they share no variable, a          *)
(* behaviour follows one of them.                                          *)
(***************************************************************************)
EXTENDS FillPlan, Company, Calculation

VARIABLE part       \* the one that is followed

planningVars == <<part, fillPlanVars, companyVars, vars>>

PlanningTypeOK ==
    /\ part \in {"platform", "company", "forecast"}
    /\ FillPlanTypeOK
    /\ CompanyTypeOK
    /\ TypeOK

PlanningInit ==
    /\ part \in {"platform", "company", "forecast"}
    /\ FillPlanInit
    /\ CompanyInit
    /\ Init
    /\ part # "platform" => /\ kind = "detail" /\ days = {} /\ ~present
                            /\ todo = {}
    /\ part # "company" => ~twice
    /\ part # "forecast" => /\ asOf = CHOOSE d \in AsOf : TRUE
                            /\ skus = Sku

PlanningNext ==
    \/ /\ part = "platform"
       /\ FillPlanNext
       /\ UNCHANGED <<part, companyVars, vars>>
    \/ /\ part = "company"
       /\ CompanyNext
       /\ UNCHANGED <<part, fillPlanVars, vars>>
    \/ /\ part = "forecast"
       /\ Next
       /\ UNCHANGED <<part, fillPlanVars, companyVars>>

PlanningSpec == PlanningInit /\ [][PlanningNext]_planningVars
=============================================================================
