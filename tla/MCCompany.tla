----------------------------- MODULE MCCompany -----------------------------
EXTENDS Company

\* Two SKUs of one style, and one of another.
Styles == [s \in Item |-> IF s \in {"a1", "a2"} THEN "a" ELSE "b"]
=============================================================================
