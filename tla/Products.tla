------------------------------ MODULE Products ------------------------------
(***************************************************************************)
(* The products in the rows of a sheet (domain/products.py).               *)
(***************************************************************************)
CONSTANTS Item,     \* the SKUs
          Style,
          StyleOf   \* the style of each SKU

ASSUME ProductsAssumption == StyleOf \in [Item -> Style]

OfStyle(st) == {s \in Item : StyleOf[s] = st}
=============================================================================
