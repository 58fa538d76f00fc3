------------------------------ MODULE Request ------------------------------
(***************************************************************************)
(* What a call of the Feishu client with retry=False promises the code     *)
(* that makes it (infrastructure/feishu/client.py, and copy_spreadsheet in *)
(* drive.py): the request takes effect at most once; "ok" means it has,    *)
(* "refused" means it never will, and after any other end it may already   *)
(* have, or may still.  ThreeCopy (CopyOk, CopyRejected, CopyUnknown) and  *)
(* SheetFill are built on this promise; Client implements it.              *)
(***************************************************************************)
EXTENDS Naturals

VARIABLES landed,   \* how often Feishu has executed the request
          told      \* what the caller knows of it

vars == <<landed, told>>

\* "none": nothing was asked, or a request that may be repeated.
Told == {"none", "open", "ok", "refused", "unknown"}

TypeOK == landed \in 0..1 /\ told \in Told

Init == landed = 0 /\ told = "none"

\* Another request; what became of the last one is no longer followed.
Ask == /\ told # "open"
       /\ landed' = 0
       /\ told' \in {"open", "none"}

\* Feishu executes it, at once or late, but not after it refused it.
Land == /\ told \in {"open", "unknown"}
        /\ landed = 0
        /\ landed' = 1
        /\ UNCHANGED told

Answer == /\ told = "open"
          /\ \/ landed = 1 /\ told' = "ok"
             \/ landed = 0 /\ told' = "refused"
             \/ told' = "unknown"
          /\ UNCHANGED landed

Next == Ask \/ Land \/ Answer

Spec == Init /\ [][Next]_vars
=============================================================================
