------------------------------ MODULE Delivery ------------------------------
(***************************************************************************)
(* What a three-copy batch promises, whatever crashes, retries and         *)
(* overlapping runs it goes through (docs/architecture.md, "three files"   *)
(* and "deduplication and recovery"): the requirement sheet is captured    *)
(* once; which content is delivered is decided once; one file is           *)
(* delivered, made from that capture, with the decided content, and never  *)
(* changes; success is announced at most once, and only then.              *)
(***************************************************************************)
EXTENDS Naturals

CONSTANTS Edition,   \* the contents people give the requirement sheet
          None

VARIABLES captured,    \* the edition kept in the original backup
          decision,    \* which backup is to be delivered
          delivered,   \* the content of the delivered file
          announced    \* how many success cards were sent

vars == <<captured, decision, delivered, announced>>

\* A delivered copy: untouched, or filled and verified.
Content == [base : Edition, body : {"clean", "full"}]

NotDelivered == [base |-> None, body |-> "missing"]

Init ==
    /\ captured = None
    /\ decision = "open"
    /\ delivered = NotDelivered
    /\ announced = 0

Capture ==
    /\ captured = None
    /\ captured' \in Edition
    /\ UNCHANGED <<decision, delivered, announced>>

Decide ==
    /\ captured # None
    /\ decision = "open"
    /\ decision' \in {"original", "filled"}
    /\ UNCHANGED <<captured, delivered, announced>>

\* A degraded batch delivers the untouched sheet; otherwise the processed
\* one, which stays untouched only when there was nothing to fill.
Deliver ==
    /\ decision # "open"
    /\ delivered = NotDelivered
    /\ delivered' \in Content
    /\ delivered'.base = captured
    /\ decision = "original" => delivered'.body = "clean"
    /\ UNCHANGED <<captured, decision, announced>>

Announce ==
    /\ delivered # NotDelivered
    /\ announced = 0
    /\ announced' = 1
    /\ UNCHANGED <<captured, decision, delivered>>

Next == Capture \/ Decide \/ Deliver \/ Announce

Spec == Init /\ [][Next]_vars
=============================================================================
