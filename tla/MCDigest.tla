------------------------------ MODULE MCDigest ------------------------------
(***************************************************************************)
(* Small instances of Digest.  An instance is chosen by KeyOf and Routes.  *)
(***************************************************************************)
EXTENDS Digest

CONSTANTS e1, e2, e3, ada, cus, none, toggle

\* Three toggles of one phase.
OneKey == [e \in {e1, e2, e3} |-> toggle]
\* Two toggles and an event that does not coalesce.
TwoKeyed == [e \in {e1, e2, e3} |-> IF e = e3 THEN none ELSE toggle]
Pair == [e \in {e1, e2} |-> toggle]

\* Everything goes to the customer user, or to both.
ToCustomer == [e \in {e1, e2, e3} |-> {cus}]
ToBoth == [e \in {e1, e2} |-> {ada, cus}]
=============================================================================
