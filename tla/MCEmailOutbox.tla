---------------------------- MODULE MCEmailOutbox ----------------------------
(***************************************************************************)
(* Small instances of EmailOutbox, chosen by KeyOf.                        *)
(***************************************************************************)
EXTENDS EmailOutbox

CONSTANTS k1, k2, p1, p2, p3

OneKey    == [p \in {p1} |-> k1]
OwnKeys   == [p \in {p1, p3} |-> IF p = p1 THEN k1 ELSE k2]
SharedKey == [p \in {p1, p2, p3} |-> IF p = p3 THEN k2 ELSE k1]
=============================================================================
