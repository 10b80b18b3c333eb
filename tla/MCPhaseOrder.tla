---------------------------- MODULE MCPhaseOrder ----------------------------
(***************************************************************************)
(* Small instances of PhaseOrder.                                          *)
(***************************************************************************)
EXTENDS PhaseOrder, TLC

CONSTANTS a, b, c, d, e1, e2, e3

Symmetry == Permutations(Initial) \cup Permutations(Edits)
=============================================================================
