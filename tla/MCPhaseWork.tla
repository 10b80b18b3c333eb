---------------------------- MODULE MCPhaseWork ----------------------------
(***************************************************************************)
(* Small instances of PhaseWork.                                           *)
(***************************************************************************)
EXTENDS PhaseWork, TLC

Symmetry == Permutations(Requests)
=============================================================================
