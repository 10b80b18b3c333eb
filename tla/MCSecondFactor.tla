---------------------------- MODULE MCSecondFactor ----------------------------
(* A small instance of SecondFactor for TLC.                                   *)
EXTENDS SecondFactor, TLC

Symmetry ==
    Permutations(Sessions) \cup Permutations(Requests) \cup Permutations(CodeIds)
=============================================================================
