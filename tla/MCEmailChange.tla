---------------------------- MODULE MCEmailChange ----------------------------
(***************************************************************************)
(* Small instances of EmailChange.                                         *)
(***************************************************************************)
EXTENDS EmailChange, TLC

Symmetry ==
    Permutations(Users) \cup Permutations(Addresses)
        \cup Permutations(Changes) \cup Permutations(Requests)
=============================================================================
