----------------------------- MODULE MCDocuments -----------------------------
(***************************************************************************)
(* Small instances of Documents.                                           *)
(***************************************************************************)
EXTENDS Documents, TLC

Symmetry == Permutations(Docs) \cup Permutations(Ndas)
=============================================================================
