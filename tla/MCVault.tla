------------------------------- MODULE MCVault -------------------------------
(***************************************************************************)
(* Small instances of VaultRoutes.                                         *)
(***************************************************************************)
EXTENDS VaultRoutes, TLC

Symmetry == Permutations(Credentials) \cup Permutations(Requests) \cup Permutations(Edits)
=============================================================================
