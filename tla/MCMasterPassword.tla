--------------------------- MODULE MCMasterPassword ---------------------------
(***************************************************************************)
(* A small instance of MasterPassword for TLC.                             *)
(***************************************************************************)
EXTENDS MasterPassword, TLC

Symmetry == Permutations(Passwords) \cup Permutations(Servers)
=============================================================================
