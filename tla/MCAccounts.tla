------------------------------ MODULE MCAccounts ------------------------------
(* Values of the constants of Accounts for TLC.                             *)
EXTENDS Accounts, TLC

Symmetry == Permutations(Requests)
==============================================================================
