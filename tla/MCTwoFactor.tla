----------------------------- MODULE MCTwoFactor -----------------------------
(* Values of the constants of TwoFactor for TLC.                            *)
EXTENDS TwoFactor, TLC

Symmetry == Permutations(Requests) \cup Permutations(Secrets)
==============================================================================
