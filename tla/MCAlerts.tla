------------------------------- MODULE MCAlerts -------------------------------
(* Values of the constants of Alerts for TLC.                               *)
EXTENDS Alerts, TLC

Symmetry == Permutations(Conditions \ {NoCondition})
==============================================================================
