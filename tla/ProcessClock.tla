----------------------------- MODULE ProcessClock -----------------------------
(***************************************************************************)
(* The clock the background jobs of the process sleep by.                  *)
(***************************************************************************)
EXTENDS Integers

CONSTANT MaxTime   \* bound: end of the run

ASSUME MaxTimeAssumption == MaxTime \in Nat

VARIABLE now

ClockInit == now = 0

Tick == now < MaxTime /\ now' = now + 1
==============================================================================
