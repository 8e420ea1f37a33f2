---------------------------- MODULE MCCompareCache ----------------------------
(* Instances of CompareCache for TLC.                                       *)
EXTENDS CompareCache, TLC

CONSTANTS lstm, garch, local

MCNames == <<garch, local, lstm>>

Pair(b, c) == [m \in {lstm, local} |-> IF m = lstm THEN b ELSE c]

Sample(a, n) == [accuracy |-> a, observations |-> n]

(* Fewer cases, a lower accuracy, no observations, no metrics, no case, and *)
(* chance itself, where more cases change nothing.                          *)
MCBacktests == {Pair(Sample(70, 20), Sample(70, 60)),
                Pair(Sample(70, 60), Sample(62, 60)),
                Pair(Sample(60, NoCount), NoBacktest),
                Pair(Sample(80, 0), Sample(70, 60)),
                Pair(Sample(50, 20), Sample(50, 60))}

Symmetry == Permutations(Users)
==============================================================================
