--------------------------- MODULE RetroRefinement ---------------------------
(***************************************************************************)
(* Retro implements RetroBoard: the past of sprint k is the archive with   *)
(* the number k, and the instants of archive and undo are their commits.   *)
(***************************************************************************)
EXTENDS Retro

WithNumber(S, k) == CHOOSE a \in S : a.sprint = k

(* The cards of the archive with each number below the current one.         *)
Past == [k \in First .. sprint - 1 |-> WithNumber(archives, k).cards]

Team == INSTANCE RetroBoard WITH past <- Past, disturbed <- stale

(* As long as every archive and every undo found at its commit what it had  *)
(* read, they act in one instant, whatever else is in flight: an archive    *)
(* takes the board as it is, and undo the sprint before the current one.    *)
ImplementsBoard == Team!Spec
==============================================================================
