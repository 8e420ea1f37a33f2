---------------------------- MODULE MCIndependent ----------------------------
(***************************************************************************)
(* Parts of the process that share no state: the screens with their cache, *)
(* the weekly report, the synchronisation of the catalogue and the way     *)
(* through the middleware.  No step of one can enable or disturb a step of *)
(* another, so a behaviour is of one part, chosen at the start, while the  *)
(* others stay as they began.                                              *)
(***************************************************************************)
EXTENDS TrendCache, WeeklyReport, TickerSync, Access, TLC

CONSTANTS o1, o2, s1, s2   \* owners and shares of the reports

VARIABLE part

parts == <<screenVars, now, reportVars, syncVars, accessVars, part>>

(* Bound: the middleware has the fewest units to tell apart.                *)
AccessEnd == 6

(* How a part that stays may begin does not matter.                         *)
Init ==
    /\ part \in {"screens", "reports", "sync", "access"}
    /\ ScreenInit /\ ClockInit /\ ReportInit /\ SyncInit /\ AccessInit
    /\ part # "screens" => /\ holds = [u \in Users |-> {}]
                           /\ predicted = [m \in Models |-> [t \in Tickers |-> Untrained]]
    /\ part # "reports" => smtp
    /\ part # "sync" => listed = {}
    /\ part # "access" => skew = 0

Next ==
    /\ UNCHANGED part
    /\ \/ /\ part = "screens" /\ (ScreenNext \/ NewDay \/ ScreenRestart)
          /\ UNCHANGED <<now, reportVars, syncVars, accessVars>>
       \/ /\ part = "reports" /\ ReportNext
          /\ UNCHANGED <<screenVars, syncVars, accessVars>>
       \/ /\ part = "sync" /\ SyncNext
          /\ UNCHANGED <<screenVars, reportVars, accessVars>>
       \/ /\ part = "access" /\ AccessNext /\ now' <= AccessEnd
          /\ UNCHANGED <<screenVars, reportVars, syncVars>>

Spec == Init /\ [][Next]_parts

------------------------------------------------------------------------------
(* Values of constants.                                                     *)

OwnersOfReports == {o1, o2}

Row(u, s, qty, entry) == [owner |-> u, share |-> s, qty |-> qty, entry |-> entry]

(* Two shares, of one or of two owners, with and without entry price.       *)
SomePortfolios ==
    {one \cup other \cup third :
        one \in {{Row(o1, s1, 1, NoAmount)}, {Row(o1, s1, 2, 2)}},
        other \in {{}, {Row(o1, s2, 1, NoAmount)}, {Row(o1, s2, 1, 1)}},
        third \in {{}, {Row(o2, s1, 1, 2)}}} \cup {{}}

(* No history, a new share, and closes of which a week passes between the   *)
(* first and the last, that rise, fall or have been zero.                   *)
SomeHistories ==
    {<<>>} \cup [{2} -> {0, 1}]
    \cup {[d \in {0, 2} |-> d + 1], [d \in {0, 1, 2} |-> 3 - d], [d \in {0, 2} |-> d]}

(* The clock of the process behind, on and ahead of that of the database.   *)
SomeSkews == {-1, 0, 1}

Symmetry == Permutations(Users) \cup Permutations(Tickers)

==============================================================================
