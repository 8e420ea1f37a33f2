---------------------------- MODULE HoldingsLedger ----------------------------
(***************************************************************************)
(* What the portfolio promises to whoever replays the ledger: a holding    *)
(* and its ledger change in one step and by the same quantity, and only    *)
(* for accounts that exist.  No requests, no locks, no prices.             *)
(***************************************************************************)
EXTENDS Integers

CONSTANTS Users, Shares,
          MaxQty        \* bound: the largest quantity

VARIABLES
    active,     \* accounts that exist
    held,       \* held[p]: quantity of position p
    ledger      \* ledger[p]: bought minus sold of position p

vars == <<active, held, ledger>>

Positions == Users \X Shares

Init ==
    /\ active = Users
    /\ held \in [Positions -> 0 .. MaxQty]
    /\ ledger = held

(* The user buys or sells until q is held; opening starts from none and     *)
(* closing ends with none.                                                  *)
Hold(p, q) ==
    /\ p[1] \in active
    /\ held' = [held EXCEPT ![p] = q]
    /\ ledger' = [ledger EXCEPT ![p] = @ + (q - held[p])]
    /\ UNCHANGED active

CloseAccount(u) ==
    /\ active' = active \ {u}
    /\ held' = [p \in Positions |-> IF p[1] = u THEN 0 ELSE held[p]]
    /\ ledger' = [p \in Positions |-> IF p[1] = u THEN 0 ELSE ledger[p]]

Next == \/ \E p \in Positions, q \in 0 .. MaxQty : Hold(p, q)
        \/ \E u \in active : CloseAccount(u)

Spec == Init /\ [][Next]_vars
==============================================================================
