------------------------------ MODULE RetroBoard ------------------------------
(***************************************************************************)
(* What the retro board promises to a team: a sprint ends in one instant,  *)
(* which takes the whole board into the past under the number of the       *)
(* sprint, and undo takes the last sprint back.  No requests, no locks,    *)
(* no times.                                                               *)
(*                                                                         *)
(* Nothing is promised once two requests have disturbed each other.        *)
(***************************************************************************)
EXTENDS Integers

CONSTANTS Notes,
          First,      \* the first sprint
          MaxCopies   \* bound: cards with the same note on the board

VARIABLES
    board,       \* board[n]: cards with note n
    sprint,      \* the current sprint
    past,        \* past[k]: the board with which sprint k ended
    disturbed    \* somebody wrote over what they had not read

vars == <<board, sprint, past, disturbed>>

EmptyBoard == [n \in Notes |-> 0]

Sprints == First .. sprint - 1

Init ==
    /\ board = EmptyBoard
    /\ sprint = First
    /\ past = [k \in Sprints |-> EmptyBoard]
    /\ disturbed = FALSE

(* A card that is neither on the board nor in the past.                     *)
Create(n) ==
    /\ board[n] = 0 /\ \A k \in Sprints : past[k][n] = 0
    /\ board' = [board EXCEPT ![n] = 1]
    /\ UNCHANGED <<sprint, past>>

Delete(n) ==
    /\ board[n] > 0
    /\ board' = [board EXCEPT ![n] = @ - 1]
    /\ UNCHANGED <<sprint, past>>

EndSprint ==
    /\ board # EmptyBoard
    /\ board' = EmptyBoard
    /\ sprint' = sprint + 1
    /\ past' = [k \in First .. sprint |-> IF k = sprint THEN board ELSE past[k]]

(* The cards of the last sprint join those that have come since.            *)
Undo ==
    /\ sprint > First
    /\ board' = [n \in Notes |-> board[n] + past[sprint - 1][n]]
    /\ board' \in [Notes -> 0 .. MaxCopies]
    /\ sprint' = sprint - 1
    /\ past' = [k \in First .. sprint - 2 |-> past[k]]

Next ==
    \/ disturbed'
    \/ /\ UNCHANGED disturbed
       /\ \/ \E n \in Notes : Create(n) \/ Delete(n)
          \/ EndSprint \/ Undo

Spec == Init /\ [][Next]_vars
==============================================================================
