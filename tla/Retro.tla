-------------------------------- MODULE Retro --------------------------------
(***************************************************************************)
(* The retro board of the team: cards, archives of past boards and the     *)
(* number of the current sprint.  POST /retro/archive and its undo are     *)
(* transactions of several statements at READ COMMITTED; what the first    *)
(* statement has read can have changed when the later ones write.  Cards   *)
(* are created and deleted by single statements.                           *)
(*                                                                         *)
(* A card is abstracted to the note on it; a board counts the cards of     *)
(* each note, because an undo writes restored notes on new cards.          *)
(***************************************************************************)
EXTENDS Integers, FiniteSets, FiniteSetsExt

CONSTANTS
    Notes,        \* what users write
    Requests,     \* archive and undo requests in flight
    First,        \* the sprint the migration starts from, 15
    NoArchive,
    MaxCopies,    \* bound: cards with the same note on the board
    MaxAt         \* bound: instants told apart

ASSUME SprintAssumption == First \in Nat \ {0}
ASSUME BoundsAssumption == MaxCopies \in Nat \ {0} /\ MaxAt \in Nat

VARIABLES
    board,        \* board[n]: the rows of retro_cards with note n
    archives,     \* the rows of retro_archives
    sprint,       \* current_sprint, the only row of retro_sprint
    req,          \* req[r]: the transaction of request r
    stale         \* an archive or undo wrote over what it had not read (history)

vars == <<board, archives, sprint, req, stale>>

Boards == [Notes -> 0 .. MaxCopies]

EmptyBoard == [n \in Notes |-> 0]

(* archived_at is the start of the transaction that inserted the row, which *)
(* also identifies it here.                                                 *)
Archive == [at : 1 .. MaxAt, sprint : Nat, cards : Boards]

Stages == {"idle", "archive", "archive_locked", "undo", "undo_deleted"}

Request == [stage : Stages, at : 0 .. MaxAt, seen : Boards, number : Nat,
            target : Archive \cup {NoArchive}]

Idle == [stage |-> "idle", at |-> 0, seen |-> EmptyBoard, number |-> 0,
         target |-> NoArchive]

Respond(r) == req' = [req EXCEPT ![r] = Idle]

(* The instants in use, and the one of a transaction that starts now.       *)
Instants == {0} \cup {a.at : a \in archives} \cup {req[r].at : r \in Requests}

Now == Max(Instants) + 1

SprintLocked == \E r \in Requests : req[r].stage = "archive_locked"

IsLast(a) == a \in archives /\ \A b \in archives : b.at <= a.at

------------------------------------------------------------------------------
(* POST /retro/cards and DELETE /retro/cards/{id}.  Every card that is      *)
(* created is a new one, whatever it says.                                  *)

Nowhere(n) == /\ board[n] = 0
              /\ \A a \in archives : a.cards[n] = 0
              /\ \A r \in Requests : req[r].seen[n] = 0

CreateCard(n) ==
    /\ Nowhere(n)
    /\ board' = [board EXCEPT ![n] = 1]
    /\ UNCHANGED <<archives, sprint, req, stale>>

DeleteCard(n) ==
    /\ board[n] > 0
    /\ board' = [board EXCEPT ![n] = @ - 1]
    /\ UNCHANGED <<archives, sprint, req, stale>>

------------------------------------------------------------------------------
(* POST /retro/archive: the transaction reads the cards; an empty board is  *)
(* a 400.                                                                   *)
ArchiveStart(r) ==
    /\ req[r].stage = "idle"
    /\ board # EmptyBoard
    /\ Now <= MaxAt
    /\ req' = [req EXCEPT ![r] = [Idle EXCEPT !.stage = "archive", !.at = Now,
                                              !.seen = board]]
    /\ UNCHANGED <<board, archives, sprint, stale>>

(* sprint::advance: the UPDATE locks the only row until the end.            *)
ArchiveAdvance(r) ==
    /\ req[r].stage = "archive"
    /\ ~SprintLocked
    /\ req' = [req EXCEPT ![r].stage = "archive_locked", ![r].number = sprint]
    /\ UNCHANGED <<board, archives, sprint, stale>>

(* INSERT of the snapshot, DELETE of every card there is now, commit.       *)
ArchiveCommit(r) ==
    /\ req[r].stage = "archive_locked"
    /\ archives' = archives \cup {[at |-> req[r].at, sprint |-> req[r].number,
                                   cards |-> req[r].seen]}
    /\ board' = EmptyBoard
    /\ sprint' = req[r].number + 1
    /\ stale' = (stale \/ req[r].seen # board)
    /\ Respond(r)

------------------------------------------------------------------------------
(* POST /retro/archive/undo: the archive with the last archived_at; its     *)
(* cards are inserted, nobody else sees them before the commit.             *)
UndoStart(r) ==
    /\ req[r].stage = "idle"
    /\ \E a \in archives :
          /\ IsLast(a)
          /\ req' = [req EXCEPT ![r] = [Idle EXCEPT !.stage = "undo", !.at = a.at,
                                                    !.seen = a.cards, !.target = a]]
    /\ UNCHANGED <<board, archives, sprint, stale>>

(* The DELETE of the archive waits for another undo of the same one; how    *)
(* many rows it deletes is not looked at.                                   *)
UndoDelete(r) ==
    /\ req[r].stage = "undo"
    /\ \A o \in Requests \ {r} :
          req[o].stage = "undo_deleted" => req[o].target # req[r].target
    /\ req' = [req EXCEPT ![r].stage = "undo_deleted"]
    /\ UNCHANGED <<board, archives, sprint, stale>>

(* Mutant of Rewound: nothing keeps the number from reaching 0.             *)
RewoundAnyway == sprint - 1

(* The number never goes below 1.                                           *)
Rewound == Max({1, sprint - 1})

Restored(cards) == [n \in Notes |-> board[n] + cards[n]]

(* Mutant of UndoCommit: the restored cards replace those of the board.     *)
UndoReplaces(r) ==
    /\ req[r].stage = "undo_deleted" /\ ~SprintLocked
    /\ board' = req[r].seen
    /\ archives' = archives \ {req[r].target}
    /\ sprint' = Rewound
    /\ stale' = (stale \/ ~IsLast(req[r].target))
    /\ Respond(r)

(* Mutant of UndoCommit: the archive stays.                                 *)
UndoKeepsArchive(r) ==
    /\ req[r].stage = "undo_deleted" /\ ~SprintLocked
    /\ board' = Restored(req[r].seen) /\ board' \in Boards
    /\ sprint' = Rewound
    /\ stale' = (stale \/ ~IsLast(req[r].target))
    /\ Respond(r)
    /\ UNCHANGED archives

(* Mutant of UndoCommit: it waits for an archive that is gone.              *)
UndoNeedsArchive(r) ==
    /\ req[r].stage = "undo_deleted" /\ ~SprintLocked
    /\ req[r].target \in archives
    /\ board' = Restored(req[r].seen) /\ board' \in Boards
    /\ archives' = archives \ {req[r].target}
    /\ sprint' = Rewound
    /\ stale' = (stale \/ ~IsLast(req[r].target))
    /\ Respond(r)

(* sprint::rewind waits for the row, then the commit.                       *)
UndoCommit(r) ==
    /\ req[r].stage = "undo_deleted"
    /\ ~SprintLocked
    /\ board' = Restored(req[r].seen) /\ board' \in Boards
    /\ archives' = archives \ {req[r].target}
    /\ sprint' = Rewound
    /\ stale' = (stale \/ ~IsLast(req[r].target))
    /\ Respond(r)

(* A statement or the commit fails, the client hangs up or the process      *)
(* stops: rollback.  The bound MaxCopies also ends here.                    *)
Fail(r) ==
    /\ req[r].stage # "idle"
    /\ Respond(r)
    /\ UNCHANGED <<board, archives, sprint, stale>>

TooManyCopies(r) ==
    /\ req[r].stage = "undo_deleted"
    /\ Restored(req[r].seen) \notin Boards
    /\ Fail(r)

------------------------------------------------------------------------------
Init ==
    /\ board = EmptyBoard
    /\ archives = {}
    /\ sprint = First
    /\ req = [r \in Requests |-> Idle]
    /\ stale = FALSE

Serve(r) ==
    \/ ArchiveAdvance(r) \/ ArchiveCommit(r)
    \/ UndoDelete(r) \/ UndoCommit(r) \/ TooManyCopies(r)

Next ==
    \/ \E n \in Notes : CreateCard(n) \/ DeleteCard(n)
    \/ \E r \in Requests : ArchiveStart(r) \/ UndoStart(r) \/ Serve(r) \/ Fail(r)

Spec == Init /\ [][Next]_vars

(* PostgreSQL serves the queue of a row lock in order.                      *)
FairSpec == Spec /\ \A r \in Requests : SF_vars(Serve(r))

------------------------------------------------------------------------------
(* Properties                                                               *)

TypeOK ==
    /\ board \in Boards
    /\ archives \subseteq Archive
    /\ sprint \in Nat \ {0}
    /\ req \in [Requests -> Request]
    /\ stale \in BOOLEAN

(* A card on the board or in an archive says n.                             *)
Somewhere(n) == board[n] > 0 \/ \E a \in archives : a.cards[n] > 0

(* A note disappears only when its card is deleted, or when an archive      *)
(* clears a board with cards that came after it had read it.                *)
NotesDoNotVanish ==
    [][\A n \in Notes :
          Somewhere(n) /\ ~Somewhere(n)'
          => \/ DeleteCard(n)
             \/ \E r \in Requests : /\ req[r].stage = "archive_locked"
                                    /\ req'[r] = Idle
                                    /\ board[n] > 0 /\ req[r].seen[n] = 0]_vars

(* As long as every archive and every undo found at its commit what it had  *)
(* read, no note is twice on the board or in an archive, on the board and   *)
(* in an archive, or in two archives.                                       *)
NotesAreNotCopied ==
    ~stale => \A n \in Notes :
        /\ board[n] <= 1
        /\ \A a \in archives : a.cards[n] > 0
               => /\ board[n] = 0 /\ a.cards[n] = 1
                  /\ \A b \in archives \ {a} : b.cards[n] = 0

(* Under the same condition the archives are numbered without gaps from the *)
(* first sprint on, in the order of archived_at, so that the one that undo  *)
(* takes is the sprint before the current one.                              *)
ArchivesAreNumbered ==
    ~stale => /\ sprint = First + Cardinality(archives)
              /\ \A a \in archives :
                    a.sprint = First + Cardinality({b \in archives : b.at < a.at})

(* An archive or an undo is always answered, whatever else holds the locks. *)
EveryRequestIsAnswered ==
    \A r \in Requests : (req[r].stage # "idle") ~> (req[r].stage = "idle")
==============================================================================
