----------------------------- MODULE RetroProofs -----------------------------
(***************************************************************************)
(* Theorems of Retro, for any notes, any number of requests and any first  *)
(* sprint.                                                                 *)
(***************************************************************************)
EXTENDS RetroRefinement, FiniteSetTheorems, WellFoundedInduction, TLAPS

USE SprintAssumption, BoundsAssumption

Reading(r) == req[r].stage \in {"archive", "archive_locked"}

Locked(r) == req[r].stage = "archive_locked"

Undoing(r) == req[r].stage \in {"undo", "undo_deleted"}

(* Every archive has its own instant, and so has every request for one.     *)
InstantsHold ==
    /\ IsFiniteSet(archives)
    /\ \A a, b \in archives : a.at = b.at => a = b
    /\ \A r \in Requests : Reading(r) =>
          /\ req[r].at # 0
          /\ \A a \in archives : a.at # req[r].at
          /\ \A o \in Requests \ {r} : Reading(o) => req[o].at # req[r].at

(* A request for an archive has read a card; the one that has the lock of   *)
(* the sprint is alone and has read the number there is.                    *)
ReadingsHold ==
    \A r \in Requests : Reading(r) =>
        /\ \E n \in Notes : req[r].seen[n] > 0
        /\ Locked(r) => /\ req[r].number = sprint
                        /\ \A o \in Requests \ {r} : ~Locked(o)

(* An undo restores the cards of its archive.                               *)
UndosHold ==
    \A r \in Requests : Undoing(r) =>
        req[r].target \in Archive /\ req[r].seen = req[r].target.cards

(* What a request for an archive has read is gone from the board once a     *)
(* later archive exists, and only the first of the later ones can have it.  *)
SeenIsGone ==
    \A r \in Requests, n \in Notes : Reading(r) /\ req[r].seen[n] > 0 =>
        /\ \A a \in archives : a.at > req[r].at => board[n] = 0
        /\ \A a, b \in archives : req[r].at < a.at /\ a.at < b.at => b.cards[n] = 0

IInv == /\ TypeOK /\ InstantsHold /\ ReadingsHold /\ UndosHold
        /\ ~stale => SeenIsGone
        /\ NotesAreNotCopied /\ ArchivesAreNumbered

(* The request nobody serves is one.                                        *)
LEMMA IdleTyped == Idle \in Request /\ ~(Idle.stage \in Stages \ {"idle"})
BY DEF Idle, Request, Stages, Boards, EmptyBoard

(* The invariant holds initially.                                           *)
LEMMA InitIInv == Init => IInv
<1> SUFFICES ASSUME Init PROVE IInv
  OBVIOUS
<1>1. \A r \in Requests : req[r] = Idle /\ ~Reading(r) /\ ~Undoing(r)
  BY DEF Init, Idle, Reading, Undoing
<1>2. IsFiniteSet(archives) /\ Cardinality(archives) = 0
  BY FS_EmptySet DEF Init
<1>3. TypeOK
  <2>1. board \in Boards
    BY DEF Init, Boards, EmptyBoard
  <2>2. req \in [Requests -> Request]
    BY IdleTyped DEF Init
  <2> QED
    BY <2>1, <2>2 DEF Init, TypeOK
<1>4. NotesAreNotCopied
  BY DEF Init, NotesAreNotCopied, EmptyBoard
<1>5. ArchivesAreNumbered
  BY <1>2 DEF Init, ArchivesAreNumbered
<1> QED
  BY <1>1, <1>2, <1>3, <1>4, <1>5
     DEF Init, IInv, InstantsHold, ReadingsHold, UndosHold, SeenIsGone

------------------------------------------------------------------------------
(* Instants.                                                                *)

(* A set of numbers with a bound has a last one.                            *)
LEMMA LastExists ==
  ASSUME NEW S \in SUBSET Nat, NEW n \in Nat, \A s \in S : s <= n, S # {}
  PROVE  Max(S) \in S /\ \A s \in S : s <= Max(S)
<1> DEFINE T == {m \in Nat : \A s \in S : s <= m}
           R == OpToRel(<, Nat)
<1>1. n \in T /\ T \subseteq Nat
  OBVIOUS
<1>2. IsWellFoundedOn(R, Nat)
  BY NatLessThanWellFounded
<1>3. \A x, y \in Nat : x < y => <<x, y>> \in R
  BY DEF OpToRel
<1> HIDE DEF R
<1>4. PICK m \in T : \A k \in T : <<k, m>> \notin R
  <2> HIDE DEF T
  <2> QED
    BY <1>1, <1>2, WFMin
<1>5. \A k \in T : ~(k < m)
  BY <1>1, <1>3, <1>4
<1>6. m \in S
  <2>1. CASE m = 0
    <3>1. PICK s \in S : TRUE
      OBVIOUS
    <3>2. s \in Nat /\ s <= m
      BY <3>1
    <3>3. s = m
      BY <2>1, <3>2
    <3> QED
      BY <3>3
  <2>2. CASE m # 0
    <3>1. m - 1 \in Nat /\ m - 1 \notin T
      BY <1>5, <2>2
    <3> QED
      BY <3>1
  <2> QED
    BY <2>1, <2>2
<1>7. \A s \in S : s <= m
  OBVIOUS
<1> HIDE DEF T
<1>8. m \in Nat
  BY <1>6
<1> QED
  BY <1>6, <1>7 DEF Max

(* A transaction that starts now is later than all there is.                *)
LEMMA NowIsLast ==
  ASSUME TypeOK
  PROVE  /\ Now \in Nat \ {0}
         /\ \A a \in archives : a.at < Now
         /\ \A r \in Requests : req[r].at < Now
<1>1. \A a \in archives : a.at \in 0 .. MaxAt
  BY DEF TypeOK, Archive
<1>2. \A r \in Requests : req[r].at \in 0 .. MaxAt
  BY DEF TypeOK, Request
<1>3. /\ Instants \subseteq 0 .. MaxAt /\ 0 \in Instants
      /\ \A a \in archives : a.at \in Instants
      /\ \A r \in Requests : req[r].at \in Instants
  BY <1>1, <1>2 DEF Instants
<1> HIDE DEF Instants
<1>4. Max(Instants) \in Instants /\ \A i \in Instants : i <= Max(Instants)
  <2>1. Instants \in SUBSET Nat /\ MaxAt \in Nat /\ Instants # {}
        /\ \A i \in Instants : i <= MaxAt
    BY <1>3
  <2> QED
    BY <2>1, LastExists
<1> DEFINE last == Max(Instants)
<1>5. Now = last + 1 /\ last \in Instants /\ \A i \in Instants : i <= last
  BY <1>4 DEF Now
<1> HIDE DEF last
<1>6. last \in Nat /\ \A i \in Instants : i \in Nat
  BY <1>3, <1>5
<1>7. Now \in Nat \ {0} /\ \A i \in Instants : i < Now
  BY <1>5, <1>6
<1> QED
  BY <1>3, <1>7

------------------------------------------------------------------------------
(* Steps.                                                                   *)

(* A step of one request that leaves board, archives and number alone.      *)
LEMMA RequestMoves ==
  ASSUME IInv, NEW r \in Requests, NEW x \in Request, req' = [req EXCEPT ![r] = x],
         UNCHANGED <<board, archives, sprint, stale>>,
         x.stage \in {"archive", "archive_locked"} =>
            \/ Reading(r) /\ x.at = req[r].at /\ x.seen = req[r].seen
            \/ /\ x.at # 0 /\ \E n \in Notes : x.seen[n] > 0
               /\ \A a \in archives : a.at < x.at
               /\ \A o \in Requests : req[o].at < x.at,
         x.stage = "archive_locked" =>
            x.number = sprint /\ \A o \in Requests \ {r} : ~Locked(o),
         x.stage \in {"undo", "undo_deleted"} =>
            x.target \in Archive /\ x.seen = x.target.cards,
         Locked(r) => x.stage # "archive"
  PROVE  IInv'
<1> USE DEF IInv
<1>1. /\ req' \in [Requests -> Request] /\ req'[r] = x
      /\ \A o \in Requests \ {r} : req'[o] = req[o]
  BY DEF TypeOK
<1>2. TypeOK'
  BY <1>1 DEF TypeOK
<1>3. /\ \A a \in archives : a.at \in Int
      /\ \A o \in Requests : req[o].at \in Int
      /\ x.at \in Int
  BY DEF TypeOK, Archive, Request
<1>4. InstantsHold'
  BY <1>1, <1>3 DEF InstantsHold, Reading
<1>5. ReadingsHold'
  BY <1>1 DEF ReadingsHold, Reading, Locked
<1>6. UndosHold'
  BY <1>1 DEF UndosHold, Undoing
<1>7. ~stale' => SeenIsGone'
  <2> SUFFICES ASSUME ~stale PROVE SeenIsGone'
    OBVIOUS
  <2>1. SeenIsGone
    OBVIOUS
  <2>2. CASE x.stage \in {"archive", "archive_locked"} /\ Reading(r)
                /\ x.at = req[r].at /\ x.seen = req[r].seen
    BY <1>1, <2>1, <2>2 DEF SeenIsGone, Reading
  <2>3. CASE \A a \in archives : a.at < x.at
    BY <1>1, <1>3, <2>1, <2>3 DEF SeenIsGone, Reading
  <2>4. CASE x.stage \notin {"archive", "archive_locked"}
    BY <1>1, <2>1, <2>4 DEF SeenIsGone, Reading
  <2> QED
    BY <2>2, <2>3, <2>4
<1>8. NotesAreNotCopied' /\ ArchivesAreNumbered'
  BY DEF NotesAreNotCopied, ArchivesAreNumbered
<1> QED
  BY <1>2, <1>4, <1>5, <1>6, <1>7, <1>8

(* A card that comes is the only one with its note, one that goes is one.   *)
LEMMA CardsMove ==
  ASSUME IInv, NEW n \in Notes, CreateCard(n) \/ DeleteCard(n)
  PROVE  IInv'
<1> USE DEF IInv
<1>1. /\ board \in [Notes -> 0 .. MaxCopies] /\ 1 \in 0 .. MaxCopies
      /\ UNCHANGED <<archives, sprint, req, stale>>
  BY DEF TypeOK, Boards, CreateCard, DeleteCard
<1>2. /\ board' \in [Notes -> 0 .. MaxCopies]
      /\ \A m \in Notes : \/ board'[m] <= board[m]
                          \/ Nowhere(m) /\ board'[m] = 1
  BY <1>1 DEF CreateCard, DeleteCard
<1>3. TypeOK' /\ InstantsHold' /\ ReadingsHold' /\ UndosHold' /\ ArchivesAreNumbered'
  BY <1>1, <1>2 DEF TypeOK, Boards, InstantsHold, ReadingsHold, UndosHold, Reading, Locked,
                    Undoing, ArchivesAreNumbered
<1>4. \A r \in Requests, m \in Notes : req[r].seen[m] > 0 /\ board[m] = 0 => board'[m] = 0
  BY <1>1, <1>2 DEF Nowhere
<1>5. ~stale' => SeenIsGone'
  BY <1>1, <1>4 DEF SeenIsGone, Reading
<1>6. NotesAreNotCopied'
  <2> SUFFICES ASSUME ~stale, NEW m \in Notes
               PROVE  /\ board'[m] <= 1
                      /\ \A a \in archives : a.cards[m] > 0
                            => /\ board'[m] = 0 /\ a.cards[m] = 1
                               /\ \A b \in archives \ {a} : b.cards[m] = 0
    BY <1>1 DEF NotesAreNotCopied
  <2>1. CASE board'[m] <= board[m]
    BY <1>1, <1>2, <2>1 DEF NotesAreNotCopied
  <2>2. CASE Nowhere(m) /\ board'[m] = 1
    BY <2>2 DEF Nowhere, NotesAreNotCopied
  <2> QED
    BY <1>2, <2>1, <2>2
<1> QED
  BY <1>3, <1>5, <1>6

(* The requests that only read.                                             *)
LEMMA StartsKeep ==
  ASSUME IInv, NEW r \in Requests, ArchiveStart(r) \/ UndoStart(r)
  PROVE  IInv'
<1>1. CASE ArchiveStart(r)
  <2> DEFINE x == [Idle EXCEPT !.stage = "archive", !.at = Now, !.seen = board]
  <2>1. /\ req' = [req EXCEPT ![r] = x] /\ req[r].stage = "idle" /\ Now <= MaxAt
        /\ board # EmptyBoard /\ UNCHANGED <<board, archives, sprint, stale>>
    BY <1>1 DEF ArchiveStart
  <2>2. /\ Now \in Nat \ {0} /\ \A a \in archives : a.at < Now
        /\ \A o \in Requests : req[o].at < Now
    BY NowIsLast DEF IInv
  <2>3. Now \in 0 .. MaxAt /\ Now # 0
    BY <2>1, <2>2
  <2>4. x \in Request
    BY <2>3, IdleTyped DEF Request, Stages, IInv, TypeOK
  <2>5. \E n \in Notes : board[n] > 0
    BY <2>1 DEF IInv, TypeOK, Boards, EmptyBoard
  <2>6. /\ x.stage = "archive" /\ x.at = Now /\ x.seen = board
        /\ ~Locked(r)
    BY <2>1 DEF Locked, Idle
  <2> HIDE DEF x
  <2> QED
    BY <2>1, <2>2, <2>3, <2>4, <2>5, <2>6, RequestMoves
<1>2. CASE UndoStart(r)
  <2> DEFINE Start(a) == [Idle EXCEPT !.stage = "undo", !.at = a.at, !.seen = a.cards,
                                      !.target = a]
  <2>1. PICK a \in archives : req' = [req EXCEPT ![r] = Start(a)]
    BY <1>2 DEF UndoStart
  <2> DEFINE x == Start(a)
  <2>2. req' = [req EXCEPT ![r] = x]
    BY <2>1
  <2>3. a \in Archive /\ a.at \in 0 .. MaxAt /\ a.cards \in Boards
    BY DEF IInv, TypeOK, Archive
  <2>4. x \in Request
    BY <2>3, IdleTyped DEF Request, Stages
  <2>5. /\ x.stage = "undo" /\ x.seen = a.cards /\ x.target = a
        /\ UNCHANGED <<board, archives, sprint, stale>>
    BY <1>2 DEF UndoStart, Idle
  <2> HIDE DEF x
  <2> QED
    BY <2>2, <2>3, <2>4, <2>5, RequestMoves
<1> QED
  BY <1>1, <1>2

(* The requests that take a lock, and those that end without an effect.     *)
LEMMA LocksKeep ==
  ASSUME IInv, NEW r \in Requests, ArchiveAdvance(r) \/ UndoDelete(r) \/ Fail(r)
  PROVE  IInv'
<1>1. /\ req[r] \in Request /\ sprint \in Nat /\ req \in [Requests -> Request]
      /\ UNCHANGED <<board, archives, sprint, stale>>
  BY DEF IInv, TypeOK, ArchiveAdvance, UndoDelete, Fail
<1>2. CASE ArchiveAdvance(r)
  <2> DEFINE x == [req[r] EXCEPT !.stage = "archive_locked", !.number = sprint]
  <2>1. req' = [req EXCEPT ![r] = x]
    BY <1>1, <1>2 DEF ArchiveAdvance
  <2>2. /\ x \in Request /\ x.stage = "archive_locked" /\ x.number = sprint
        /\ x.at = req[r].at /\ x.seen = req[r].seen
    BY <1>1 DEF Request, Stages
  <2>3. Reading(r) /\ ~SprintLocked /\ req[r].stage = "archive"
    BY <1>2 DEF ArchiveAdvance, Reading
  <2>4. \A o \in Requests : ~Locked(o)
    BY <2>3 DEF SprintLocked, Locked
  <2> HIDE DEF x
  <2> QED
    BY <1>1, <2>1, <2>2, <2>3, <2>4, RequestMoves
<1>3. CASE UndoDelete(r)
  <2> DEFINE x == [req[r] EXCEPT !.stage = "undo_deleted"]
  <2>1. req' = [req EXCEPT ![r] = x]
    BY <1>1, <1>3 DEF UndoDelete
  <2>2. /\ x \in Request /\ x.stage = "undo_deleted" /\ x.target = req[r].target
        /\ x.seen = req[r].seen
    BY <1>1 DEF Request, Stages
  <2>3. Undoing(r)
    BY <1>3 DEF UndoDelete, Undoing
  <2>4. x.target \in Archive /\ x.seen = x.target.cards
    BY <2>2, <2>3 DEF IInv, UndosHold
  <2> HIDE DEF x
  <2> QED
    BY <1>1, <2>1, <2>2, <2>4, RequestMoves
<1>4. CASE Fail(r)
  <2>1. req' = [req EXCEPT ![r] = Idle] /\ Idle \in Request /\ Idle.stage = "idle"
    BY <1>4, IdleTyped DEF Fail, Respond, Idle
  <2> QED
    BY <1>1, <2>1, RequestMoves
<1> QED
  BY <1>2, <1>3, <1>4

(* A request that ends leaves the others.                                   *)
LEMMA RespondLeaves ==
  ASSUME TypeOK, NEW r \in Requests, Respond(r)
  PROVE  /\ req' \in [Requests -> Request]
         /\ req'[r].stage = "idle"
         /\ \A o \in Requests \ {r} : req'[o] = req[o]
BY IdleTyped DEF TypeOK, Respond, Idle

(* How many archives of S are before the instant t.                         *)
Below(S, t) == Cardinality({b \in S : b.at < t})

(* Archives that are not before an instant do not count before it.          *)
LEMMA BelowTheRest ==
  ASSUME NEW S, NEW T, NEW t, \A b \in S \ T : ~(b.at < t), \A b \in T \ S : ~(b.at < t)
  PROVE  Below(S, t) = Below(T, t)
<1>1. {b \in S : b.at < t} = {b \in T : b.at < t}
  OBVIOUS
<1> QED
  BY <1>1 DEF Below

(* All the others are before the last one.                                  *)
LEMMA BelowAll ==
  ASSUME NEW S, NEW T, NEW t, \A b \in T : b \in S <=> b.at < t, S \subseteq T
  PROVE  Below(T, t) = Cardinality(S)
<1>1. {b \in T : b.at < t} = S
  OBVIOUS
<1> QED
  BY <1>1 DEF Below

(* An archive that found on the board what it had read is the last one: a   *)
(* later one would have taken a card it has read.                           *)
LEMMA CommitIsLast ==
  ASSUME IInv, NEW r \in Requests, Reading(r), ~stale, req[r].seen = board
  PROVE  \A a \in archives : a.at < req[r].at
<1>1. PICK n \in Notes : req[r].seen[n] > 0
  BY DEF IInv, ReadingsHold
<1>2. \A a \in archives : ~(a.at > req[r].at)
  BY <1>1 DEF IInv, SeenIsGone
<1>3. \A a \in archives : a.at # req[r].at /\ a.at \in Int /\ req[r].at \in Int
  BY DEF IInv, InstantsHold, TypeOK, Archive, Request
<1> QED
  BY <1>2, <1>3

(* An archive clears the board and comes last, if it had read that board.   *)
LEMMA ArchiveKeeps ==
  ASSUME IInv, NEW r \in Requests, ArchiveCommit(r)
  PROVE  IInv'
<1> DEFINE x == [at |-> req[r].at, sprint |-> req[r].number, cards |-> req[r].seen]
<1> USE DEF IInv
<1>1. /\ archives' = archives \cup {x} /\ board' = EmptyBoard /\ sprint' = req[r].number + 1
      /\ Respond(r)
  BY DEF ArchiveCommit
<1>2. Reading(r) /\ Locked(r) /\ req[r].number = sprint
  BY DEF ArchiveCommit, Reading, Locked, ReadingsHold
<1>3. /\ req[r].at \in 1 .. MaxAt /\ req[r].number \in Nat /\ req[r].seen \in Boards
  BY <1>2 DEF InstantsHold, TypeOK, Request
<1>4. x \in Archive /\ x.at = req[r].at /\ x.sprint = sprint /\ x.cards = req[r].seen
  BY <1>2, <1>3 DEF Archive
<1> HIDE DEF x
<1>5. /\ req' \in [Requests -> Request] /\ req'[r].stage = "idle"
      /\ \A o \in Requests \ {r} : req'[o] = req[o]
  BY <1>1, RespondLeaves
<1>6. \A o \in Requests : req'[o].stage # "idle" => /\ o # r /\ req'[o] = req[o]
                                                  /\ ~Locked(o)
  BY <1>2, <1>5 DEF ReadingsHold, Locked, Reading
<1>7. \A n \in Notes : board'[n] = 0
  BY <1>1 DEF EmptyBoard
<1>8. \A a \in archives : a.at # x.at /\ a.at \in Int /\ x.at \in Int
  BY <1>2, <1>3, <1>4 DEF InstantsHold, TypeOK, Archive
<1>9. stale' \in BOOLEAN /\ (~stale' => ~stale /\ req[r].seen = board)
  BY DEF ArchiveCommit
<1>10. TypeOK'
  <2>1. board' \in Boards
    BY <1>1 DEF Boards, EmptyBoard
  <2>2. archives' \subseteq Archive
    BY <1>1, <1>4 DEF TypeOK
  <2>3. sprint' \in Nat \ {0}
    BY <1>1, <1>3
  <2> QED
    BY <1>5, <1>9, <2>1, <2>2, <2>3 DEF TypeOK
<1>11. InstantsHold'
  <2>1. IsFiniteSet(archives')
    BY <1>1, FS_AddElement DEF InstantsHold
  <2>2. \A a, b \in archives' : a.at = b.at => a = b
    BY <1>1, <1>8 DEF InstantsHold
  <2>3. \A o \in Requests \ {r} : Reading(o) => req[o].at # x.at
    BY <1>2, <1>4 DEF InstantsHold
  <2>4. ASSUME NEW o \in Requests, Reading(o)'
        PROVE  /\ req'[o].at # 0
               /\ \A a \in archives' : a.at # req'[o].at
               /\ \A p \in Requests \ {o} : Reading(p)' => req'[p].at # req'[o].at
    BY <1>1, <1>6, <2>3, <2>4 DEF InstantsHold, Reading
  <2> QED
    BY <2>1, <2>2, <2>4 DEF InstantsHold
<1>12. ReadingsHold' /\ UndosHold'
  BY <1>6 DEF ReadingsHold, UndosHold, Reading, Undoing, Locked
<1>13. ASSUME ~stale' PROVE SeenIsGone'
  <2> SUFFICES ASSUME NEW o \in Requests, NEW n \in Notes, Reading(o)', req'[o].seen[n] > 0,
                      NEW a \in archives', NEW b \in archives', req'[o].at < a.at, a.at < b.at
               PROVE  b.cards[n] = 0
    BY <1>7 DEF SeenIsGone
  <2>1. /\ SeenIsGone /\ Reading(o) /\ req[o].seen[n] > 0 /\ req[o].at < a.at
        /\ req[r].seen = board
    BY <1>6, <1>9, <1>13 DEF Reading
  <2>2. \A c \in archives : c.at < x.at
    BY <1>2, <1>4, <1>9, <1>13, CommitIsLast
  <2>3. a # x
    BY <1>1, <1>3, <1>4, <1>8, <2>2
  <2>4. CASE b = x
    BY <1>1, <1>4, <2>1, <2>3, <2>4 DEF SeenIsGone
  <2>5. CASE b \in archives
    BY <1>1, <2>1, <2>3, <2>5 DEF SeenIsGone
  <2> QED
    BY <1>1, <2>4, <2>5
<1>14. NotesAreNotCopied'
  <2> SUFFICES ASSUME ~stale', NEW n \in Notes, NEW a \in archives', a.cards[n] > 0
               PROVE  /\ a.cards[n] = 1
                      /\ \A b \in archives' \ {a} : b.cards[n] = 0
    BY <1>7 DEF NotesAreNotCopied
  <2>1. /\ x.cards = board /\ board[n] \in Nat /\ \A b \in archives : b.cards[n] \in Nat
    BY <1>4, <1>9 DEF TypeOK, Boards, Archive
  <2>2. /\ board[n] <= 1
        /\ \A c \in archives : c.cards[n] > 0
              => /\ board[n] = 0 /\ c.cards[n] = 1
                 /\ \A b \in archives \ {c} : b.cards[n] = 0
    BY <1>9 DEF NotesAreNotCopied
  <2>3. CASE a \in archives
    BY <1>1, <2>1, <2>2, <2>3
  <2>4. CASE a = x
    BY <1>1, <2>1, <2>2, <2>4
  <2> QED
    BY <1>1, <2>3, <2>4
<1>15. ArchivesAreNumbered'
  <2> SUFFICES ASSUME ~stale'
               PROVE  /\ sprint' = First + Cardinality(archives')
                      /\ \A a \in archives' : a.sprint = First + Below(archives', a.at)
    BY DEF ArchivesAreNumbered, Below
  <2>1. /\ sprint = First + Cardinality(archives)
        /\ \A a \in archives : a.sprint = First + Below(archives, a.at)
    BY <1>9 DEF ArchivesAreNumbered, Below
  <2>2. \A c \in archives : c.at < x.at
    BY <1>2, <1>4, <1>9, CommitIsLast
  <2>3. x \notin archives
    BY <1>8
  <2>4. Cardinality(archives') = Cardinality(archives) + 1 /\ Cardinality(archives) \in Nat
    BY <1>1, <2>3, FS_AddElement, FS_CardinalityType DEF InstantsHold
  <2>5. sprint' = First + Cardinality(archives')
    BY <1>1, <1>2, <2>1, <2>4
  <2>6. ASSUME NEW a \in archives PROVE a.sprint = First + Below(archives', a.at)
    <3>1. \A b \in archives' \ archives : ~(b.at < a.at)
      BY <1>1, <1>8, <2>2
    <3>2. Below(archives, a.at) = Below(archives', a.at)
      BY <1>1, <3>1, BelowTheRest
    <3> QED
      BY <2>1, <3>2
  <2>7. x.sprint = First + Below(archives', x.at)
    <3>0. ~(x.at < x.at)
      BY <1>3, <1>4
    <3>1. \A b \in archives' : b \in archives <=> b.at < x.at
      BY <1>1, <2>2, <2>3, <3>0
    <3>2. Below(archives', x.at) = Cardinality(archives)
      BY <1>1, <3>1, BelowAll
    <3> QED
      BY <1>4, <2>1, <3>2
  <2> QED
    BY <1>1, <2>5, <2>6, <2>7
<1> QED
  BY <1>10, <1>11, <1>12, <1>13, <1>14, <1>15

(* The number after an undo.                                                *)
LEMMA RewoundIs ==
  ASSUME sprint \in Nat \ {0}
  PROVE  Rewound \in Nat \ {0} /\ (sprint > 1 => Rewound = sprint - 1)
<1> DEFINE S == {1, sprint - 1}
           last == Max(S)
<1>1. S \in SUBSET Nat /\ S # {} /\ sprint \in Nat /\ \A k \in S : k <= sprint
  OBVIOUS
<1>2. last \in S /\ \A k \in S : k <= last
  <2> HIDE DEF S
  <2> QED
    BY <1>1, LastExists
<1>3. Rewound = last
  BY DEF Rewound
<1> HIDE DEF last
<1> QED
  BY <1>2, <1>3

(* An undo takes the last archive away, if it still is the last one.        *)
LEMMA UndoKeeps ==
  ASSUME IInv, NEW r \in Requests, UndoCommit(r)
  PROVE  IInv'
<1> DEFINE t == req[r].target
<1> USE DEF IInv
<1>1. /\ board' = Restored(req[r].seen) /\ board' \in Boards /\ archives' = archives \ {t}
      /\ sprint' = Rewound /\ Respond(r) /\ ~SprintLocked
  BY DEF UndoCommit
<1>2. t \in Archive /\ req[r].seen = t.cards
  BY DEF UndoCommit, Undoing, UndosHold
<1> HIDE DEF t
<1>3. /\ req' \in [Requests -> Request] /\ req'[r].stage = "idle"
      /\ \A o \in Requests \ {r} : req'[o] = req[o]
  BY <1>1, RespondLeaves
<1>4. \A o \in Requests : ~Locked(o) /\ (req'[o].stage # "idle" => req'[o] = req[o])
  BY <1>1, <1>3 DEF SprintLocked, Locked
<1>5. /\ \A n \in Notes : board'[n] = board[n] + t.cards[n]
      /\ \A n \in Notes : board[n] \in Nat /\ t.cards[n] \in Nat
      /\ \A n \in Notes, a \in archives : a.cards[n] \in Nat
  BY <1>1, <1>2 DEF Restored, TypeOK, Boards, Archive
<1>6. stale' \in BOOLEAN /\ (~stale' => ~stale /\ IsLast(t))
  BY DEF UndoCommit, t
<1>7. /\ sprint \in Nat \ {0} /\ sprint' \in Nat \ {0}
      /\ sprint > 1 => sprint' = sprint - 1
  BY <1>1, RewoundIs DEF TypeOK
<1>8. TypeOK'
  BY <1>1, <1>3, <1>6, <1>7 DEF TypeOK
<1>9. InstantsHold'
  <2>1. IsFiniteSet(archives')
    BY <1>1, FS_RemoveElement DEF InstantsHold
  <2> QED
    BY <1>1, <1>4, <2>1 DEF InstantsHold, Reading
<1>10. ReadingsHold' /\ UndosHold'
  BY <1>4 DEF ReadingsHold, UndosHold, Reading, Undoing, Locked
<1>11. ASSUME ~stale'
       PROVE  /\ t \in archives
              /\ \A a \in archives' : a \in archives /\ a # t /\ a.at < t.at
  <2>1. \A a \in archives : a.at <= t.at /\ t \in archives
    BY <1>6, <1>11 DEF IsLast
  <2>2. t \in archives
    BY <1>6, <1>11 DEF IsLast
  <2>3. \A a \in archives : a.at \in Int /\ (a.at = t.at => a = t)
    BY <2>2 DEF InstantsHold, TypeOK, Archive
  <2> QED
    BY <1>1, <2>1, <2>2, <2>3
<1>12. ASSUME ~stale' PROVE SeenIsGone'
  <2> SUFFICES ASSUME NEW o \in Requests, NEW n \in Notes, Reading(o)', req'[o].seen[n] > 0
               PROVE  /\ \A a \in archives' : a.at > req'[o].at => board'[n] = 0
                      /\ \A a, b \in archives' :
                            req'[o].at < a.at /\ a.at < b.at => b.cards[n] = 0
    BY DEF SeenIsGone
  <2>1. /\ SeenIsGone /\ Reading(o) /\ req'[o] = req[o]
    BY <1>4, <1>6, <1>12 DEF Reading
  <2>2. ASSUME NEW a \in archives', a.at > req'[o].at PROVE board'[n] = 0
    <3>1. a \in archives /\ a.at < t.at /\ t \in archives
      BY <1>11, <1>12
    <3>2. board[n] = 0 /\ t.cards[n] = 0
      <4>1. a.at \in Int /\ req[o].at \in Int
        BY <3>1 DEF TypeOK, Archive, Request
      <4> QED
        BY <2>1, <2>2, <3>1, <4>1 DEF SeenIsGone
    <3> QED
      BY <1>5, <3>2
  <2>3. \A a, b \in archives' : req'[o].at < a.at /\ a.at < b.at => b.cards[n] = 0
    BY <1>1, <2>1 DEF SeenIsGone
  <2> QED
    BY <2>2, <2>3
<1>13. NotesAreNotCopied'
  <2> SUFFICES ASSUME ~stale', NEW n \in Notes
               PROVE  /\ board'[n] <= 1
                      /\ \A a \in archives' : a.cards[n] > 0
                            => /\ board'[n] = 0 /\ a.cards[n] = 1
                               /\ \A b \in archives' \ {a} : b.cards[n] = 0
    BY DEF NotesAreNotCopied
  <2>1. /\ board[n] <= 1
        /\ \A c \in archives : c.cards[n] > 0
              => /\ board[n] = 0 /\ c.cards[n] = 1
                 /\ \A b \in archives \ {c} : b.cards[n] = 0
    BY <1>6 DEF NotesAreNotCopied
  <2>2. CASE t.cards[n] > 0
    <3>1. board[n] = 0 /\ t.cards[n] = 1 /\ \A b \in archives' : b.cards[n] = 0
      BY <1>11, <2>1, <2>2
    <3> QED
      BY <1>5, <3>1
  <2>3. CASE t.cards[n] = 0
    BY <1>1, <1>5, <2>1, <2>3
  <2> QED
    BY <1>5, <2>2, <2>3
<1>14. ArchivesAreNumbered'
  <2> SUFFICES ASSUME ~stale'
               PROVE  /\ sprint' = First + Cardinality(archives')
                      /\ \A a \in archives' : a.sprint = First + Below(archives', a.at)
    BY DEF ArchivesAreNumbered, Below
  <2>1. /\ sprint = First + Cardinality(archives)
        /\ \A a \in archives : a.sprint = First + Below(archives, a.at)
    BY <1>6 DEF ArchivesAreNumbered, Below
  <2>2. /\ Cardinality(archives') = Cardinality(archives) - 1
        /\ Cardinality(archives) \in Nat /\ Cardinality(archives') \in Nat
    <3>1. IsFiniteSet(archives) /\ t \in archives
      BY <1>11 DEF InstantsHold
    <3> QED
      BY <1>1, <3>1, FS_RemoveElement, FS_CardinalityType
  <2>3. sprint' = First + Cardinality(archives')
    BY <1>7, <2>1, <2>2
  <2>4. ASSUME NEW a \in archives' PROVE a.sprint = First + Below(archives', a.at)
    <3>1. a \in archives /\ a.at < t.at /\ ~(t.at < a.at)
      <4>1. a \in archives /\ a.at < t.at
        BY <1>11
      <4>2. a.at \in Int /\ t.at \in Int
        BY <1>2, <4>1 DEF TypeOK, Archive
      <4> QED
        BY <4>1, <4>2
    <3>2. Below(archives, a.at) = Below(archives', a.at)
      BY <1>1, <3>1, BelowTheRest
    <3> QED
      BY <2>1, <3>1, <3>2
  <2> QED
    BY <2>3, <2>4
<1> QED
  BY <1>8, <1>9, <1>10, <1>12, <1>13, <1>14

(* The invariant is kept.                                                   *)
LEMMA NextIInv == IInv /\ [Next]_vars => IInv'
<1> SUFFICES ASSUME IInv, [Next]_vars PROVE IInv'
  OBVIOUS
<1>1. ASSUME NEW n \in Notes, CreateCard(n) \/ DeleteCard(n) PROVE IInv'
  BY <1>1, CardsMove
<1>2. ASSUME NEW r \in Requests, ArchiveStart(r) \/ UndoStart(r) PROVE IInv'
  BY <1>2, StartsKeep
<1>3. ASSUME NEW r \in Requests, ArchiveAdvance(r) \/ UndoDelete(r) \/ Fail(r) PROVE IInv'
  BY <1>3, LocksKeep
<1>4. ASSUME NEW r \in Requests, ArchiveCommit(r) PROVE IInv'
  BY <1>4, ArchiveKeeps
<1>5. ASSUME NEW r \in Requests, UndoCommit(r) PROVE IInv'
  BY <1>5, UndoKeeps
<1>6. CASE UNCHANGED vars
  BY <1>6 DEF vars, IInv, TypeOK, InstantsHold, ReadingsHold, UndosHold, SeenIsGone, Reading,
              Locked, Undoing, NotesAreNotCopied, ArchivesAreNumbered
<1> QED
  BY <1>1, <1>2, <1>3, <1>4, <1>5, <1>6 DEF Next, Serve, TooManyCopies

(* The invariant holds in every state.                                      *)
LEMMA Invariance == Spec => []IInv
BY InitIInv, NextIInv, PTL DEF Spec

------------------------------------------------------------------------------
(* Theorems.                                                                *)

(* Types: boards, archives and requests keep their shape, and the number of *)
(* the sprint stays positive however often boards are undone (rewind).      *)
THEOREM TypeCorrect == Spec => []TypeOK
<1>1. IInv => TypeOK
  BY DEF IInv
<1> QED
  BY <1>1, Invariance, PTL

(* However many archives and undos overlap (POST /retro/archive and its     *)
(* undo), a note is in one place as long as each found what it had read.    *)
THEOREM NotCopied == Spec => []NotesAreNotCopied
<1>1. IInv => NotesAreNotCopied
  BY DEF IInv
<1> QED
  BY <1>1, Invariance, PTL

(* Under the same condition the archives carry the numbers of the sprints   *)
(* without gaps, in the order of archived_at (sprint::advance and rewind).  *)
THEOREM Numbered == Spec => []ArchivesAreNumbered
<1>1. IInv => ArchivesAreNumbered
  BY DEF IInv
<1> QED
  BY <1>1, Invariance, PTL

(* What makes a note disappear in one step.                                 *)
Vanishes(n) == Somewhere(n) /\ ~Somewhere(n)'

Cleared(n) == \E r \in Requests : /\ req[r].stage = "archive_locked"
                                 /\ req'[r] = Idle
                                 /\ board[n] > 0 /\ req[r].seen[n] = 0

(* The two ways to lose a note.                                             *)
LEMMA StepVanishes ==
  ASSUME IInv, [Next]_vars, NEW n \in Notes, Vanishes(n)
  PROVE  DeleteCard(n) \/ Cleared(n)
<1>1. /\ board \in [Notes -> Nat] /\ req \in [Requests -> Request]
      /\ \A a \in archives : a.cards[n] \in Nat
  BY DEF IInv, TypeOK, Boards, Archive
<1>2. /\ board[n] > 0 \/ \E a \in archives : a.cards[n] > 0
      /\ ~(board'[n] > 0) /\ \A a \in archives' : ~(a.cards[n] > 0)
  BY DEF Vanishes, Somewhere
<1>3. ASSUME NEW m \in Notes, CreateCard(m) \/ DeleteCard(m) PROVE DeleteCard(n)
  <2>1. UNCHANGED archives /\ board[n] > 0
    BY <1>2, <1>3 DEF CreateCard, DeleteCard
  <2>2. CASE m = n
    BY <1>1, <1>2, <1>3, <2>1, <2>2 DEF CreateCard, Nowhere
  <2>3. CASE m # n
    BY <1>1, <1>2, <1>3, <2>1, <2>3 DEF CreateCard, DeleteCard
  <2> QED
    BY <2>2, <2>3
<1>4. ASSUME NEW r \in Requests, ArchiveCommit(r) PROVE Cleared(n)
  <2> DEFINE x == [at |-> req[r].at, sprint |-> req[r].number, cards |-> req[r].seen]
  <2>1. /\ archives' = archives \cup {x} /\ req[r].stage = "archive_locked"
        /\ x.cards = req[r].seen /\ req' = [req EXCEPT ![r] = Idle]
    BY <1>4 DEF ArchiveCommit, Respond
  <2> HIDE DEF x
  <2>2. req'[r] = Idle /\ req[r].seen[n] \in Nat
    BY <1>1, <2>1 DEF Request, Boards
  <2>3. board[n] > 0 /\ ~(req[r].seen[n] > 0)
    BY <1>2, <2>1
  <2> QED
    BY <2>1, <2>2, <2>3 DEF Cleared
<1>5. ASSUME NEW r \in Requests, UndoCommit(r) PROVE FALSE
  <2>1. /\ board' = Restored(req[r].seen) /\ archives' = archives \ {req[r].target}
        /\ req[r].target \in Archive /\ req[r].seen = req[r].target.cards
    BY <1>5 DEF UndoCommit, IInv, UndosHold, Undoing
  <2>2. /\ board'[n] = board[n] + req[r].target.cards[n] /\ req[r].target.cards[n] \in Nat
        /\ board[n] \in Nat
    BY <1>1, <2>1 DEF Restored, Archive, Boards
  <2>3. ~(board[n] > 0) /\ ~(req[r].target.cards[n] > 0)
    BY <1>2, <2>2
  <2> QED
    BY <1>2, <2>1, <2>3
<1>6. ASSUME UNCHANGED <<board, archives>> PROVE FALSE
  BY <1>2, <1>6
<1> QED
  BY <1>3, <1>4, <1>5, <1>6 DEF Next, Serve, TooManyCopies, ArchiveStart, UndoStart,
     ArchiveAdvance, UndoDelete, Fail, vars

(* No step loses a note but the deletion of its card and an archive that    *)
(* clears cards it has not read (DELETE FROM retro_cards), for any overlap. *)
THEOREM DoNotVanish == Spec => NotesDoNotVanish
<1> DEFINE Safe == \A n \in Notes :
                      Somewhere(n) /\ ~Somewhere(n)'
                      => \/ DeleteCard(n)
                         \/ \E r \in Requests : /\ req[r].stage = "archive_locked"
                                                /\ req'[r] = Idle
                                                /\ board[n] > 0 /\ req[r].seen[n] = 0
<1>1. IInv /\ [Next]_vars => [Safe]_vars
  BY StepVanishes DEF Vanishes, Cleared
<1> QED
  BY <1>1, Invariance, PTL DEF Spec, NotesDoNotVanish

------------------------------------------------------------------------------
(* Locks.  An archive takes the row of the sprint, an undo first the row of *)
(* its archive and then that of the sprint, and who has the sprint waits    *)
(* for nobody, so that they never wait in a circle.                         *)

WaitsFor(r, o) ==
    /\ o # r
    /\ \/ req[r].stage \in {"archive", "undo_deleted"} /\ req[o].stage = "archive_locked"
       \/ /\ req[r].stage = "undo" /\ req[o].stage = "undo_deleted"
          /\ req[o].target = req[r].target

SomebodyGoesOn ==
    (\E r \in Requests : req[r].stage # "idle")
        => \E r \in Requests : /\ req[r].stage # "idle"
                              /\ ~\E o \in Requests : WaitsFor(r, o)

(* Among archives and undos in flight, however many, one waits for nobody.  *)
THEOREM NothingHalts == Spec => []SomebodyGoesOn
<1>1. ASSUME TypeOK
      PROVE  SomebodyGoesOn
  <2> SUFFICES ASSUME NEW r \in Requests, req[r].stage # "idle"
               PROVE  \E o \in Requests : /\ req[o].stage # "idle"
                                         /\ ~\E q \in Requests : WaitsFor(o, q)
    BY DEF SomebodyGoesOn
  <2>1. \A o \in Requests : req[o].stage \in Stages
    BY <1>1 DEF TypeOK, Request
  <2>2. CASE \E o \in Requests : req[o].stage = "archive_locked"
    BY <2>2 DEF WaitsFor
  <2>3. CASE ~\E o \in Requests : req[o].stage = "archive_locked"
    <3>1. CASE \E o \in Requests : req[o].stage \in {"archive", "undo_deleted"}
      BY <2>3, <3>1 DEF WaitsFor
    <3>2. CASE ~\E o \in Requests : req[o].stage \in {"archive", "undo_deleted"}
      BY <2>1, <2>3, <3>2 DEF WaitsFor, Stages
    <3> QED
      BY <3>1, <3>2
  <2> QED
    BY <2>2, <2>3
<1> QED
  BY <1>1, TypeCorrect, PTL

------------------------------------------------------------------------------
(* Refinement.                                                              *)

(* Without a stale commit the numbers of the archives are those before the  *)
(* current one, in the order of archived_at (ArchivesAreNumbered without    *)
(* counting).                                                               *)
Numbers ==
    /\ sprint >= First
    /\ \A a \in archives : a.sprint \in First .. sprint - 1
    /\ \A k \in First .. sprint - 1 : \E a \in archives : a.sprint = k
    /\ \A a, b \in archives : a.at < b.at => a.sprint < b.sprint

BoardInv == IInv /\ (~stale => Numbers)

(* An archive is the only one with its number, and the past has its cards.  *)
LEMMA PastOf ==
  ASSUME IInv, Numbers, NEW a \in archives
  PROVE  /\ a.sprint \in First .. sprint - 1
         /\ \A b \in archives : b.sprint = a.sprint => b = a
         /\ Past[a.sprint] = a.cards
<1>1. \A b \in archives : b.at \in Int /\ b.sprint \in Int
  BY DEF IInv, TypeOK, Archive
<1>2. \A b \in archives : b.sprint = a.sprint => b = a
  BY <1>1 DEF Numbers, IInv, InstantsHold
<1>3. WithNumber(archives, a.sprint) = a
  BY <1>2 DEF WithNumber
<1> QED
  BY <1>2, <1>3 DEF Numbers, Past

(* Cards come and go on the board of the team as well.                      *)
LEMMA CardsRefine ==
  ASSUME BoardInv, NEW n \in Notes, CreateCard(n) \/ DeleteCard(n), ~stale
  PROVE  (~stale' => Numbers') /\ (Team!Create(n) \/ Team!Delete(n)) /\ UNCHANGED stale
<1>1. IInv /\ Numbers /\ UNCHANGED <<archives, sprint, stale>>
  BY DEF BoardInv, CreateCard, DeleteCard
<1>2. Numbers' /\ Past' = Past
  BY <1>1 DEF Numbers, Past
<1>3. CASE CreateCard(n)
  <2>1. ASSUME NEW k \in First .. sprint - 1 PROVE Past[k][n] = 0
    <3>1. PICK a \in archives : a.sprint = k
      BY <1>1 DEF Numbers
    <3> QED
      BY <1>1, <1>3, <3>1, PastOf DEF CreateCard, Nowhere
  <2> QED
    BY <1>1, <1>2, <1>3, <2>1 DEF CreateCard, Nowhere, Team!Create, Team!Sprints
<1>4. CASE DeleteCard(n)
  BY <1>1, <1>2, <1>4 DEF DeleteCard, Team!Delete
<1> QED
  BY <1>1, <1>2, <1>3, <1>4

(* The commit of an archive that is not stale ends the sprint.              *)
LEMMA ArchiveRefines ==
  ASSUME BoardInv, NEW r \in Requests, ArchiveCommit(r), ~stale'
  PROVE  Numbers' /\ Team!EndSprint /\ UNCHANGED stale
<1> DEFINE x == [at |-> req[r].at, sprint |-> req[r].number, cards |-> req[r].seen]
<1>1. /\ archives' = archives \cup {x} /\ board' = EmptyBoard
      /\ sprint' = req[r].number + 1
      /\ ~stale /\ req[r].seen = board /\ IInv /\ Numbers
      /\ UNCHANGED stale
  BY DEF ArchiveCommit, BoardInv, IInv, TypeOK
<1>2. Reading(r) /\ req[r].number = sprint /\ \E n \in Notes : board[n] > 0
  BY <1>1 DEF ArchiveCommit, Reading, Locked, IInv, ReadingsHold
<1>3. x.at = req[r].at /\ x.sprint = sprint /\ x.cards = board
  BY <1>1, <1>2
<1> HIDE DEF x
<1>4. sprint \in Nat /\ sprint' = sprint + 1
  BY <1>1, <1>2 DEF IInv, TypeOK
<1>5. \A a \in archives : a.at < x.at /\ ~(x.at < a.at)
  <2>1. \A a \in archives : a.at < x.at
    BY <1>1, <1>2, <1>3, CommitIsLast
  <2>2. x.at \in Int /\ \A a \in archives : a.at \in Int
    BY <1>1, <1>3 DEF IInv, TypeOK, Request, Archive
  <2> QED
    BY <2>1, <2>2
<1>6. ~(x.at < x.at)
  BY <1>1, <1>3 DEF IInv, TypeOK, Request
<1>7. Numbers'
  BY <1>1, <1>3, <1>4, <1>5, <1>6 DEF Numbers
<1>8. ASSUME NEW k \in First .. sprint
      PROVE  WithNumber(archives', k).cards
             = IF k = sprint THEN board ELSE Past[k]
  <2>1. CASE k = sprint
    <3>1. \A a \in archives' : a.sprint = k <=> a = x
      BY <1>1, <1>3, <1>4, <2>1 DEF Numbers
    <3>2. x \in archives'
      BY <1>1
    <3>3. WithNumber(archives', k) = x
      BY <3>1, <3>2 DEF WithNumber
    <3> QED
      BY <1>3, <2>1, <3>3
  <2>2. CASE k # sprint
    <3>1. k \in First .. sprint - 1
      BY <1>4, <2>2
    <3>2. PICK b \in archives : b.sprint = k
      BY <1>1, <3>1 DEF Numbers
    <3>3. /\ Past[k] = b.cards
          /\ \A a \in archives : a.sprint = k => a = b
      BY <1>1, <3>2, PastOf
    <3>4. b \in archives' /\ \A a \in archives' : a.sprint = k <=> a = b
      BY <1>1, <1>3, <2>2, <3>2, <3>3
    <3>5. WithNumber(archives', k) = b
      BY <3>4 DEF WithNumber
    <3> QED
      BY <2>2, <3>3, <3>5
  <2> QED
    BY <2>1, <2>2
<1>9. Past' = [k \in First .. sprint |-> IF k = sprint THEN board ELSE Past[k]]
  <2>1. Past' = [k \in First .. sprint' - 1 |->
                   WithNumber(archives', k).cards]
    BY DEF Past
  <2>2. First .. sprint' - 1 = First .. sprint
    BY <1>4
  <2> QED
    BY <1>8, <2>1, <2>2
<1>10. board # EmptyBoard
  BY <1>2 DEF EmptyBoard
<1> QED
  BY <1>1, <1>4, <1>7, <1>9, <1>10 DEF Team!EndSprint, Team!EmptyBoard, EmptyBoard

(* The commit of an undo that is not stale takes the last sprint back.      *)
LEMMA UndoRefines ==
  ASSUME BoardInv, NEW r \in Requests, UndoCommit(r), ~stale'
  PROVE  Numbers' /\ Team!Undo /\ UNCHANGED stale
<1> DEFINE t == req[r].target
<1>1. /\ board' = Restored(req[r].seen) /\ board' \in Boards
      /\ archives' = archives \ {t} /\ sprint' = Rewound
      /\ ~stale /\ IsLast(t) /\ IInv /\ Numbers /\ UNCHANGED stale
  BY DEF UndoCommit, BoardInv, IInv, TypeOK
<1>2. req[r].seen = t.cards
  BY <1>1 DEF UndoCommit, Undoing, IInv, UndosHold
<1> HIDE DEF t
<1>3. t \in archives /\ \A a \in archives' : a.at < t.at
  <2>1. t \in archives /\ \A a \in archives : a.at <= t.at
    BY <1>1 DEF IsLast
  <2>2. \A a \in archives : a.at \in Int /\ (a.at = t.at => a = t)
    BY <1>1, <2>1 DEF IInv, InstantsHold, TypeOK, Archive
  <2> QED
    BY <1>1, <2>1, <2>2
<1>4. /\ t.sprint \in First .. sprint - 1 /\ Past[t.sprint] = t.cards
      /\ \A a \in archives : a.sprint = t.sprint => a = t
  BY <1>1, <1>3, PastOf
<1>5. sprint \in Nat /\ sprint > First /\ sprint - 1 \in First .. sprint - 1
  BY <1>1, <1>4 DEF IInv, TypeOK
<1>6. t.sprint = sprint - 1
  <2>1. PICK b \in archives : b.sprint = sprint - 1
    BY <1>1, <1>5 DEF Numbers
  <2>2. CASE b = t
    BY <2>1, <2>2
  <2>3. CASE b # t
    BY <1>1, <1>3, <1>4, <1>5, <2>1, <2>3 DEF Numbers
  <2> QED
    BY <2>2, <2>3
<1>7. sprint' = sprint - 1
  BY <1>1, <1>5, RewoundIs DEF IInv, TypeOK
<1>8. Numbers'
  <2>1. sprint' >= First
    BY <1>5, <1>7
  <2>2. \A a \in archives' : a.sprint \in First .. sprint' - 1
    <3>1. \A a \in archives' : a \in archives /\ a.sprint < t.sprint
      BY <1>1, <1>3 DEF Numbers
    <3> QED
      BY <1>1, <1>5, <1>6, <1>7, <3>1 DEF Numbers
  <2>3. \A k \in First .. sprint' - 1 : \E a \in archives' : a.sprint = k
    BY <1>1, <1>5, <1>6, <1>7 DEF Numbers
  <2> QED
    BY <1>1, <2>1, <2>2, <2>3 DEF Numbers
<1>9. ASSUME NEW k \in First .. sprint - 2
      PROVE  WithNumber(archives', k).cards = Past[k]
  <2>1. k \in First .. sprint - 1 /\ k # t.sprint
    BY <1>5, <1>6
  <2>2. PICK b \in archives : b.sprint = k
    BY <1>1, <2>1 DEF Numbers
  <2>3. /\ Past[k] = b.cards
        /\ \A a \in archives : a.sprint = k => a = b
    BY <1>1, <2>2, PastOf
  <2>4. b \in archives' /\ \A a \in archives' : a.sprint = k <=> a = b
    BY <1>1, <2>1, <2>2, <2>3
  <2>5. WithNumber(archives', k) = b
    BY <2>4 DEF WithNumber
  <2> QED
    BY <2>3, <2>5
<1>10. Past' = [k \in First .. sprint - 2 |-> Past[k]]
  <2>1. Past' = [k \in First .. sprint' - 1 |->
                   WithNumber(archives', k).cards]
    BY DEF Past
  <2>2. First .. sprint' - 1 = First .. sprint - 2
    BY <1>5, <1>7
  <2> QED
    BY <1>9, <2>1, <2>2
<1>11. board' = [n \in Notes |-> board[n] + Past[sprint - 1][n]]
  BY <1>1, <1>2, <1>4, <1>6 DEF Restored
<1> QED
  BY <1>1, <1>5, <1>7, <1>8, <1>10, <1>11 DEF Team!Undo, Boards

(* Every step is one of the board of the team, or invisible there.          *)
LEMMA StepRefines ==
  ASSUME BoardInv, [Next]_vars
  PROVE  BoardInv' /\ [Team!Next]_(Team!vars)
<1>1. IInv'
  BY NextIInv DEF BoardInv
<1>2. CASE stale'
  BY <1>1, <1>2 DEF BoardInv, Team!Next
<1>3. CASE ~stale' /\ UNCHANGED <<board, archives, sprint, stale>>
  <2>1. Numbers' /\ Past' = Past
    BY <1>3 DEF BoardInv, Numbers, Past
  <2> QED
    BY <1>1, <1>3, <2>1 DEF BoardInv, Team!vars
<1>4. ASSUME NEW n \in Notes, CreateCard(n) \/ DeleteCard(n), ~stale'
      PROVE  Numbers' /\ Team!Next
  BY <1>4, CardsRefine DEF Team!Next, CreateCard, DeleteCard
<1>5. ASSUME NEW r \in Requests, ArchiveCommit(r), ~stale'
      PROVE  Numbers' /\ Team!Next
  BY <1>5, ArchiveRefines DEF Team!Next
<1>6. ASSUME NEW r \in Requests, UndoCommit(r), ~stale'
      PROVE  Numbers' /\ Team!Next
  BY <1>6, UndoRefines DEF Team!Next
<1>7. \/ UNCHANGED <<board, archives, sprint, stale>>
      \/ \E n \in Notes : CreateCard(n) \/ DeleteCard(n)
      \/ \E r \in Requests : ArchiveCommit(r) \/ UndoCommit(r)
  BY DEF Next, Serve, TooManyCopies, ArchiveStart, UndoStart, ArchiveAdvance, UndoDelete,
         Fail, vars
<1> QED
  BY <1>1, <1>2, <1>3, <1>4, <1>5, <1>6, <1>7 DEF BoardInv

(* The first board of the team.                                             *)
LEMMA InitRefines == Init => BoardInv /\ Team!Init
<1> SUFFICES ASSUME Init PROVE BoardInv /\ Team!Init
  OBVIOUS
<1>1. archives = {} /\ sprint = First /\ First .. sprint - 1 = {} /\ stale = FALSE
  BY DEF Init
<1>2. Numbers
  BY <1>1 DEF Numbers
<1>3. Past = [k \in First .. sprint - 1 |-> EmptyBoard]
  BY <1>1 DEF Past
<1> QED
  BY <1>1, <1>2, <1>3, InitIInv DEF BoardInv, Init, EmptyBoard, Team!Init, Team!EmptyBoard,
                                     Team!Sprints

(* Retro implements RetroBoard: until a commit is stale, archive and undo   *)
(* act in one instant each on the boards of the sprints, whatever overlaps. *)
THEOREM Refinement == Spec => ImplementsBoard
<1>1. Init => BoardInv /\ Team!Init
  BY InitRefines
<1>2. BoardInv /\ [Next]_vars => BoardInv' /\ [Team!Next]_(Team!vars)
  BY StepRefines
<1> QED
  BY <1>1, <1>2, PTL DEF Spec, ImplementsBoard, Team!Spec
==============================================================================
