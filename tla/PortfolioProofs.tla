--------------------------- MODULE PortfolioProofs ---------------------------
(***************************************************************************)
(* Theorems of Portfolio, for any sets of users, shares and requests and   *)
(* any mix of request kinds unless the theorem says otherwise.             *)
(*                                                                         *)
(* The state is the committed rows, the net of the ledger and the requests *)
(* in flight.  An action changes one request, so what it leaves alone is   *)
(* most of every invariant; the lemmas below say what a step does to the   *)
(* request that takes it and to the others.                                *)
(***************************************************************************)
EXTENDS PortfolioRefinement, TLAPS

USE PricesAssumption, NoneAssumption, BoundsAssumption

------------------------------------------------------------------------------
(* Type correctness.  Which of the fields of a request are meaningful       *)
(* depends on its stage: a request on a position names a user and a share.  *)

OnPosition == {"post", "put", "put_locked", "delete_read", "delete_row"}

Named ==
    \A r \in Requests :
       /\ req[r].stage \in OnPosition => Pos(r) \in Positions
       /\ req[r].stage = "closing" => req[r].user \in Users

Typed == TypeOK /\ Named

(* The idle request is a request.                                            *)
LEMMA IdleIsRequest == Idle \in Request
BY DEF Idle, ForTasks, Request, Stages, EntryPrices

(* The initial states are well-formed.                                       *)
LEMMA InitTyped == Init => Typed
<1> SUFFICES ASSUME Init PROVE Typed
  OBVIOUS
<1>1. row \in [Positions -> Row]
  BY DEF Init, Row, Quantities, EntryPrices
<1>2. net \in [Positions -> Int]
  BY <1>1 DEF Init, Row
<1>3. req \in [Requests -> Request]
  BY IdleIsRequest DEF Init
<1>4. Named
  BY DEF Init, Named, Idle, ForTasks, OnPosition
<1> QED
  BY <1>1, <1>2, <1>3, <1>4 DEF Init, Typed, TypeOK

(* A request that changes to a well-formed one keeps the requests typed.    *)
LEMMA BecomesTyped ==
  ASSUME Typed, NEW r \in Requests, NEW request \in Request,
         Becomes(r, request),
         request.stage \in OnPosition => <<request.user, request.share>> \in Positions,
         request.stage = "closing" => request.user \in Users
  PROVE  /\ req' \in [Requests -> Request]
         /\ Named'
BY DEF Typed, TypeOK, Named, Becomes, Pos

(* A request that is answered keeps the requests well-formed.                *)
LEMMA RespondTyped ==
  ASSUME Typed, NEW r \in Requests, Respond(r)
  PROVE  /\ req' \in [Requests -> Request]
         /\ Named'
<1>1. /\ Idle.stage \notin OnPosition
      /\ Idle.stage # "closing"
  BY DEF Idle, ForTasks, OnPosition
<1> QED
  BY <1>1, IdleIsRequest, BecomesTyped DEF Respond

(* What the typed state says of one position.                                *)
LEMMA RowTyped ==
  ASSUME Typed, NEW p \in Positions
  PROVE  /\ row[p] \in Row
         /\ row[p].gen \in Nat /\ row[p].qty \in Nat /\ row[p].price \in EntryPrices
         /\ NoRow(p) \in Row
         /\ net[p] \in Int
BY DEF Typed, TypeOK, Row, NoRow, EntryPrices

(* What the typed state says of one request.                                 *)
LEMMA RequestTyped ==
  ASSUME Typed, NEW r \in Requests
  PROVE  /\ req[r] \in Request
         /\ req[r].stage \in OnPosition => /\ Pos(r) \in Positions
                                           /\ req[r].user \in Users
                                           /\ req[r].share \in Shares
         /\ req[r].stage = "closing" => req[r].user \in Users
         /\ req[r].gen \in Nat /\ req[r].qty \in Nat /\ req[r].seen \in Nat
         /\ req[r].price \in EntryPrices
         /\ req[r].todo \subseteq Task
BY DEF Typed, TypeOK, Named, Request, Pos, Positions

(* The two shapes of a request are well-formed.                             *)
LEMMA ForRowTyped ==
  ASSUME NEW stage \in OnPosition, NEW u \in Users, NEW s \in Shares, NEW gen \in Nat,
         NEW qty \in Nat, NEW price \in EntryPrices, NEW seen \in Nat,
         NEW request, request = ForRow(stage, u, s, gen, qty, price, seen)
  PROVE  /\ request \in Request
         /\ request.stage # "closing"
         /\ <<request.user, request.share>> \in Positions
BY DEF ForRow, Request, Stages, OnPosition, Positions

(* The same for a request that works through a set of rows.                  *)
LEMMA ForTasksTyped ==
  ASSUME NEW stage \in Stages \ OnPosition, NEW u \in Users \cup {None},
         NEW todo \in SUBSET Task
  PROVE  /\ ForTasks(stage, u, todo) \in Request
         /\ ForTasks(stage, u, todo).stage = stage
         /\ ForTasks(stage, u, todo).user = u
BY DEF ForTasks, Request, EntryPrices

(* What a balance or a backfill reads are tasks.                             *)
LEMMA TasksTyped ==
  ASSUME Typed, NEW ps \in SUBSET Positions
  PROVE  /\ {TaskFor(p, 0) : p \in ps} \subseteq Task
         /\ {TaskFor(p, row[p].qty - net[p]) : p \in ps} \subseteq Task
BY RowTyped DEF TaskFor, Task

(* The arrival of a request keeps the state well-formed.                     *)
LEMMA ArriveTyped ==
  ASSUME Typed, NEW r \in Requests, Arrive(r)
  PROVE  Typed'
<1>0. UNCHANGED <<active, row, net>>
  BY DEF Arrive, CloseLock, BalanceRead, PostArrive, PutArrive, DeleteRead, BackfillRead
<1> SUFFICES req' \in [Requests -> Request] /\ Named'
  BY <1>0 DEF Typed, TypeOK
<1>1. ASSUME NEW u \in Users, CloseLock(r, u)
      PROVE  req' \in [Requests -> Request] /\ Named'
  <2>1. "closing" \in Stages \ OnPosition /\ {} \in SUBSET Task
    BY DEF Stages, OnPosition
  <2> QED
    BY <1>1, <2>1, ForTasksTyped, BecomesTyped DEF CloseLock
<1>2. ASSUME NEW u \in Users, BalanceRead(r, u)
      PROVE  req' \in [Requests -> Request] /\ Named'
  <2>1. "balance" \in Stages \ OnPosition
    BY DEF Stages, OnPosition
  <2>2. {TaskFor(p, 0) : p \in Unpriced({u} \X Shares)} \in SUBSET Task
    BY TasksTyped DEF Unpriced, Positions
  <2> QED
    BY <1>2, <2>1, <2>2, ForTasksTyped, BecomesTyped DEF BalanceRead
<1>3. ASSUME NEW u \in Users, NEW s \in Shares, NEW q \in Quantities,
             NEW price \in Prices, PostArrive(r, u, s, q, price)
      PROVE  req' \in [Requests -> Request] /\ Named'
  <2> DEFINE new == ForRow("post", u, s, 0, q, price, 0)
  <2>1. /\ "post" \in OnPosition /\ 0 \in Nat /\ q \in Nat /\ price \in EntryPrices
        /\ <<u, s>> \in Positions
    BY DEF OnPosition, Quantities, EntryPrices, Positions
  <2>3. /\ new \in Request
        /\ new.stage # "closing"
        /\ <<new.user, new.share>> \in Positions
    BY <2>1, ForRowTyped
  <2>4. Becomes(r, new)
    BY <1>3 DEF PostArrive
  <2> QED
    BY <2>3, <2>4, BecomesTyped
<1>4. ASSUME NEW u \in Users, NEW s \in Shares, NEW q \in Quantities,
             NEW price \in EntryPrices, NEW gen \in 1 .. row[<<u, s>>].gen,
             PutArrive(r, u, s, gen, q, price)
      PROVE  req' \in [Requests -> Request] /\ Named'
  <2> DEFINE new == ForRow("put", u, s, gen, q, price, 0)
  <2>1. /\ "put" \in OnPosition /\ 0 \in Nat /\ q \in Nat
        /\ <<u, s>> \in Positions
    BY DEF OnPosition, Quantities, Positions
  <2>2. gen \in Nat
    BY <2>1, RowTyped
  <2>3. /\ new \in Request
        /\ new.stage # "closing"
        /\ <<new.user, new.share>> \in Positions
    BY <2>1, <2>2, ForRowTyped
  <2>4. Becomes(r, new)
    BY <1>4 DEF PutArrive
  <2> QED
    BY <2>3, <2>4, BecomesTyped
<1>5. ASSUME NEW u \in Users, NEW s \in Shares, NEW gen \in 1 .. row[<<u, s>>].gen,
             DeleteRead(r, u, s, gen)
      PROVE  req' \in [Requests -> Request] /\ Named'
  <2> DEFINE new == ForRow("delete_read", u, s, gen, 0, NoPrice, row[<<u, s>>].qty)
  <2>1. /\ "delete_read" \in OnPosition /\ 0 \in Nat /\ NoPrice \in EntryPrices
        /\ <<u, s>> \in Positions
    BY DEF OnPosition, EntryPrices, Positions
  <2>2. gen \in Nat /\ row[<<u, s>>].qty \in Nat
    BY <2>1, RowTyped
  <2>3. /\ new \in Request
        /\ new.stage # "closing"
        /\ <<new.user, new.share>> \in Positions
    BY <2>1, <2>2, ForRowTyped
  <2>4. Becomes(r, new)
    BY <1>5 DEF DeleteRead
  <2> QED
    BY <2>3, <2>4, BecomesTyped
<1>6. ASSUME BackfillRead(r)
      PROVE  req' \in [Requests -> Request] /\ Named'
  <2>1. "backfill_prices" \in Stages \ OnPosition /\ None \in Users \cup {None}
    BY DEF Stages, OnPosition
  <2>2. {TaskFor(p, 0) : p \in Unpriced(Positions)} \in SUBSET Task
    BY TasksTyped DEF Unpriced
  <2> QED
    BY <1>6, <2>1, <2>2, ForTasksTyped, BecomesTyped DEF BackfillRead, OnPosition
<1> QED
  BY <1>1, <1>2, <1>3, <1>4, <1>5, <1>6 DEF Arrive

(* A task that has been treated leaves a well-formed request.                *)
LEMMA DropTyped ==
  ASSUME Typed, NEW r \in Requests, NEW t \in req[r].todo, Drop(r, t)
  PROVE  /\ req' \in [Requests -> Request]
         /\ Named'
<1> DEFINE new == [req[r] EXCEPT !.todo = @ \ {t}]
<1>1. /\ new \in Request
      /\ new.stage = req[r].stage /\ new.user = req[r].user /\ new.share = req[r].share
  BY RequestTyped DEF Request
<1>2. Becomes(r, new)
  BY DEF Drop
<1>3. /\ new.stage \in OnPosition => <<new.user, new.share>> \in Positions
      /\ new.stage = "closing" => new.user \in Users
  BY <1>1, RequestTyped DEF Pos
<1> QED
  BY <1>1, <1>2, <1>3, BecomesTyped

(* The steps on one position keep the rows and the ledger well-formed.      *)
LEMMA CommitTyped ==
  ASSUME Typed, NEW r \in Requests, PostCommit(r) \/ PutCommit(r) \/ DeleteCommit(r)
  PROVE  Typed'
<1>1. req[r].stage \in OnPosition /\ Respond(r) /\ active' = active
  BY DEF PostCommit, PutCommit, DeleteCommit, OnPosition
<1>2. /\ Pos(r) \in Positions
      /\ req[r].qty \in Nat /\ req[r].seen \in Nat /\ req[r].price \in EntryPrices
      /\ row[Pos(r)] \in Row /\ net[Pos(r)] \in Int /\ NoRow(Pos(r)) \in Row
  BY <1>1, RequestTyped, RowTyped
<1>3. row' \in [Positions -> Row] /\ net' \in [Positions -> Int]
  <2> row \in [Positions -> Row] /\ net \in [Positions -> Int]
    BY DEF Typed, TypeOK
  <2>1. CASE PostCommit(r)
    BY <1>2, <2>1 DEF PostCommit, Row
  <2>2. CASE PutCommit(r)
    <3>1. Updated(r) \in Row
      BY <1>2 DEF Row, Updated
    <3> QED
      BY <1>2, <2>2, <3>1 DEF PutCommit
  <2>3. CASE DeleteCommit(r)
    BY <1>2, <2>3 DEF DeleteCommit
  <2> QED
    BY <2>1, <2>2, <2>3
<1> QED
  BY <1>1, <1>3, RespondTyped DEF Typed, TypeOK

(* Deleting an account keeps the state well-formed.                          *)
LEMMA CloseTyped ==
  ASSUME Typed, NEW r \in Requests, CloseCommit(r)
  PROVE  Typed'
<1>1. row' \in [Positions -> Row]
  BY RowTyped, Zenon DEF CloseCommit
<1>2. net' \in [Positions -> Int] /\ active' \subseteq Users
  BY RowTyped DEF CloseCommit, Typed, TypeOK
<1> QED
  BY <1>1, <1>2, RespondTyped DEF CloseCommit, Typed, TypeOK

(* Treating one task of a balance or a backfill keeps the state well-formed. *)
LEMMA TaskStepTyped ==
  ASSUME Typed, NEW r \in Requests, NEW t \in req[r].todo,
         \/ \E price \in Prices : BalancePersist(r, t, price) \/ BackfillPrice(r, t, price)
         \/ BalanceSkip(r, t) \/ BackfillSeed(r, t) \/ BackfillSkip(r, t)
  PROVE  Typed'
<1>1. Drop(r, t) /\ active' = active
  BY DEF BalancePersist, BackfillPrice, BalanceSkip, BackfillSeed, BackfillSkip
<1>2. t.pos \in Positions /\ t.qty \in Int
  BY RequestTyped DEF Task
<1>3. row' \in [Positions -> Row] /\ net' \in [Positions -> Int]
  <2> row \in [Positions -> Row] /\ net \in [Positions -> Int]
    BY DEF Typed, TypeOK
  <2>1. ASSUME NEW price \in Prices,
               BalancePersist(r, t, price) \/ BackfillPrice(r, t, price)
        PROVE  row' \in [Positions -> Row] /\ net' \in [Positions -> Int]
    BY <1>2, <2>1 DEF BalancePersist, BackfillPrice, Row, EntryPrices
  <2>2. CASE BalanceSkip(r, t) \/ BackfillSkip(r, t)
    BY <2>2 DEF BalanceSkip, BackfillSkip
  <2>3. CASE BackfillSeed(r, t)
    BY <1>2, <2>3 DEF BackfillSeed
  <2> QED
    BY <2>1, <2>2, <2>3
<1> QED
  BY <1>1, <1>3, DropTyped DEF Typed, TypeOK

(* The steps that touch neither rows nor ledger.                            *)
Advance(r) == PutLock(r) \/ DeleteRow(r) \/ BackfillReadMissing(r)

Answer(r) == \/ PostReject(r) \/ PutMissing(r) \/ DeleteGone(r)
             \/ BalanceDone(r) \/ BackfillDone(r) \/ Fail(r)

(* A step that writes nothing keeps the state well-formed.                   *)
LEMMA AdvanceTyped ==
  ASSUME Typed, NEW r \in Requests, Advance(r)
  PROVE  Typed'
<1>0. UNCHANGED <<active, row, net>>
  BY DEF Advance, PutLock, DeleteRow, BackfillReadMissing
<1> SUFFICES req' \in [Requests -> Request] /\ Named'
  BY <1>0 DEF Typed, TypeOK
<1>1. CASE PutLock(r)
  <2> DEFINE new == [req[r] EXCEPT !.stage = "put_locked", !.seen = row[Pos(r)].qty]
  <2>1. Pos(r) \in Positions /\ row[Pos(r)].qty \in Nat
    BY <1>1, RequestTyped, RowTyped DEF PutLock, OnPosition
  <2>2. /\ new \in Request
        /\ new.stage # "closing" /\ new.user = req[r].user /\ new.share = req[r].share
    BY <2>1, RequestTyped DEF Request, Stages
  <2>3. Becomes(r, new)
    BY <1>1 DEF PutLock
  <2> QED
    BY <2>1, <2>2, <2>3, BecomesTyped DEF Pos
<1>2. CASE DeleteRow(r)
  <2> DEFINE new == [req[r] EXCEPT !.stage = "delete_row"]
  <2>1. Pos(r) \in Positions
    BY <1>2, RequestTyped DEF DeleteRow, OnPosition
  <2>2. /\ new \in Request
        /\ new.stage # "closing" /\ new.user = req[r].user /\ new.share = req[r].share
    BY RequestTyped DEF Request, Stages
  <2>3. Becomes(r, new)
    BY <1>2 DEF DeleteRow
  <2> QED
    BY <2>1, <2>2, <2>3, BecomesTyped DEF Pos
<1>3. CASE BackfillReadMissing(r)
  <2> DEFINE tasks == {TaskFor(p, row[p].qty - net[p]) : p \in Missing}
             new == ForTasks("backfill_seed", None, tasks)
  <2>1. tasks \in SUBSET Task /\ None \in Users \cup {None}
    BY TasksTyped DEF Missing
  <2>2. "backfill_seed" \in Stages \ OnPosition
    BY DEF Stages, OnPosition
  <2>3. new \in Request /\ new.stage = "backfill_seed"
    BY <2>1, <2>2, ForTasksTyped
  <2>4. Becomes(r, new)
    BY <1>3 DEF BackfillReadMissing
  <2> QED
    BY <2>2, <2>3, <2>4, BecomesTyped
<1> QED
  BY <1>1, <1>2, <1>3 DEF Advance

(* Every step is one of these.                                              *)
LEMMA Steps ==
  ASSUME Next
  PROVE  \/ \E r \in Requests :
               \/ Arrive(r) \/ Advance(r) \/ Answer(r)
               \/ PostCommit(r) \/ PutCommit(r) \/ DeleteCommit(r) \/ CloseCommit(r)
               \/ \E t \in req[r].todo :
                     \/ \E price \in Prices :
                           BalancePersist(r, t, price) \/ BackfillPrice(r, t, price)
                     \/ BalanceSkip(r, t) \/ BackfillSeed(r, t) \/ BackfillSkip(r, t)
         \/ \E r \in Requests : Respond(r) /\ UNCHANGED <<active, row, net>>
BY DEF Next, Serve, Advance, Answer, DeadlockAbort

(* Every step keeps the state well-formed.                                   *)
LEMMA NextTyped == Typed /\ [Next]_vars => Typed'
<1> SUFFICES ASSUME Typed, [Next]_vars PROVE Typed'
  OBVIOUS
<1>1. ASSUME NEW r \in Requests, Respond(r) /\ UNCHANGED <<active, row, net>>
      PROVE  Typed'
  BY <1>1, RespondTyped DEF Typed, TypeOK
<1>2. ASSUME NEW r \in Requests, Answer(r)
      PROVE  Respond(r) /\ UNCHANGED <<active, row, net>>
  BY <1>2 DEF Answer, PostReject, PutMissing, DeleteGone, BalanceDone, BackfillDone, Fail
<1>3. CASE Next
  BY <1>1, <1>2, <1>3, Steps, ArriveTyped, AdvanceTyped, CommitTyped, CloseTyped,
     TaskStepTyped
<1>4. CASE UNCHANGED vars
  BY <1>4 DEF vars, Typed, TypeOK, Named, Pos
<1> QED
  BY <1>3, <1>4

(* In every behaviour the rows, the ledger and the requests are well-formed. *)
THEOREM TypeCorrect == Spec => []TypeOK
<1>1. Spec => []Typed
  BY InitTyped, NextTyped, PTL DEF Spec
<1> QED
  BY <1>1, PTL DEF Typed

------------------------------------------------------------------------------
(* Locks.  LockedRowIsStable is not inductive alone: it needs that the row  *)
(* of a DELETE in progress exists too, and that two transactions never hold *)
(* the same row.                                                            *)

Holds(r) == req[r].stage \in {"put_locked", "delete_row"}

HeldRowExists == \A r \in Requests : Holds(r) => IsRow(Pos(r), req[r].gen)

OneHolder == \A r, o \in Requests : Holds(r) /\ Holds(o) /\ Pos(r) = Pos(o) => r = o

IInv == /\ Typed
        /\ HeldRowExists
        /\ OneHolder
        /\ LockedRowIsStable
        /\ NothingSurvivesTheAccount

(* A step of a request, with the one it works through if it has several.    *)
Step(r) ==
    \/ Arrive(r) \/ Advance(r) \/ Answer(r)
    \/ PostCommit(r) \/ PutCommit(r) \/ DeleteCommit(r) \/ CloseCommit(r)
    \/ \E t \in req[r].todo :
          \/ \E price \in Prices : BalancePersist(r, t, price) \/ BackfillPrice(r, t, price)
          \/ BalanceSkip(r, t) \/ BackfillSeed(r, t) \/ BackfillSkip(r, t)

(* A step of a request changes no other request.                             *)
LEMMA OnlyOwnRequest ==
  ASSUME Typed, NEW r \in Requests, Step(r) \/ Respond(r), NEW o \in Requests \ {r}
  PROVE  req'[o] = req[o]
<1>1. ASSUME NEW x, Becomes(r, x)
      PROVE  req'[o] = req[o]
  BY <1>1 DEF Becomes, Typed, TypeOK
<1>2. CASE Arrive(r)
  BY <1>1, <1>2 DEF Arrive, CloseLock, BalanceRead, PostArrive, PutArrive, DeleteRead,
     BackfillRead
<1>3. CASE Advance(r)
  BY <1>1, <1>3 DEF Advance, PutLock, DeleteRow, BackfillReadMissing
<1>4. CASE Answer(r)
  BY <1>1, <1>4 DEF Answer, PostReject, PutMissing, DeleteGone, BalanceDone,
     BackfillDone, Fail, Respond
<1>5. CASE Respond(r) \/ PostCommit(r) \/ PutCommit(r) \/ DeleteCommit(r) \/ CloseCommit(r)
  BY <1>1, <1>5 DEF Respond, PostCommit, PutCommit, DeleteCommit, CloseCommit
<1>6. ASSUME NEW t \in req[r].todo,
             \/ \E price \in Prices :
                   BalancePersist(r, t, price) \/ BackfillPrice(r, t, price)
             \/ BalanceSkip(r, t) \/ BackfillSeed(r, t) \/ BackfillSkip(r, t)
      PROVE  req'[o] = req[o]
  BY <1>1, <1>6 DEF BalancePersist, BackfillPrice, BalanceSkip, BackfillSeed,
     BackfillSkip, Drop
<1> QED
  BY <1>2, <1>3, <1>4, <1>5, <1>6 DEF Step

(* Nobody changes a row another transaction holds.                          *)
LEMMA HeldRowUntouched ==
  ASSUME IInv, NEW r \in Requests, Step(r), NEW o \in Requests \ {r}, Holds(o)
  PROVE  row'[Pos(o)] = row[Pos(o)]
<1>1. /\ Pos(o) \in Positions /\ RowLocked(Pos(o))
      /\ Pos(o) = <<req[o].user, req[o].share>> /\ req[o].share \in Shares
  BY RequestTyped DEF IInv, Holds, OnPosition, RowLocked, Pos
<1>2. row \in [Positions -> Row]
  BY DEF IInv, Typed, TypeOK
<1>3. CASE Arrive(r) \/ Advance(r) \/ Answer(r)
  BY <1>3 DEF Arrive, CloseLock, BalanceRead, PostArrive, PutArrive, DeleteRead,
     BackfillRead, Advance, PutLock, DeleteRow, BackfillReadMissing, Answer,
     PostReject, PutMissing, DeleteGone, BalanceDone, BackfillDone, Fail
<1>4. CASE PostCommit(r)
  BY <1>1, <1>2, <1>4 DEF PostCommit
<1>5. CASE PutCommit(r) \/ DeleteCommit(r)
  <2>1. Holds(r) /\ Pos(r) # Pos(o)
    BY <1>5 DEF PutCommit, DeleteCommit, Holds, IInv, OneHolder
  <2> QED
    BY <1>1, <1>2, <1>5, <2>1 DEF PutCommit, DeleteCommit
<1>6. CASE CloseCommit(r)
  <2>1. ~RowLocked(<<req[r].user, req[o].share>>)
    BY <1>1, <1>6 DEF CloseCommit
  <2>2. Pos(o)[1] # req[r].user
    BY <1>1, <2>1
  <2> QED
    BY <1>1, <1>6, <2>2 DEF CloseCommit
<1>7. ASSUME NEW t \in req[r].todo,
             \/ \E price \in Prices :
                   BalancePersist(r, t, price) \/ BackfillPrice(r, t, price)
             \/ BalanceSkip(r, t) \/ BackfillSeed(r, t) \/ BackfillSkip(r, t)
      PROVE  row'[Pos(o)] = row[Pos(o)]
  BY <1>1, <1>2, <1>7 DEF BalancePersist, BackfillPrice, BalanceSkip, BackfillSeed,
     BackfillSkip
<1> QED
  BY <1>3, <1>4, <1>5, <1>6, <1>7 DEF Step

(* A request that holds a row after its own step has just taken a free one. *)
LEMMA HolderHasJustLocked ==
  ASSUME IInv, NEW r \in Requests, Step(r), Holds(r)'
  PROVE  /\ ~RowLocked(Pos(r)) /\ UNCHANGED row
         /\ Pos(r)' = Pos(r) /\ req'[r].gen = req[r].gen
         /\ IsRow(Pos(r), req[r].gen)
         /\ req'[r].stage = "put_locked" => req'[r].seen = row[Pos(r)].qty
<1>1. ASSUME NEW x, Becomes(r, x)
      PROVE  req'[r] = x
  BY <1>1 DEF Becomes, IInv, Typed, TypeOK
<1>2. ~Respond(r)
  BY <1>1 DEF Respond, Idle, ForTasks, Holds
<1>3. ASSUME Arrive(r)
      PROVE  FALSE
  <2>1. ASSUME NEW u, NEW todo,
               NEW stage \in {"closing", "balance", "backfill_prices"},
               Becomes(r, ForTasks(stage, u, todo))
        PROVE  FALSE
    BY <1>1, <2>1 DEF ForTasks, Holds
  <2>2. ASSUME NEW u, NEW s, NEW gen, NEW q, NEW price, NEW seen,
               NEW stage \in {"post", "put", "delete_read"},
               Becomes(r, ForRow(stage, u, s, gen, q, price, seen))
        PROVE  FALSE
    BY <1>1, <2>2 DEF ForRow, Holds
  <2> QED
    BY <1>3, <2>1, <2>2 DEF Arrive, CloseLock, BalanceRead, PostArrive, PutArrive,
       DeleteRead, BackfillRead
<1>4. CASE PutLock(r)
  <2>1. req'[r] = [req[r] EXCEPT !.stage = "put_locked", !.seen = row[Pos(r)].qty]
    BY <1>1, <1>4 DEF PutLock
  <2> QED
    BY <1>4, <2>1, RequestTyped DEF PutLock, Pos, Request, IInv
<1>5. CASE DeleteRow(r)
  <2>1. req'[r] = [req[r] EXCEPT !.stage = "delete_row"]
    BY <1>1, <1>5 DEF DeleteRow
  <2> QED
    BY <1>5, <2>1, RequestTyped DEF DeleteRow, Pos, Request, IInv
<1>6. CASE BackfillReadMissing(r)
  BY <1>1, <1>6 DEF BackfillReadMissing, ForTasks, Holds
<1>7. ASSUME Answer(r) \/ PostCommit(r) \/ PutCommit(r) \/ DeleteCommit(r) \/ CloseCommit(r)
      PROVE  FALSE
  BY <1>2, <1>7 DEF Answer, PostReject, PutMissing, DeleteGone, BalanceDone,
     BackfillDone, Fail, PostCommit, PutCommit, DeleteCommit, CloseCommit
<1>8. ASSUME NEW t \in req[r].todo,
             \/ \E price \in Prices :
                   BalancePersist(r, t, price) \/ BackfillPrice(r, t, price)
             \/ BalanceSkip(r, t) \/ BackfillSeed(r, t) \/ BackfillSkip(r, t)
      PROVE  FALSE
  <2>1. Drop(r, t) /\ ~Holds(r)
    BY <1>8 DEF BalancePersist, BackfillPrice, BalanceSkip, BackfillSeed, BackfillSkip,
       Holds
  <2>2. req'[r] = [req[r] EXCEPT !.todo = @ \ {t}]
    BY <1>1, <2>1 DEF Drop
  <2>3. req'[r].stage = req[r].stage
    BY <2>2, RequestTyped DEF Request, IInv
  <2> QED
    BY <2>1, <2>3 DEF Holds
<1> QED
  BY <1>3, <1>4, <1>5, <1>6, <1>7, <1>8 DEF Step, Advance

(* The locks exclude each other after every step of a request.               *)
LEMMA LocksKept ==
  ASSUME IInv, NEW r \in Requests, Step(r)
  PROVE  HeldRowExists' /\ OneHolder' /\ LockedRowIsStable'
<1>1. ASSUME NEW o \in Requests \ {r}
      PROVE  req'[o] = req[o] /\ Pos(o)' = Pos(o) /\ (Holds(o)' <=> Holds(o))
  BY OnlyOwnRequest DEF IInv, Pos, Holds
<1>2. ASSUME NEW o \in Requests, Holds(o)'
      PROVE  IsRow(Pos(o), req[o].gen)'
  <2>1. CASE o = r
    BY <1>2, <2>1, HolderHasJustLocked DEF IsRow, Exists
  <2>2. CASE o # r
    BY <1>1, <1>2, <2>2, HeldRowUntouched DEF IInv, HeldRowExists, IsRow, Exists
  <2> QED
    BY <2>1, <2>2
<1>3. ASSUME NEW o \in Requests \ {r}, Holds(o)', Holds(r)'
      PROVE  Pos(o)' # Pos(r)'
  <2>1. Holds(o) /\ Pos(o)' = Pos(o)
    BY <1>1, <1>3
  <2>2. RowLocked(Pos(o))
    BY <2>1 DEF Holds, RowLocked
  <2> QED
    BY <1>3, <2>1, <2>2, HolderHasJustLocked
<1>4. ASSUME NEW o \in Requests, req'[o].stage = "put_locked"
      PROVE  row'[Pos(o)'].qty = req'[o].seen
  <2>1. Holds(o)'
    BY <1>4 DEF Holds
  <2>2. CASE o = r
    BY <1>4, <2>1, <2>2, HolderHasJustLocked
  <2>3. CASE o # r
    BY <1>1, <1>4, <2>1, <2>3, HeldRowUntouched DEF IInv, LockedRowIsStable
  <2> QED
    BY <2>2, <2>3
<1>5. HeldRowExists'
  BY <1>2 DEF HeldRowExists
<1>6. OneHolder'
  BY <1>1, <1>3 DEF IInv, OneHolder
<1> QED
  BY <1>2, <1>4, <1>5, <1>6 DEF LockedRowIsStable, Holds

(* A row that a transaction holds has an owner.                             *)
LEMMA HeldRowHasOwner ==
  ASSUME IInv, NEW r \in Requests, Holds(r)
  PROVE  /\ Pos(r) \in Positions
         /\ req[r].user \in active
         /\ Exists(Pos(r))
BY RequestTyped DEF IInv, HeldRowExists, IsRow, Exists, NothingSurvivesTheAccount, Holds,
   OnPosition, Pos

(* Setting the price of a row leaves every quantity and identity alone.     *)
LEMMA PriceOnly ==
  ASSUME NEW f \in [Positions -> Row], NEW x, NEW price, NEW p \in Positions
  PROVE  /\ [f EXCEPT ![x].price = price][p].qty = f[p].qty
         /\ [f EXCEPT ![x].price = price][p].gen = f[p].gen
         /\ p # x => [f EXCEPT ![x].price = price][p] = f[p]
         /\ p = x => [f EXCEPT ![x].price = price][p].price = price
<1>1. CASE p = x
  <2>1. [f EXCEPT ![x].price = price][p] = [f[p] EXCEPT !.price = price]
    BY <1>1
  <2> QED
    BY <1>1, <2>1 DEF Row
<1>2. CASE p # x
  BY <1>2
<1> QED
  BY <1>1, <1>2

(* No step of a request leaves anything of an account that is gone.          *)
LEMMA AccountsKept ==
  ASSUME IInv, NEW r \in Requests, Step(r)
  PROVE  NothingSurvivesTheAccount'
<1> SUFFICES ASSUME NEW p \in Positions, p[1] \notin active'
             PROVE  row'[p].qty = 0 /\ net'[p] = 0
  BY DEF NothingSurvivesTheAccount
<1>0. /\ row \in [Positions -> Row] /\ net \in [Positions -> Int]
      /\ p[1] \notin active => row[p].qty = 0 /\ net[p] = 0
  BY DEF IInv, Typed, TypeOK, NothingSurvivesTheAccount
<1>1. CASE Arrive(r) \/ Advance(r) \/ Answer(r)
  <2>1. UNCHANGED <<active, row, net>>
    BY <1>1 DEF Arrive, CloseLock, BalanceRead, PostArrive, PutArrive, DeleteRead,
       BackfillRead, Advance, PutLock, DeleteRow, BackfillReadMissing, Answer,
       PostReject, PutMissing, DeleteGone, BalanceDone, BackfillDone, Fail
  <2> QED
    BY <1>0, <2>1
<1>2. CASE PostCommit(r)
  BY <1>0, <1>2 DEF PostCommit, Pos
<1>3. CASE PutCommit(r) \/ DeleteCommit(r)
  <2>1. Holds(r) /\ active' = active
    BY <1>3 DEF PutCommit, DeleteCommit, Holds
  <2>2. Pos(r)[1] \in active
    BY <2>1, HeldRowHasOwner DEF Pos
  <2> QED
    BY <1>0, <1>3, <2>1, <2>2 DEF PutCommit, DeleteCommit
<1>4. CASE CloseCommit(r)
  BY <1>0, <1>4 DEF CloseCommit, NoRow
<1>5. ASSUME NEW t \in req[r].todo,
             \/ \E price \in Prices :
                   BalancePersist(r, t, price) \/ BackfillPrice(r, t, price)
             \/ BalanceSkip(r, t) \/ BackfillSkip(r, t)
      PROVE  row'[p].qty = 0 /\ net'[p] = 0
  <2>1. /\ UNCHANGED <<active, net>>
        /\ row' = row \/ \E price \in Prices : row' = [row EXCEPT ![t.pos].price = price]
    BY <1>5 DEF BalancePersist, BackfillPrice, BalanceSkip, BackfillSkip
  <2>2. ASSUME NEW price \in Prices, row' = [row EXCEPT ![t.pos].price = price]
        PROVE  row'[p].qty = row[p].qty
    <3>1. [row EXCEPT ![t.pos].price = price][p].qty = row[p].qty
      BY <1>0, PriceOnly
    <3> QED
      BY <2>2, <3>1
  <2> QED
    BY <1>0, <2>1, <2>2
<1>6. ASSUME NEW t \in req[r].todo, BackfillSeed(r, t)
      PROVE  row'[p].qty = 0 /\ net'[p] = 0
  BY <1>0, <1>6 DEF BackfillSeed
<1> QED
  BY <1>1, <1>2, <1>3, <1>4, <1>5, <1>6 DEF Step

(* The inductive invariant holds initially.                                  *)
LEMMA InitIInv == Init => IInv
<1> SUFFICES ASSUME Init PROVE IInv
  OBVIOUS
<1>1. Typed
  BY InitTyped
<1>2. \A r \in Requests : ~Holds(r)
  BY DEF Init, Idle, ForTasks, Holds
<1>3. NothingSurvivesTheAccount
  BY DEF Init, NothingSurvivesTheAccount, Positions
<1> QED
  BY <1>1, <1>2, <1>3 DEF IInv, HeldRowExists, OneHolder, LockedRowIsStable, Holds

(* A failed or aborted request leaves everything else as it is.             *)
LEMMA RespondKeepsIInv ==
  ASSUME IInv, NEW r \in Requests, Respond(r), UNCHANGED <<active, row, net>>
  PROVE  IInv'
<1>1. Typed'
  BY RespondTyped DEF IInv, Typed, TypeOK
<1>2. ~Holds(r)'
  BY DEF Respond, Becomes, IInv, Typed, TypeOK, Holds, Idle, ForTasks
<1>3. ASSUME NEW o \in Requests \ {r}
      PROVE  req'[o] = req[o]
  BY <1>3, OnlyOwnRequest DEF IInv
<1>4. HeldRowExists' /\ OneHolder' /\ LockedRowIsStable'
  BY <1>2, <1>3 DEF IInv, HeldRowExists, OneHolder, LockedRowIsStable, Holds, IsRow,
     Exists, Pos
<1> QED
  BY <1>1, <1>4 DEF IInv, NothingSurvivesTheAccount

(* A step of a request keeps the inductive invariant.                        *)
LEMMA StepIInv ==
  ASSUME IInv, NEW r \in Requests, Step(r)
  PROVE  IInv'
<1>1. CASE Answer(r)
  <2>1. Respond(r) /\ UNCHANGED <<active, row, net>>
    BY <1>1 DEF Answer, PostReject, PutMissing, DeleteGone, BalanceDone, BackfillDone, Fail
  <2> QED
    BY <2>1, RespondKeepsIInv
<1>2. CASE ~Answer(r)
  <2>1. Typed'
    BY <1>2, ArriveTyped, AdvanceTyped, CommitTyped, CloseTyped, TaskStepTyped DEF Step, IInv
  <2> QED
    BY <2>1, LocksKept, AccountsKept DEF IInv
<1> QED
  BY <1>1, <1>2

(* Every step keeps the inductive invariant.                                 *)
LEMMA NextIInv == IInv /\ [Next]_vars => IInv'
<1> SUFFICES ASSUME IInv, [Next]_vars PROVE IInv'
  OBVIOUS
<1>1. CASE Next
  BY <1>1, Steps, StepIInv, RespondKeepsIInv DEF Step
<1>2. CASE UNCHANGED vars
  <2>1. Typed'
    BY <1>2, NextTyped DEF IInv
  <2> QED
    BY <1>2, <2>1 DEF vars, IInv, HeldRowExists, OneHolder, LockedRowIsStable, Holds,
       IsRow, Exists, Pos, NothingSurvivesTheAccount
<1> QED
  BY <1>1, <1>2

(* The inductive invariant holds in every reachable state.                   *)
LEMMA Invariant == Spec => []IInv
BY InitIInv, NextIInv, PTL DEF Spec

(* What a PUT read of its row still holds when it commits.                  *)
THEOREM LockedRowStability == Spec => []LockedRowIsStable
BY Invariant, PTL DEF IInv

(* A deleted account leaves no holdings and no ledger.                      *)
THEOREM NoOrphans == Spec => []NothingSurvivesTheAccount
BY Invariant, PTL DEF IInv

------------------------------------------------------------------------------
(* The ledger and the holdings.                                             *)

(* How one step may change a row: its identity only advances, a row that    *)
(* goes on living keeps its quantity unless a PUT commits.                  *)
RowEvolves(r, p) ==
    /\ row'[p].gen >= row[p].gen
    /\ row'[p].gen = row[p].gen /\ row'[p].qty > 0
       => row'[p].qty = row[p].qty \/ PutCommit(r)

(* Every step of a request changes rows in that way only.                    *)
LEMMA StepEvolves ==
  ASSUME IInv, NEW r \in Requests, Step(r), NEW p \in Positions
  PROVE  RowEvolves(r, p)
<1>0. /\ row \in [Positions -> Row] /\ row[p].gen \in Nat /\ row[p].qty \in Nat
      /\ NoRow(p) = [gen |-> row[p].gen, qty |-> 0, price |-> NoPrice]
  BY DEF IInv, Typed, TypeOK, Row, NoRow
<1>1. ASSUME row' = row
      PROVE  RowEvolves(r, p)
  BY <1>0, <1>1 DEF RowEvolves
<1>2. CASE Arrive(r) \/ Advance(r) \/ Answer(r)
  BY <1>1, <1>2 DEF Arrive, CloseLock, BalanceRead, PostArrive, PutArrive, DeleteRead,
     BackfillRead, Advance, PutLock, DeleteRow, BackfillReadMissing, Answer,
     PostReject, PutMissing, DeleteGone, BalanceDone, BackfillDone, Fail
<1>3. CASE PostCommit(r)
  BY <1>0, <1>3 DEF PostCommit, RowEvolves
<1>4. CASE PutCommit(r)
  <2>1. row' = [row EXCEPT ![Pos(r)] = Updated(r)]
    BY <1>4 DEF PutCommit
  <2>2. p = Pos(r) => Updated(r).gen = row[p].gen
    BY DEF Updated
  <2> QED
    BY <1>0, <1>4, <2>1, <2>2 DEF RowEvolves
<1>5. CASE DeleteCommit(r)
  BY <1>0, <1>5 DEF DeleteCommit, RowEvolves
<1>6. CASE CloseCommit(r)
  BY <1>0, <1>6 DEF CloseCommit, RowEvolves
<1>7. ASSUME NEW t \in req[r].todo,
             \/ \E price \in Prices :
                   BalancePersist(r, t, price) \/ BackfillPrice(r, t, price)
             \/ BalanceSkip(r, t) \/ BackfillSeed(r, t) \/ BackfillSkip(r, t)
      PROVE  RowEvolves(r, p)
  <2>1. ASSUME NEW price \in Prices, row' = [row EXCEPT ![t.pos].price = price]
        PROVE  RowEvolves(r, p)
    <3>1. /\ row'[p].gen = row[p].gen /\ row'[p].qty = row[p].qty
          /\ row'[p].price = row[p].price \/ row'[p].price = price
      <4> DEFINE new == [row EXCEPT ![t.pos].price = price]
      <4>1. /\ new[p].qty = row[p].qty /\ new[p].gen = row[p].gen
            /\ p # t.pos => new[p] = row[p]
            /\ p = t.pos => new[p].price = price
        BY <1>0, PriceOnly
      <4>2. row' = new
        BY <2>1
      <4> HIDE DEF new
      <4> QED
        BY <4>1, <4>2
    <3> QED
      BY <1>0, <3>1 DEF RowEvolves
  <2>2. row' = row \/ \E price \in Prices : row' = [row EXCEPT ![t.pos].price = price]
    BY <1>7 DEF BalancePersist, BackfillPrice, BalanceSkip, BackfillSeed, BackfillSkip
  <2> QED
    BY <1>1, <2>1, <2>2
<1> QED
  BY <1>2, <1>3, <1>4, <1>5, <1>6, <1>7 DEF Step

(* A known price changes by the step of a PUT that carries the new one or    *)
(* of a balance that read the row before it was priced.                     *)
PriceKept(r, p) ==
    Exists(p) /\ row[p].price # NoPrice /\ row'[p].qty > 0
              /\ row'[p].price # row[p].price
    => row'[p].price # NoPrice /\ (PutSets(r, p) \/ StalePriceOf(r, p))

(* Every step of a request keeps the known prices in that way.               *)
LEMMA StepKeepsPrices ==
  ASSUME IInv, NEW r \in Requests, Step(r), NEW p \in Positions
  PROVE  PriceKept(r, p)
<1>0. /\ row \in [Positions -> Row] /\ row[p].qty \in Nat
      /\ NoRow(p) = [gen |-> row[p].gen, qty |-> 0, price |-> NoPrice]
  BY DEF IInv, Typed, TypeOK, Row, NoRow
<1>1. ASSUME row'[p] = row[p]
      PROVE  PriceKept(r, p)
  BY <1>1 DEF PriceKept
<1>2. CASE Arrive(r) \/ Advance(r) \/ Answer(r)
  BY <1>1, <1>2 DEF Arrive, CloseLock, BalanceRead, PostArrive, PutArrive, DeleteRead,
     BackfillRead, Advance, PutLock, DeleteRow, BackfillReadMissing, Answer,
     PostReject, PutMissing, DeleteGone, BalanceDone, BackfillDone, Fail
<1>3. CASE PostCommit(r)
  BY <1>0, <1>3 DEF PostCommit, PriceKept
<1>4. CASE PutCommit(r)
  <2>1. row' = [row EXCEPT ![Pos(r)] = Updated(r)] /\ req[r].stage = "put_locked"
    BY <1>4 DEF PutCommit
  <2>2. p = Pos(r) => Updated(r).price = row[p].price
                       \/ (Updated(r).price = req[r].price /\ req[r].price # NoPrice)
    BY DEF Updated
  <2> QED
    BY <1>0, <2>1, <2>2 DEF PriceKept, PutSets
<1>5. CASE DeleteCommit(r)
  BY <1>0, <1>5 DEF DeleteCommit, PriceKept
<1>6. CASE CloseCommit(r)
  BY <1>0, <1>6 DEF CloseCommit, PriceKept
<1>7. ASSUME NEW t \in req[r].todo, NEW price \in Prices,
             row' = [row EXCEPT ![t.pos].price = price]
      PROVE  (p # t.pos => row'[p] = row[p]) /\ (p = t.pos => row'[p].price = price)
  <2> DEFINE new == [row EXCEPT ![t.pos].price = price]
  <2>1. /\ p # t.pos => new[p] = row[p]
        /\ p = t.pos => new[p].price = price
    BY <1>0, PriceOnly
  <2>2. row' = new
    BY <1>7
  <2> HIDE DEF new
  <2> QED
    BY <2>1, <2>2
<1>8. ASSUME NEW t \in req[r].todo, NEW price \in Prices, BalancePersist(r, t, price)
      PROVE  PriceKept(r, p)
  <2>1. CASE IsRow(t.pos, t.gen) /\ p = t.pos
    <3>1. StalePriceOf(r, p) /\ row'[p].price = price
      BY <1>7, <1>8, <2>1 DEF BalancePersist, StalePriceOf, IsRow
    <3> QED
      BY <3>1 DEF PriceKept
  <2>2. CASE ~(IsRow(t.pos, t.gen) /\ p = t.pos)
    <3>1. \/ row' = row
          \/ p # t.pos /\ row' = [row EXCEPT ![t.pos].price = price]
      BY <1>8, <2>2 DEF BalancePersist
    <3> QED
      BY <1>1, <1>7, <3>1
  <2> QED
    BY <2>1, <2>2
<1>9. ASSUME NEW t \in req[r].todo, NEW price \in Prices, BackfillPrice(r, t, price)
      PROVE  PriceKept(r, p)
  <2>1. \/ row' = row
        \/ t.pos \in Unpriced(Positions) /\ row' = [row EXCEPT ![t.pos].price = price]
    BY <1>9 DEF BackfillPrice
  <2>2. p \in Unpriced(Positions) => PriceKept(r, p)
    BY DEF Unpriced, PriceKept
  <2> QED
    BY <1>1, <1>7, <2>1, <2>2
<1>10. ASSUME NEW t \in req[r].todo,
              BalanceSkip(r, t) \/ BackfillSeed(r, t) \/ BackfillSkip(r, t)
       PROVE  PriceKept(r, p)
  BY <1>1, <1>10 DEF BalanceSkip, BackfillSeed, BackfillSkip
<1> QED
  BY <1>2, <1>3, <1>4, <1>5, <1>6, <1>8, <1>9, <1>10 DEF Step

(* A known entry price is never lost, and what changes it is a PUT or a      *)
(* stale balance.                                                           *)
THEOREM PriceDiscipline == Spec => PriceChangesAreExplained
<1> DEFINE Kept == \A p \in Positions :
                      Exists(p) /\ row[p].price # NoPrice /\ row'[p].qty > 0
                                /\ row'[p].price # row[p].price
                      => /\ row'[p].price # NoPrice
                         /\ \E r \in Requests : PutSets(r, p) \/ StalePriceOf(r, p)
<1>1. IInv /\ [Next]_vars => [Kept]_vars
  <2> SUFFICES ASSUME IInv, Next PROVE Kept
    OBVIOUS
  <2>1. ASSUME NEW r \in Requests, Step(r) PROVE Kept
    BY <2>1, StepKeepsPrices DEF PriceKept
  <2>2. ASSUME row' = row PROVE Kept
    BY <2>2
  <2> QED
    BY <2>1, <2>2, Steps DEF Step
<1> QED
  BY <1>1, Invariant, PTL DEF Spec, PriceChangesAreExplained

MovesTogether(p) ==
    \/ net'[p] - net[p] = row'[p].qty - row[p].qty
    \/ SeedOf(p)
    \/ StaleSaleOf(p)
    \/ p[1] \in active \ active' /\ net'[p] = 0 /\ row'[p].qty = 0

(* Every step of a request moves holding and ledger in that way.             *)
LEMMA StepMovesTogether ==
  ASSUME IInv, NEW r \in Requests, Step(r), NEW p \in Positions
  PROVE  MovesTogether(p)
<1>0. /\ row \in [Positions -> Row] /\ row[p].qty \in Nat
      /\ net \in [Positions -> Int] /\ net[p] \in Int
      /\ NoRow(p) = [gen |-> row[p].gen, qty |-> 0, price |-> NoPrice]
  BY DEF IInv, Typed, TypeOK, Row, NoRow
<1>1. ASSUME row'[p].qty = row[p].qty, net'[p] = net[p]
      PROVE  MovesTogether(p)
  BY <1>0, <1>1 DEF MovesTogether
<1>2. CASE Arrive(r) \/ Advance(r) \/ Answer(r)
  BY <1>1, <1>2 DEF Arrive, CloseLock, BalanceRead, PostArrive, PutArrive, DeleteRead,
     BackfillRead, Advance, PutLock, DeleteRow, BackfillReadMissing, Answer,
     PostReject, PutMissing, DeleteGone, BalanceDone, BackfillDone, Fail
<1>3. CASE PostCommit(r)
  <2>1. req[r].qty \in Nat
    BY RequestTyped DEF IInv
  <2> QED
    BY <1>0, <1>3, <2>1 DEF PostCommit, Exists, MovesTogether
<1>4. CASE PutCommit(r)
  <2>1. /\ row' = [row EXCEPT ![Pos(r)] = Updated(r)] /\ Updated(r).qty = req[r].qty
        /\ net' = [net EXCEPT ![Pos(r)] = @ + (req[r].qty - req[r].seen)]
    BY <1>4 DEF PutCommit, Updated
  <2>2. row[Pos(r)].qty = req[r].seen /\ req[r].qty \in Nat /\ req[r].seen \in Nat
    BY <1>4, RequestTyped DEF IInv, LockedRowIsStable, PutCommit
  <2> QED
    BY <1>0, <2>1, <2>2 DEF MovesTogether
<1>5. CASE DeleteCommit(r)
  <2>1. req[r].seen \in Nat
    BY RequestTyped DEF IInv
  <2>2. req'[r] = Idle
    BY <1>5 DEF DeleteCommit, Respond, Becomes, IInv, Typed, TypeOK
  <2>3. CASE p # Pos(r) \/ req[r].seen = row[p].qty
    BY <1>0, <1>5, <2>1, <2>3 DEF DeleteCommit, MovesTogether
  <2>4. CASE p = Pos(r) /\ req[r].seen # row[p].qty
    <3>1. StaleSaleOf(p)
      BY <1>0, <1>5, <2>1, <2>2, <2>4 DEF DeleteCommit, StaleSaleOf
    <3> QED
      BY <3>1 DEF MovesTogether
  <2> QED
    BY <2>3, <2>4
<1>6. CASE CloseCommit(r)
  <2>1. CASE p[1] # req[r].user
    BY <1>1, <1>6, <2>1 DEF CloseCommit
  <2>2. CASE p[1] = req[r].user
    <3>1. row'[p].qty = 0 /\ net'[p] = 0 /\ active' = active \ {p[1]}
      BY <1>0, <1>6, <2>2 DEF CloseCommit
    <3>2. p[1] \notin active => row[p].qty = 0 /\ net[p] = 0
      BY DEF IInv, NothingSurvivesTheAccount
    <3> QED
      BY <3>1, <3>2 DEF MovesTogether
  <2> QED
    BY <2>1, <2>2
<1>7. ASSUME NEW t \in req[r].todo,
             \/ \E price \in Prices :
                   BalancePersist(r, t, price) \/ BackfillPrice(r, t, price)
             \/ BalanceSkip(r, t) \/ BackfillSkip(r, t)
      PROVE  MovesTogether(p)
  <2>1. /\ net' = net
        /\ row' = row \/ \E price \in Prices : row' = [row EXCEPT ![t.pos].price = price]
    BY <1>7 DEF BalancePersist, BackfillPrice, BalanceSkip, BackfillSkip
  <2>2. ASSUME NEW price \in Prices, row' = [row EXCEPT ![t.pos].price = price]
        PROVE  row'[p].qty = row[p].qty
    <3>1. [row EXCEPT ![t.pos].price = price][p].qty = row[p].qty
      BY <1>0, PriceOnly
    <3> QED
      BY <2>2, <3>1
  <2> QED
    BY <1>1, <2>1, <2>2
<1>8. ASSUME NEW t \in req[r].todo, BackfillSeed(r, t)
      PROVE  MovesTogether(p)
  <2>1. /\ row' = row /\ net' = [net EXCEPT ![t.pos] = @ + t.qty]
        /\ req[r].stage = "backfill_seed"
    BY <1>8 DEF BackfillSeed
  <2>2. CASE p # t.pos
    BY <1>1, <2>1, <2>2
  <2>3. CASE p = t.pos
    <3>1. req'[r] = [req[r] EXCEPT !.todo = @ \ {t}]
      BY <1>8 DEF BackfillSeed, Drop, Becomes, IInv, Typed, TypeOK
    <3>2. t \notin req'[r].todo
      BY <3>1, RequestTyped DEF IInv, Request
    <3>3. SeedOf(p)
      BY <1>0, <2>1, <2>3, <3>2 DEF SeedOf
    <3> QED
      BY <3>3 DEF MovesTogether
  <2> QED
    BY <2>2, <2>3
<1> QED
  BY <1>2, <1>3, <1>4, <1>5, <1>6, <1>7, <1>8 DEF Step

(* Holdings and ledger change together but for the seed, a stale sale and   *)
(* the end of the account.                                                  *)
THEOREM LedgerDiscipline == Spec => LedgerMovesWithHolding
<1>1. IInv /\ [Next]_vars => [\A p \in Positions : MovesTogether(p)]_vars
  <2> SUFFICES ASSUME IInv, Next PROVE \A p \in Positions : MovesTogether(p)
    OBVIOUS
  <2>1. ASSUME NEW r \in Requests, Step(r) PROVE \A p \in Positions : MovesTogether(p)
    BY <2>1, StepMovesTogether
  <2>2. ASSUME UNCHANGED <<active, row, net>>
        PROVE  \A p \in Positions : MovesTogether(p)
    BY <2>2 DEF IInv, Typed, TypeOK, Row, MovesTogether
  <2> QED
    BY <2>1, <2>2, Steps DEF Step
<1>2. Spec => [][\A p \in Positions : MovesTogether(p)]_vars
  BY <1>1, Invariant, PTL DEF Spec
<1> QED
  BY <1>2 DEF MovesTogether, LedgerMovesWithHolding

------------------------------------------------------------------------------
(* When is the ledger exact?  When nothing is legacy or backfilled and the  *)
(* users do not mix PUT and DELETE: then a DELETE that finds its row finds  *)
(* the quantity it read, since a row that is closed and opened again is     *)
(* another row.                                                             *)

Exact == Legacy = {} /\ "backfill" \notin Kinds /\ ~({"put", "delete"} \subseteq Kinds)

KindsServed ==
    \A r \in Requests :
       /\ req[r].stage \in {"put", "put_locked"} => "put" \in Kinds
       /\ req[r].stage \in {"delete_read", "delete_row"} => "delete" \in Kinds
       /\ req[r].stage \in {"backfill_prices", "backfill_seed"} => "backfill" \in Kinds

Deleting(r) == req[r].stage \in {"delete_read", "delete_row"}

SeenIsCurrent ==
    \A r \in Requests :
       Deleting(r) => /\ req[r].gen <= row[Pos(r)].gen
                      /\ "put" \notin Kinds /\ IsRow(Pos(r), req[r].gen)
                         => row[Pos(r)].qty = req[r].seen

(* What a step may do to the stage of the request that takes it.            *)
LEMMA StageStep ==
  ASSUME Typed, NEW r \in Requests, Step(r) \/ Respond(r)
  PROVE  \/ req'[r].stage \in Stages \ {"put", "put_locked", "delete_read", "delete_row",
                                        "backfill_prices", "backfill_seed"}
         \/ req'[r].stage = "put" /\ "put" \in Kinds
         \/ req'[r].stage = "put_locked" /\ req[r].stage = "put"
         \/ /\ req'[r].stage = "delete_read" /\ "delete" \in Kinds /\ row' = row
            /\ Pos(r)' \in Positions /\ row[Pos(r)'].gen = req'[r].gen
            /\ row[Pos(r)'].qty = req'[r].seen
         \/ /\ req'[r].stage = "delete_row" /\ req[r].stage = "delete_read" /\ row' = row
            /\ Pos(r)' = Pos(r) /\ req'[r].gen = req[r].gen /\ req'[r].seen = req[r].seen
         \/ req'[r].stage = "backfill_prices" /\ "backfill" \in Kinds
         \/ /\ req'[r].stage = "backfill_seed" /\ req[r].stage = "backfill_prices"
         \/ /\ req'[r].stage = req[r].stage
            /\ req[r].stage \in {"backfill_prices", "backfill_seed"}
<1>1. ASSUME NEW x, Becomes(r, x)
      PROVE  req'[r] = x
  BY <1>1 DEF Becomes, Typed, TypeOK
<1>2. CASE Respond(r) \/ Answer(r) \/ PostCommit(r) \/ PutCommit(r) \/ DeleteCommit(r)
           \/ CloseCommit(r)
  <2>1. Respond(r)
    BY <1>2 DEF Answer, PostReject, PutMissing, DeleteGone, BalanceDone, BackfillDone,
       Fail, PostCommit, PutCommit, DeleteCommit, CloseCommit
  <2> QED
    BY <1>1, <2>1 DEF Respond, Idle, ForTasks, Stages
<1>3. CASE Arrive(r)
  <2>1. ASSUME NEW u \in Users, CloseLock(r, u) \/ BalanceRead(r, u)
        PROVE  req'[r].stage \in {"closing", "balance"}
    BY <1>1, <2>1 DEF CloseLock, BalanceRead, ForTasks
  <2>2. ASSUME NEW u \in Users, NEW s \in Shares, NEW q \in Quantities, NEW price \in Prices,
               PostArrive(r, u, s, q, price)
        PROVE  req'[r].stage = "post"
    BY <1>1, <2>2 DEF PostArrive, ForRow
  <2>3. ASSUME NEW u \in Users, NEW s \in Shares, NEW q \in Quantities,
               NEW price \in EntryPrices, NEW gen \in 1 .. row[<<u, s>>].gen,
               PutArrive(r, u, s, gen, q, price)
        PROVE  req'[r].stage = "put" /\ "put" \in Kinds
    BY <1>1, <2>3 DEF PutArrive, ForRow, Start
  <2>4. ASSUME NEW u \in Users, NEW s \in Shares, NEW gen \in 1 .. row[<<u, s>>].gen,
               DeleteRead(r, u, s, gen)
        PROVE  /\ req'[r].stage = "delete_read" /\ "delete" \in Kinds /\ row' = row
               /\ Pos(r)' \in Positions /\ row[Pos(r)'].gen = req'[r].gen
               /\ row[Pos(r)'].qty = req'[r].seen
    <3>1. req'[r] = ForRow("delete_read", u, s, gen, 0, NoPrice, row[<<u, s>>].qty)
      BY <1>1, <2>4 DEF DeleteRead
    <3> QED
      BY <2>4, <3>1 DEF DeleteRead, ForRow, Start, Pos, Positions, IsRow
  <2>5. ASSUME BackfillRead(r)
        PROVE  req'[r].stage = "backfill_prices" /\ "backfill" \in Kinds
    BY <1>1, <2>5 DEF BackfillRead, ForTasks, Start
  <2> QED
    BY <1>3, <2>1, <2>2, <2>3, <2>4, <2>5 DEF Arrive, Stages
<1>4. CASE PutLock(r)
  <2>1. req'[r] = [req[r] EXCEPT !.stage = "put_locked", !.seen = row[Pos(r)].qty]
    BY <1>1, <1>4 DEF PutLock
  <2> QED
    BY <1>4, <2>1, RequestTyped DEF PutLock, Request
<1>5. CASE DeleteRow(r)
  <2>1. req'[r] = [req[r] EXCEPT !.stage = "delete_row"]
    BY <1>1, <1>5 DEF DeleteRow
  <2> QED
    BY <1>5, <2>1, RequestTyped DEF DeleteRow, Request, Pos
<1>6. CASE BackfillReadMissing(r)
  BY <1>1, <1>6 DEF BackfillReadMissing, ForTasks
<1>7. ASSUME NEW t \in req[r].todo,
             \/ \E price \in Prices :
                   BalancePersist(r, t, price) \/ BackfillPrice(r, t, price)
             \/ BalanceSkip(r, t) \/ BackfillSeed(r, t) \/ BackfillSkip(r, t)
      PROVE  /\ req'[r].stage = req[r].stage
             /\ req[r].stage \in {"balance", "backfill_prices", "backfill_seed"}
  <2>1. /\ Drop(r, t)
        /\ req[r].stage \in {"balance", "backfill_prices", "backfill_seed"}
    BY <1>7 DEF BalancePersist, BackfillPrice, BalanceSkip, BackfillSeed, BackfillSkip
  <2>2. req'[r] = [req[r] EXCEPT !.todo = @ \ {t}]
    BY <1>1, <2>1 DEF Drop
  <2> QED
    BY <2>1, <2>2, RequestTyped DEF Request
<1> QED
  BY <1>2, <1>3, <1>4, <1>5, <1>6, <1>7 DEF Step, Advance, Stages

XInv == IInv /\ KindsServed /\ SeenIsCurrent

(* The invariant holds initially.                                            *)
LEMMA InitXInv == Init => XInv
BY InitIInv DEF Init, XInv, KindsServed, SeenIsCurrent, Deleting, Idle, ForTasks

(* A step of a request serves a kind the instance has.                       *)
LEMMA KindsKept ==
  ASSUME XInv, NEW r \in Requests, Step(r) \/ Respond(r)
  PROVE  KindsServed'
<1>1. \A o \in Requests \ {r} : req'[o] = req[o]
  BY OnlyOwnRequest DEF XInv, IInv
<1> QED
  BY <1>1, StageStep DEF XInv, IInv, KindsServed

(* What a DELETE has read stays the quantity of its row.                     *)
LEMMA SeenKept ==
  ASSUME XInv, NEW r \in Requests, Step(r)
  PROVE  SeenIsCurrent'
<1> SUFFICES ASSUME NEW o \in Requests, Deleting(o)'
             PROVE  /\ req'[o].gen <= row'[Pos(o)'].gen
                    /\ "put" \notin Kinds /\ IsRow(Pos(o), req[o].gen)'
                       => row'[Pos(o)'].qty = req'[o].seen
  BY DEF SeenIsCurrent
<1>1. CASE o = r
  <2>1. \/ /\ row' = row /\ Pos(r)' \in Positions /\ row[Pos(r)'].gen = req'[r].gen
           /\ row[Pos(r)'].qty = req'[r].seen
        \/ /\ req[r].stage = "delete_read" /\ row' = row
           /\ Pos(r)' = Pos(r) /\ req'[r].gen = req[r].gen /\ req'[r].seen = req[r].seen
    BY <1>1, StageStep DEF XInv, IInv, Deleting
  <2>2. row \in [Positions -> Row]
    BY DEF XInv, IInv, Typed, TypeOK
  <2> QED
    BY <1>1, <2>1, <2>2 DEF XInv, SeenIsCurrent, Deleting, IsRow, Exists, Row
<1>2. CASE o # r
  <2>1. req'[o] = req[o] /\ Pos(o)' = Pos(o) /\ Deleting(o)
    BY <1>2, OnlyOwnRequest DEF XInv, IInv, Pos, Deleting
  <2>2. Pos(o) \in Positions /\ req[o].gen \in Nat
    BY <2>1, RequestTyped DEF XInv, IInv, Deleting, OnPosition
  <2>3. RowEvolves(r, Pos(o)) /\ row[Pos(o)].gen \in Nat /\ row[Pos(o)].qty \in Nat
    BY <2>2, StepEvolves, RowTyped DEF XInv, IInv
  <2>4. req[o].gen <= row[Pos(o)].gen
    BY <2>1 DEF XInv, SeenIsCurrent
  <2>5. IInv'
    BY StepIInv DEF XInv
  <2>6. row'[Pos(o)].gen \in Nat /\ row'[Pos(o)].qty \in Nat
    BY <2>2, <2>5 DEF IInv, Typed, TypeOK, Row
  <2>7. req'[o].gen <= row'[Pos(o)'].gen
    BY <2>1, <2>2, <2>3, <2>4, <2>6 DEF RowEvolves
  <2>8. ASSUME "put" \notin Kinds, IsRow(Pos(o), req[o].gen)'
        PROVE  row'[Pos(o)'].qty = req'[o].seen
    <3>1. ~PutCommit(r)
      BY <2>8 DEF XInv, KindsServed, PutCommit
    <3>2. row'[Pos(o)].gen = req[o].gen /\ row'[Pos(o)].qty > 0
      BY <2>1, <2>8 DEF IsRow, Exists
    <3>3. row[Pos(o)].gen = req[o].gen /\ row'[Pos(o)].qty = row[Pos(o)].qty
      BY <2>2, <2>3, <2>4, <3>1, <3>2 DEF RowEvolves
    <3> QED
      BY <2>1, <2>8, <3>2, <3>3 DEF XInv, SeenIsCurrent, IsRow, Exists
  <2> QED
    BY <2>7, <2>8
<1> QED
  BY <1>1, <1>2

(* Every step keeps the invariant.                                           *)
LEMMA NextXInv == XInv /\ [Next]_vars => XInv'
<1> SUFFICES ASSUME XInv, [Next]_vars PROVE XInv'
  OBVIOUS
<1>1. IInv'
  BY NextIInv DEF XInv
<1>2. ASSUME NEW r \in Requests, Step(r)
      PROVE  XInv'
  BY <1>1, <1>2, KindsKept, SeenKept DEF XInv
<1>3. ASSUME NEW r \in Requests, Respond(r), UNCHANGED <<active, row, net>>
      PROVE  XInv'
  <2>1. ~Deleting(r)'
    BY <1>3 DEF Respond, Becomes, XInv, IInv, Typed, TypeOK, Deleting, Idle, ForTasks
  <2>2. \A o \in Requests \ {r} : req'[o] = req[o]
    BY <1>3, OnlyOwnRequest DEF XInv, IInv
  <2>3. SeenIsCurrent'
    BY <1>3, <2>1, <2>2 DEF XInv, SeenIsCurrent, Deleting, Pos, IsRow, Exists
  <2> QED
    BY <1>1, <1>3, <2>3, KindsKept DEF XInv
<1>4. CASE UNCHANGED vars
  BY <1>1, <1>4 DEF vars, XInv, KindsServed, SeenIsCurrent, Deleting, Pos, IsRow, Exists
<1> QED
  BY <1>2, <1>3, <1>4, Steps DEF Step

(* Under these conditions there is neither a seed nor a stale sale.          *)
LEMMA NoDivergence ==
  ASSUME Exact, XInv, NEW p \in Positions
  PROVE  ~SeedOf(p) /\ ~StaleSaleOf(p)
<1>1. ~SeedOf(p)
  BY DEF Exact, XInv, KindsServed, SeedOf
<1>2. ASSUME NEW r \in Requests, req[r].stage = "delete_row", Pos(r) = p
      PROVE  req[r].seen = row[p].qty
  <2>1. "put" \notin Kinds
    BY <1>2 DEF Exact, XInv, KindsServed
  <2>2. IsRow(Pos(r), req[r].gen)
    BY <1>2 DEF XInv, IInv, HeldRowExists, Holds
  <2> QED
    BY <1>2, <2>1, <2>2 DEF XInv, SeenIsCurrent, Deleting
<1> QED
  BY <1>1, <1>2 DEF StaleSaleOf

(* Every step keeps ledger and holding equal.                                *)
LEMMA LedgerKept ==
  ASSUME Exact, XInv, LedgerMatchesHolding, [Next]_vars
  PROVE  LedgerMatchesHolding'
<1> SUFFICES ASSUME NEW p \in Positions
             PROVE  net'[p] = row'[p].qty
  BY DEF LedgerMatchesHolding
<1>0. net[p] = row[p].qty /\ net[p] \in Int
  BY DEF LedgerMatchesHolding, XInv, IInv, Typed, TypeOK
<1>1. ASSUME NEW r \in Requests, Step(r)
      PROVE  net'[p] = row'[p].qty
  <2>1. MovesTogether(p)
    BY <1>1, StepMovesTogether DEF XInv
  <2>2. net'[p] \in Int /\ row'[p].qty \in Nat
    BY <1>1, StepIInv DEF XInv, IInv, Typed, TypeOK, Row
  <2> QED
    BY <1>0, <2>1, <2>2, NoDivergence DEF MovesTogether
<1>2. ASSUME UNCHANGED <<row, net>>
      PROVE  net'[p] = row'[p].qty
  BY <1>0, <1>2
<1> QED
  BY <1>1, <1>2, Steps DEF Step, vars

(* The ledger gives exactly the holdings as long as nothing predates it,    *)
(* no backfill runs and the users do not mix PUT with DELETE.               *)
THEOREM LedgerIsExact == Exact => (Spec => []LedgerMatchesHolding)
<1> SUFFICES ASSUME Exact PROVE Spec => []LedgerMatchesHolding
  OBVIOUS
<1>1. Init => LedgerMatchesHolding
  BY DEF Init, LedgerMatchesHolding, Exact
<1>2. XInv /\ LedgerMatchesHolding /\ [Next]_vars => LedgerMatchesHolding'
  BY LedgerKept
<1>3. Init /\ [][Next]_vars => []XInv
  BY InitXInv, NextXInv, PTL
<1> QED
  BY <1>1, <1>2, <1>3, PTL DEF Spec

------------------------------------------------------------------------------
(* Deadlocks.  WaitsFor is read off the guards: a request that has to wait  *)
(* waits for a holder.  The lock of a PUT on the share of everybody makes   *)
(* no cycle because only one transaction has it, and who has it waits for   *)
(* the deletion of its own user or for nobody.                              *)

OneShareHolder ==
    \A r, o \in Requests :
       /\ req[r].stage = "put_locked" /\ req[o].stage = "put_locked"
       /\ req[r].share = req[o].share
       => r = o

DInv == IInv /\ OneShareHolder

(* The guards of the steps that wait say that nobody is waited for.         *)
LEMMA WaitsAreTheGuards ==
  ASSUME Typed, NEW r \in Requests
  PROVE  /\ req[r].stage = "post" =>
              ((~\E o \in Requests : WaitsFor(r, o))
                 <=> CanReference(req[r].user, req[r].share) /\ ~RowLocked(Pos(r)))
         /\ req[r].stage = "put" =>
              ((~\E o \in Requests : WaitsFor(r, o))
                 <=> ~RowLocked(Pos(r)) /\ ~ShareLocked(req[r].share))
         /\ req[r].stage = "put_locked" =>
              ((~\E o \in Requests : WaitsFor(r, o))
                 <=> (req[r].qty # req[r].seen => CanRecord(r)))
         /\ req[r].stage = "delete_read" =>
              ((~\E o \in Requests : WaitsFor(r, o)) <=> ~RowLocked(Pos(r)))
         /\ req[r].stage = "delete_row" =>
              ((~\E o \in Requests : WaitsFor(r, o)) <=> CanRecord(r))
         /\ req[r].stage = "closing" =>
              ((~\E o \in Requests : WaitsFor(r, o))
                 <=> \A s \in Shares : ~RowLocked(<<req[r].user, s>>))
<1> DEFINE free == ~\E o \in Requests : WaitsFor(r, o)
<1>1. CASE req[r].stage = "post"
  <2>1. free <=> CanReference(req[r].user, req[r].share) /\ ~RowLocked(Pos(r))
    BY <1>1 DEF WaitsFor, WaitsForRow, WaitsForReference, HoldsRow, HoldsShare, HoldsUser,
       Records, RowLocked, ShareLocked, UserLocked, CanReference
  <2> QED
    BY <1>1, <2>1
<1>2. CASE req[r].stage = "put"
  <2>1. free <=> ~RowLocked(Pos(r)) /\ ~ShareLocked(req[r].share)
    BY <1>2 DEF WaitsFor, WaitsForRow, WaitsForReference, HoldsRow, HoldsShare, Records,
       RowLocked, ShareLocked
  <2> QED
    BY <1>2, <2>1
<1>3. CASE req[r].stage = "put_locked"
  <2>1. free <=> (req[r].qty # req[r].seen => CanRecord(r))
    BY <1>3 DEF WaitsFor, WaitsForRow, WaitsForReference, HoldsShare, HoldsUser, Records,
       UserLocked, CanRecord
  <2> QED
    BY <1>3, <2>1
<1>4. CASE req[r].stage = "delete_read"
  <2>1. free <=> ~RowLocked(Pos(r))
    BY <1>4 DEF WaitsFor, WaitsForRow, WaitsForReference, HoldsRow, Records, RowLocked
  <2> QED
    BY <1>4, <2>1
<1>5. CASE req[r].stage = "delete_row"
  <2>1. free <=> CanRecord(r)
    BY <1>5 DEF WaitsFor, WaitsForRow, WaitsForReference, HoldsShare, HoldsUser, Records,
       UserLocked, CanRecord
  <2> QED
    BY <1>5, <2>1
<1>6. CASE req[r].stage = "closing"
  <2>1. free <=> \A s \in Shares : ~RowLocked(<<req[r].user, s>>)
    BY <1>6 DEF WaitsFor, WaitsForRow, WaitsForReference, HoldsRow, Records, RowLocked
  <2> QED
    BY <1>6, <2>1
<1> HIDE DEF free
<1> QED
  BY <1>1, <1>2, <1>3, <1>4, <1>5, <1>6 DEF free

(* A request that holds a share after its own step found the share free.    *)
LEMMA ShareHasJustBeenLocked ==
  ASSUME IInv, NEW r \in Requests, Step(r), req'[r].stage = "put_locked"
  PROVE  ~ShareLocked(req'[r].share)
<1>1. req[r].stage = "put"
  BY StageStep DEF IInv
<1>2. PutLock(r)
  <2>1. ~Respond(r)
    BY DEF Respond, Becomes, IInv, Typed, TypeOK, Idle, ForTasks
  <2>2. ~Answer(r)
    BY <2>1 DEF Answer, PostReject, PutMissing, DeleteGone, BalanceDone, BackfillDone, Fail
  <2>3. ~Arrive(r)
    BY <1>1 DEF Arrive, CloseLock, BalanceRead, PostArrive, PutArrive, DeleteRead,
       BackfillRead, Start
  <2>4. ~(PostCommit(r) \/ PutCommit(r) \/ DeleteCommit(r) \/ CloseCommit(r))
    BY <1>1 DEF PostCommit, PutCommit, DeleteCommit, CloseCommit
  <2>5. ~(DeleteRow(r) \/ BackfillReadMissing(r))
    BY <1>1 DEF DeleteRow, BackfillReadMissing
  <2> QED
    BY <1>1, <2>2, <2>3, <2>4, <2>5 DEF Step, Advance, BalancePersist, BackfillPrice,
       BalanceSkip, BackfillSeed, BackfillSkip
<1>3. req'[r].share = req[r].share
  <2>1. req'[r] = [req[r] EXCEPT !.stage = "put_locked", !.seen = row[Pos(r)].qty]
    BY <1>2 DEF PutLock, Becomes, IInv, Typed, TypeOK
  <2> QED
    BY <2>1, RequestTyped DEF IInv, Request
<1> QED
  BY <1>2, <1>3 DEF PutLock

(* The initial states hold nothing.                                          *)
LEMMA InitDInv == Init => DInv
BY InitIInv DEF Init, DInv, OneShareHolder, Idle, ForTasks

(* Every step leaves a share with one holder.                                *)
LEMMA NextDInv == DInv /\ [Next]_vars => DInv'
<1> SUFFICES ASSUME DInv, [Next]_vars PROVE DInv'
  OBVIOUS
<1>1. IInv'
  BY NextIInv DEF DInv
<1>2. ASSUME NEW r \in Requests, Step(r)
      PROVE  OneShareHolder'
  <2>1. \A o \in Requests \ {r} : req'[o] = req[o]
    BY <1>2, OnlyOwnRequest DEF DInv, IInv
  <2>2. req'[r].stage = "put_locked" => ~ShareLocked(req'[r].share)
    BY <1>2, ShareHasJustBeenLocked DEF DInv
  <2> QED
    BY <2>1, <2>2 DEF DInv, OneShareHolder, ShareLocked
<1>3. ASSUME NEW r \in Requests, Respond(r)
      PROVE  OneShareHolder'
  <2>1. \A o \in Requests \ {r} : req'[o] = req[o]
    BY <1>3, OnlyOwnRequest DEF DInv, IInv
  <2>2. req'[r].stage # "put_locked"
    BY <1>3 DEF Respond, Becomes, DInv, IInv, Typed, TypeOK, Idle, ForTasks
  <2> QED
    BY <2>1, <2>2 DEF DInv, OneShareHolder
<1>4. CASE UNCHANGED vars
  BY <1>1, <1>4 DEF vars, DInv, OneShareHolder
<1> QED
  BY <1>1, <1>2, <1>3, <1>4, Steps DEF DInv, Step

(* Who holds a row or a share and waits waits for the deletion of its user, *)
(* or for the one who holds its share.                                      *)
LEMMA HolderWaits ==
  ASSUME NEW r \in Requests, NEW o \in Requests, Holds(r), WaitsFor(r, o)
  PROVE  Deadlocked(r, o) \/ HoldsShare(o, req[r].share)
BY DEF Holds, WaitsFor, WaitsForRow, WaitsForReference, HoldsUser, Records, Deadlocked

(* Among requests that all wait for one another, a holder is in a deadlock  *)
(* with the deletion of its account or waits for one that is.               *)
LEMMA StuckHolder ==
  ASSUME DInv, NEW stuck \in SUBSET Requests,
         \A r \in stuck : \E o \in stuck : WaitsFor(r, o),
         NEW h \in stuck, Holds(h)
  PROVE  \E r, c \in stuck : Deadlocked(r, c)
<1>1. PICK o \in stuck : WaitsFor(h, o)
  OBVIOUS
<1>2. CASE Deadlocked(h, o)
  BY <1>2
<1>3. CASE HoldsShare(o, req[h].share)
  <2>1. PICK c \in stuck : WaitsFor(o, c)
    OBVIOUS
  <2>2. Holds(o) /\ req[o].stage = "put_locked"
    BY <1>3 DEF HoldsShare, Holds
  <2>3. ~HoldsShare(c, req[o].share)
    BY <2>1, <2>2 DEF DInv, OneShareHolder, HoldsShare, WaitsFor
  <2>4. Deadlocked(o, c)
    BY <2>1, <2>2, <2>3, HolderWaits
  <2> QED
    BY <2>4
<1> QED
  BY <1>1, <1>2, <1>3, HolderWaits

(* Any of them waits for a holder, or for the deletion of an account, which *)
(* waits for a holder itself.                                               *)
LEMMA StuckPair ==
  ASSUME DInv, NEW stuck \in (SUBSET Requests) \ {{}},
         \A r \in stuck : \E o \in stuck : WaitsFor(r, o)
  PROVE  \E r, c \in stuck : Deadlocked(r, c)
<1>0. stuck # {}
  OBVIOUS
<1>1. PICK r \in stuck : TRUE
  BY <1>0
<1>2. PICK o \in stuck : WaitsFor(r, o)
  OBVIOUS
<1>3. Holds(o) \/ req[o].stage = "closing"
  BY <1>2 DEF WaitsFor, WaitsForRow, WaitsForReference, HoldsRow, HoldsShare, HoldsUser,
     Holds
<1>4. CASE req[o].stage = "closing"
  <2>1. PICK h \in stuck : WaitsFor(o, h)
    OBVIOUS
  <2>2. Holds(h)
    BY <1>4, <2>1 DEF WaitsFor, WaitsForRow, WaitsForReference, HoldsRow, Records, Holds
  <2> QED
    BY <2>2, StuckHolder
<1> QED
  BY <1>3, <1>4, StuckHolder

(* The only deadlocks are those of a PUT or DELETE with the deletion of its *)
(* own account, for any number of requests, users and shares.               *)
THEOREM DeadlocksAreOfClosings == Spec => []OnlyClosingDeadlocks
<1>1. DInv => OnlyClosingDeadlocks
  BY StuckPair DEF OnlyClosingDeadlocks
<1>2. Spec => []DInv
  BY InitDInv, NextDInv, PTL DEF Spec
<1> QED
  BY <1>1, <1>2, PTL

(* Whenever requests are in flight, one of them waits for nobody, or a PUT  *)
(* or DELETE and the deletion of its account are in the one deadlock that   *)
(* the database breaks: nothing else can bring the ledger to a halt.        *)
SomebodyGoesOn ==
    (\E r \in Requests : req[r].stage # "idle")
        => \/ \E r \in Requests : /\ req[r].stage # "idle"
                                 /\ ~\E o \in Requests : WaitsFor(r, o)
           \/ \E r, c \in Requests : Deadlocked(r, c)

(* If everybody in flight waited, they would be stuck together: who is      *)
(* waited for holds a lock and is in flight as well.                        *)
THEOREM NothingHalts == Spec => []SomebodyGoesOn
<1>1. ASSUME OnlyClosingDeadlocks
      PROVE  SomebodyGoesOn
  <2> DEFINE flying == {r \in Requests : req[r].stage # "idle"}
  <2>1. \A r, o \in Requests : WaitsFor(r, o) => o \in flying
    BY DEF WaitsFor, WaitsForRow, WaitsForReference, HoldsRow, HoldsShare, HoldsUser
  <2>2. SUFFICES ASSUME flying # {}, \A r \in flying : \E o \in Requests : WaitsFor(r, o)
                 PROVE  \E r, c \in Requests : Deadlocked(r, c)
    BY DEF SomebodyGoesOn
  <2>3. \A r \in flying : \E o \in flying : WaitsFor(r, o)
    BY <2>1, <2>2
  <2>4. flying \in (SUBSET Requests) \ {{}}
    BY <2>2
  <2> HIDE DEF flying
  <2>5. \E r, c \in flying : Deadlocked(r, c)
    BY <1>1, <2>3, <2>4 DEF OnlyClosingDeadlocks
  <2> QED
    BY <2>4, <2>5
<1> QED
  BY <1>1, DeadlocksAreOfClosings, PTL

------------------------------------------------------------------------------
(* Refinement: under the same condition Portfolio implements HoldingsLedger. *)

(* The quantities of requests and rows are those of HoldingsLedger.          *)
Bounded == /\ \A r \in Requests : req[r].qty \in 0 .. MaxQty
           /\ \A p \in Positions : row[p].qty \in 0 .. MaxQty

RInv == XInv /\ LedgerMatchesHolding /\ Bounded

held == [p \in Positions |-> row[p].qty]

(* A step of a request leaves it with a quantity within the bound.           *)
LEMMA RequestBounded ==
  ASSUME RInv, NEW r \in Requests, Step(r) \/ Respond(r)
  PROVE  req'[r].qty \in 0 .. MaxQty
<1>0. 0 \in 0 .. MaxQty /\ req[r].qty \in 0 .. MaxQty
  BY DEF RInv, Bounded
<1>1. ASSUME NEW x, Becomes(r, x)
      PROVE  req'[r] = x
  BY <1>1 DEF Becomes, RInv, XInv, IInv, Typed, TypeOK
<1>2. CASE Respond(r) \/ Answer(r) \/ PostCommit(r) \/ PutCommit(r) \/ DeleteCommit(r)
           \/ CloseCommit(r)
  <2>1. Respond(r)
    BY <1>2 DEF Answer, PostReject, PutMissing, DeleteGone, BalanceDone, BackfillDone,
       Fail, PostCommit, PutCommit, DeleteCommit, CloseCommit
  <2> QED
    BY <1>0, <1>1, <2>1 DEF Respond, Idle, ForTasks
<1>3. CASE Arrive(r)
  <2>1. ASSUME NEW u \in Users, CloseLock(r, u) \/ BalanceRead(r, u)
        PROVE  req'[r].qty = 0
    BY <1>1, <2>1 DEF CloseLock, BalanceRead, ForTasks
  <2>2. ASSUME NEW u \in Users, NEW s \in Shares, NEW q \in Quantities, NEW price \in Prices,
               PostArrive(r, u, s, q, price)
        PROVE  req'[r].qty \in 0 .. MaxQty
    BY <1>1, <2>2 DEF PostArrive, ForRow, Quantities
  <2>3. ASSUME NEW u \in Users, NEW s \in Shares, NEW q \in Quantities,
               NEW price \in EntryPrices, NEW gen \in 1 .. row[<<u, s>>].gen,
               PutArrive(r, u, s, gen, q, price)
        PROVE  req'[r].qty \in 0 .. MaxQty
    BY <1>1, <2>3 DEF PutArrive, ForRow, Quantities
  <2>4. ASSUME NEW u \in Users, NEW s \in Shares, NEW gen \in 1 .. row[<<u, s>>].gen,
               DeleteRead(r, u, s, gen)
        PROVE  req'[r].qty = 0
    BY <1>1, <2>4 DEF DeleteRead, ForRow
  <2>5. ASSUME BackfillRead(r)
        PROVE  req'[r].qty = 0
    BY <1>1, <2>5 DEF BackfillRead, ForTasks
  <2> QED
    BY <1>0, <1>3, <2>1, <2>2, <2>3, <2>4, <2>5 DEF Arrive
<1>4. ASSUME NEW x, NEW y, NEW z,
             \/ req'[r] = [req[r] EXCEPT !.stage = x, !.seen = y]
             \/ req'[r] = [req[r] EXCEPT !.stage = x]
             \/ req'[r] = [req[r] EXCEPT !.todo = z]
      PROVE  req'[r].qty = req[r].qty
  BY <1>4, RequestTyped DEF RInv, XInv, IInv, Request
<1>5. CASE PutLock(r) \/ DeleteRow(r)
  BY <1>0, <1>1, <1>4, <1>5 DEF PutLock, DeleteRow
<1>6. CASE BackfillReadMissing(r)
  BY <1>0, <1>1, <1>6 DEF BackfillReadMissing, ForTasks
<1>7. ASSUME NEW t \in req[r].todo,
             \/ \E price \in Prices :
                   BalancePersist(r, t, price) \/ BackfillPrice(r, t, price)
             \/ BalanceSkip(r, t) \/ BackfillSeed(r, t) \/ BackfillSkip(r, t)
      PROVE  req'[r].qty \in 0 .. MaxQty
  <2>1. req'[r] = [req[r] EXCEPT !.todo = @ \ {t}]
    BY <1>1, <1>7 DEF BalancePersist, BackfillPrice, BalanceSkip, BackfillSeed,
       BackfillSkip, Drop
  <2> QED
    BY <1>0, <1>4, <2>1
<1> QED
  BY <1>2, <1>3, <1>5, <1>6, <1>7 DEF Step, Advance

(* A step of a request leaves the rows with quantities within the bound.     *)
LEMMA RowBounded ==
  ASSUME RInv, NEW r \in Requests, Step(r), NEW p \in Positions
  PROVE  row'[p].qty \in 0 .. MaxQty
<1>0. /\ row \in [Positions -> Row] /\ row[p].qty \in 0 .. MaxQty /\ 0 \in 0 .. MaxQty
      /\ req[r].qty \in 0 .. MaxQty /\ NoRow(p).qty = 0
  BY DEF RInv, XInv, IInv, Typed, TypeOK, Bounded, NoRow
<1>1. CASE PostCommit(r)
  BY <1>0, <1>1 DEF PostCommit
<1>2. CASE PutCommit(r)
  BY <1>0, <1>2 DEF PutCommit, Updated
<1>3. CASE DeleteCommit(r)
  BY <1>0, <1>3 DEF DeleteCommit
<1>4. CASE CloseCommit(r)
  BY <1>0, <1>4 DEF CloseCommit
<1>5. CASE Arrive(r) \/ Advance(r) \/ Answer(r)
  BY <1>0, <1>5 DEF Arrive, CloseLock, BalanceRead, PostArrive, PutArrive, DeleteRead,
     BackfillRead, Advance, PutLock, DeleteRow, BackfillReadMissing, Answer,
     PostReject, PutMissing, DeleteGone, BalanceDone, BackfillDone, Fail
<1>6. ASSUME NEW t \in req[r].todo,
             \/ \E price \in Prices :
                   BalancePersist(r, t, price) \/ BackfillPrice(r, t, price)
             \/ BalanceSkip(r, t) \/ BackfillSeed(r, t) \/ BackfillSkip(r, t)
      PROVE  row'[p].qty \in 0 .. MaxQty
  <2>1. row' = row \/ \E price \in Prices : row' = [row EXCEPT ![t.pos].price = price]
    BY <1>6 DEF BalancePersist, BackfillPrice, BalanceSkip, BackfillSeed, BackfillSkip
  <2>2. ASSUME NEW price \in Prices, row' = [row EXCEPT ![t.pos].price = price]
        PROVE  row'[p].qty = row[p].qty
    <3>1. [row EXCEPT ![t.pos].price = price][p].qty = row[p].qty
      BY <1>0, PriceOnly
    <3> QED
      BY <2>2, <3>1
  <2> QED
    BY <1>0, <2>1, <2>2
<1> QED
  BY <1>1, <1>2, <1>3, <1>4, <1>5, <1>6 DEF Step

(* Every step keeps the quantities within the bound.                         *)
LEMMA BoundedKept ==
  ASSUME RInv, [Next]_vars
  PROVE  Bounded'
<1>1. ASSUME NEW r \in Requests, Step(r) \/ (Respond(r) /\ UNCHANGED <<active, row, net>>)
      PROVE  Bounded'
  <2>1. \A o \in Requests \ {r} : req'[o] = req[o]
    BY <1>1, OnlyOwnRequest DEF RInv, XInv, IInv
  <2>2. req'[r].qty \in 0 .. MaxQty
    BY <1>1, RequestBounded
  <2>3. \A p \in Positions : row'[p].qty \in 0 .. MaxQty
    BY <1>1, RowBounded DEF RInv, Bounded
  <2> QED
    BY <2>1, <2>2, <2>3 DEF RInv, Bounded
<1>2. CASE UNCHANGED vars
  BY <1>2 DEF vars, RInv, Bounded
<1> QED
  BY <1>1, <1>2, Steps DEF Step

(* A commit is a Hold of the abstract ledger, the end of an account is a    *)
(* CloseAccount, every other step is invisible there.                       *)
LEMMA StepRefines ==
  ASSUME Exact, RInv, NEW r \in Requests, Step(r)
  PROVE  [Holdings!Next]_(Holdings!vars)
<1>0. /\ row \in [Positions -> Row] /\ net \in [Positions -> Int]
      /\ net = held /\ held \in [Positions -> 0 .. MaxQty]
      /\ \A p \in Positions : held[p] = row[p].qty /\ NoRow(p).qty = 0
  BY DEF RInv, XInv, IInv, Typed, TypeOK, LedgerMatchesHolding, Bounded, held, NoRow, Row
<1>1. ASSUME UNCHANGED <<active, net>>, held' = held
      PROVE  [Holdings!Next]_(Holdings!vars)
  BY <1>1 DEF Holdings!vars, held
<1>2. ASSUME NEW p \in Positions, NEW new \in Row, new.qty \in 0 .. MaxQty,
             p[1] \in active, UNCHANGED active,
             row' = [row EXCEPT ![p] = new],
             net' = [net EXCEPT ![p] = @ + (new.qty - row[p].qty)]
      PROVE  [Holdings!Next]_(Holdings!vars)
  <2>1. held' = [held EXCEPT ![p] = new.qty]
    BY <1>0, <1>2 DEF held
  <2>2. Holdings!Hold(p, new.qty)
    BY <1>0, <1>2, <2>1 DEF Holdings!Hold, held
  <2> QED
    BY <1>2, <2>2 DEF Holdings!Next, Holdings!Positions, Positions
<1>3. CASE Arrive(r) \/ Advance(r) \/ Answer(r)
  <2>1. UNCHANGED <<active, row, net>>
    BY <1>3 DEF Arrive, CloseLock, BalanceRead, PostArrive, PutArrive, DeleteRead,
       BackfillRead, Advance, PutLock, DeleteRow, BackfillReadMissing, Answer,
       PostReject, PutMissing, DeleteGone, BalanceDone, BackfillDone, Fail
  <2> QED
    BY <1>1, <2>1 DEF held
<1>4. CASE PostCommit(r)
  <2> DEFINE new == [gen |-> row[Pos(r)].gen + 1, qty |-> req[r].qty,
                     price |-> req[r].price]
  <2>1. /\ Pos(r) \in Positions /\ req[r].qty \in 0 .. MaxQty
        /\ req[r].price \in EntryPrices /\ row[Pos(r)].gen \in Nat
    BY <1>4, RequestTyped, RowTyped DEF PostCommit, RInv, XInv, IInv, Bounded, OnPosition
  <2>2. new \in Row /\ new.qty = req[r].qty
    BY <2>1 DEF Row
  <2>3. Pos(r)[1] \in active /\ row[Pos(r)].qty = 0 /\ UNCHANGED active
    BY <1>0, <1>4, <2>1 DEF PostCommit, Pos, Exists, Row
  <2>4. net' = [net EXCEPT ![Pos(r)] = @ + (new.qty - row[Pos(r)].qty)]
    <3>1. net[Pos(r)] \in Int /\ req[r].qty \in Int
      BY <1>0, <2>1
    <3>2. net[Pos(r)] + (new.qty - row[Pos(r)].qty) = net[Pos(r)] + req[r].qty
      BY <2>2, <2>3, <3>1
    <3>3. net' = [net EXCEPT ![Pos(r)] = net[Pos(r)] + req[r].qty]
      BY <1>4 DEF PostCommit
    <3> HIDE DEF new
    <3> QED
      BY <3>2, <3>3
  <2>5. row' = [row EXCEPT ![Pos(r)] = new]
    BY <1>4 DEF PostCommit
  <2> HIDE DEF new
  <2> QED
    BY <1>2, <2>1, <2>2, <2>3, <2>4, <2>5
<1>5. CASE PutCommit(r)
  <2>0. Holds(r) /\ req[r].seen = row[Pos(r)].qty
    BY <1>5 DEF PutCommit, Holds, RInv, XInv, IInv, LockedRowIsStable
  <2>1. /\ Pos(r) \in Positions /\ req[r].qty \in 0 .. MaxQty
        /\ req[r].price \in EntryPrices /\ row[Pos(r)] \in Row
        /\ Pos(r)[1] \in active
    BY <1>0, <2>0, RequestTyped, HeldRowHasOwner DEF RInv, XInv, IInv, Bounded, Pos
  <2>2. Updated(r) \in Row /\ Updated(r).qty = req[r].qty
    BY <2>1 DEF Row, Updated
  <2>3. /\ UNCHANGED active
        /\ net' = [net EXCEPT ![Pos(r)] = @ + (Updated(r).qty - row[Pos(r)].qty)]
        /\ row' = [row EXCEPT ![Pos(r)] = Updated(r)]
    BY <1>5, <2>0, <2>2 DEF PutCommit
  <2> QED
    BY <1>2, <2>1, <2>2, <2>3
<1>6. CASE DeleteCommit(r)
  <2>0. Holds(r) /\ UNCHANGED active
    BY <1>6 DEF DeleteCommit, Holds
  <2>1. Pos(r) \in Positions /\ Pos(r)[1] \in active /\ NoRow(Pos(r)) \in Row
    BY <2>0, HeldRowHasOwner, RowTyped DEF RInv, XInv, IInv, Pos
  <2>2. req[r].seen = row[Pos(r)].qty
    <3>1. "put" \notin Kinds
      BY <1>6 DEF Exact, RInv, XInv, KindsServed, DeleteCommit
    <3> QED
      BY <1>6, <2>0, <3>1 DEF RInv, XInv, IInv, SeenIsCurrent, Deleting, HeldRowExists,
         DeleteCommit
  <2>3. /\ row' = [row EXCEPT ![Pos(r)] = NoRow(Pos(r))]
        /\ net' = [net EXCEPT ![Pos(r)] = @ + (NoRow(Pos(r)).qty - row[Pos(r)].qty)]
        /\ NoRow(Pos(r)).qty \in 0 .. MaxQty
    <3>1. net[Pos(r)] \in Int /\ row[Pos(r)].qty \in Nat /\ NoRow(Pos(r)).qty = 0
      BY <1>0, <2>1 DEF Row
    <3>2. net[Pos(r)] - row[Pos(r)].qty = net[Pos(r)] + (0 - row[Pos(r)].qty)
      BY <3>1
    <3>3. /\ row' = [row EXCEPT ![Pos(r)] = NoRow(Pos(r))]
          /\ net' = [net EXCEPT ![Pos(r)] = net[Pos(r)] - row[Pos(r)].qty]
      BY <1>6, <2>2 DEF DeleteCommit
    <3>4. net[Pos(r)] + (NoRow(Pos(r)).qty - row[Pos(r)].qty)
            = net[Pos(r)] - row[Pos(r)].qty
      BY <3>1
    <3>5. net' = [net EXCEPT ![Pos(r)] = @ + (NoRow(Pos(r)).qty - row[Pos(r)].qty)]
      BY <3>3, <3>4
    <3>6. NoRow(Pos(r)).qty \in 0 .. MaxQty
      BY <3>1
    <3> QED
      BY <3>3, <3>5, <3>6
  <2> QED
    BY <1>2, <2>0, <2>1, <2>3
<1>7. CASE CloseCommit(r)
  <2> DEFINE u == req[r].user
  <2>1. /\ active' = active \ {u}
        /\ row' = [p \in Positions |-> IF p[1] = u THEN NoRow(p) ELSE row[p]]
        /\ net' = [p \in Positions |-> IF p[1] = u THEN 0 ELSE net[p]]
    BY <1>7 DEF CloseCommit
  <2>2. held' = [p \in Positions |-> IF p[1] = u THEN 0 ELSE held[p]]
    BY <1>0, <2>1 DEF held
  <2>3. CASE u \in active
    <3>1. PICK v \in active : v = u
      BY <2>3
    <3> HIDE DEF u
    <3>2. Holdings!CloseAccount(v)
      BY <2>1, <2>2, <3>1 DEF Holdings!CloseAccount, Holdings!Positions, Positions, held
    <3> QED
      BY <3>2 DEF Holdings!Next
  <2>4. CASE u \notin active
    <3>1. \A p \in Positions : p[1] = u => held[p] = 0 /\ net[p] = 0
      BY <1>0, <2>4 DEF RInv, XInv, IInv, NothingSurvivesTheAccount
    <3>2. held' = held /\ net' = net /\ active' = active
      BY <1>0, <2>1, <2>2, <2>4, <3>1
    <3> QED
      BY <1>1, <3>2
  <2> QED
    BY <2>3, <2>4
<1>8. ASSUME NEW t \in req[r].todo,
             \/ \E price \in Prices :
                   BalancePersist(r, t, price) \/ BackfillPrice(r, t, price)
             \/ BalanceSkip(r, t) \/ BackfillSkip(r, t)
      PROVE  [Holdings!Next]_(Holdings!vars)
  <2>1. /\ UNCHANGED <<active, net>>
        /\ row' = row \/ \E price \in Prices : row' = [row EXCEPT ![t.pos].price = price]
    BY <1>8 DEF BalancePersist, BackfillPrice, BalanceSkip, BackfillSkip
  <2>2. ASSUME NEW price \in Prices, row' = [row EXCEPT ![t.pos].price = price],
               NEW p \in Positions
        PROVE  row'[p].qty = row[p].qty
    <3>1. [row EXCEPT ![t.pos].price = price][p].qty = row[p].qty
      BY <1>0, PriceOnly
    <3> QED
      BY <2>2, <3>1
  <2>3. held' = held
    BY <2>1, <2>2 DEF held
  <2> QED
    BY <1>1, <2>1, <2>3
<1>9. ASSUME NEW t \in req[r].todo, BackfillSeed(r, t)
      PROVE  FALSE
  BY <1>9 DEF Exact, RInv, XInv, KindsServed, BackfillSeed
<1> QED
  BY <1>3, <1>4, <1>5, <1>6, <1>7, <1>8, <1>9 DEF Step

(* An initial state is one of HoldingsLedger.                                *)
LEMMA InitRefines ==
  ASSUME Exact, Init
  PROVE  RInv /\ Holdings!Init
<1>1. XInv /\ LedgerMatchesHolding
  BY InitXInv DEF Exact, Init, LedgerMatchesHolding
<1>2. ASSUME NEW p \in Positions
      PROVE  row[p].qty \in 0 .. MaxQty
  BY DEF Init, Quantities
<1>3. Bounded
  BY <1>2 DEF Init, Bounded, Idle, ForTasks
<1>4. net = held /\ held \in [Positions -> 0 .. MaxQty]
  BY <1>2 DEF Exact, Init, held
<1> QED
  BY <1>1, <1>3, <1>4 DEF RInv, Holdings!Init, Holdings!Positions, Positions, held, Init

(* A step is a step of HoldingsLedger or invisible there.                    *)
LEMMA NextRefines ==
  ASSUME Exact, RInv, [Next]_vars
  PROVE  RInv' /\ [Holdings!Next]_(Holdings!vars)
<1>1. RInv'
  BY NextXInv, LedgerKept, BoundedKept DEF RInv
<1>2. ASSUME UNCHANGED <<active, row, net>>
      PROVE  [Holdings!Next]_(Holdings!vars)
  BY <1>2 DEF Holdings!vars
<1> QED
  BY <1>1, <1>2, StepRefines, Steps DEF Step, vars

(* Portfolio implements HoldingsLedger: every change of a holding is one    *)
(* instant at which row and ledger move together, for accounts that exist.  *)
THEOREM Refinement == Exact => (Spec => ImplementsHoldings)
<1> SUFFICES ASSUME Exact PROVE Spec => ImplementsHoldings
  OBVIOUS
<1>1. Init => RInv /\ Holdings!Init
  BY InitRefines
<1>2. RInv /\ [Next]_vars => RInv' /\ [Holdings!Next]_(Holdings!vars)
  BY NextRefines
<1> QED
  BY <1>1, <1>2, PTL DEF Spec, ImplementsHoldings, Holdings!Spec
==============================================================================
