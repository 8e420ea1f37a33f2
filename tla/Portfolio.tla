------------------------------ MODULE Portfolio ------------------------------
(***************************************************************************)
(* The declared portfolio of the users of FinanciAr: the rows of           *)
(* user_shares, the buy/sell ledger user_share_operations that every       *)
(* change of a holding must also be written to, and the requests that      *)
(* change them while others run: POST, PUT and DELETE /user/shares,        *)
(* GET /user/shares/balance (which fills missing entry prices), the admin  *)
(* backfill, and the deletion of the account.                              *)
(*                                                                         *)
(* A request is a process.  A step of a request is what it does between    *)
(* two points where another request can get in: an await on the price      *)
(* service, a lock of the database it has to wait for, or the commit of    *)
(* its transaction.  The database runs at READ COMMITTED, so the model     *)
(* keeps the committed rows and derives the row locks from the stage of    *)
(* the transactions that hold them.  Statements of one transaction that    *)
(* cannot wait for anybody are one step with its commit.                   *)
(***************************************************************************)
EXTENDS Integers

CONSTANTS
    Users,       \* accounts that exist at the start
    Shares,      \* the catalogue: rows of the table shares, never deleted
    Requests,    \* request processes, each serves one request at a time
    Prices,      \* positive prices
    NoPrice,     \* SQL NULL in entry_price, null in a payload
    None,        \* no user, no share
    MaxQty,      \* bound: largest quantity of a payload
    MaxRows,     \* bound: rows ever inserted for one user and share
    Kinds,       \* the request kinds of this instance
    Legacy       \* positions opened before the ledger existed

AllKinds == {"post", "put", "delete", "balance", "backfill", "close_account"}

Positions == Users \X Shares

ASSUME PricesAssumption == NoPrice \notin Prices
ASSUME NoneAssumption == None \notin Users /\ None \notin Shares
ASSUME BoundsAssumption == MaxQty \in Nat /\ MaxRows \in Nat
ASSUME KindsAssumption == Kinds \subseteq AllKinds
ASSUME LegacyAssumption == Legacy \subseteq Positions

VARIABLES
    active,      \* the users whose row is in the table users
    row,         \* row[p]: the user_shares row of position p; qty = 0: no row
    net,         \* net[p]: bought minus sold in the ledger for position p
    req          \* req[r]: the request that process r is serving

vars == <<active, row, net, req>>

------------------------------------------------------------------------------
(* Rows and requests.  A row's primary key is abstracted to its number      *)
(* among the rows ever inserted for its position (gen).                     *)

Stages == {"idle", "post", "put", "put_locked", "delete_read", "delete_row",
           "closing", "balance", "backfill_prices", "backfill_seed"}

EntryPrices == Prices \cup {NoPrice}

Row == [gen : Nat, qty : Nat, price : EntryPrices]

(* One row a balance or backfill request has read and not treated yet; qty  *)
(* is the quantity missing in the ledger when it was read.                  *)
Task == [pos : Positions, gen : Nat, qty : Int]

Request == [stage : Stages, user : Users \cup {None}, share : Shares \cup {None},
            gen : Nat, qty : Nat, price : EntryPrices, seen : Nat,
            todo : SUBSET Task]

(* A request for one row, and one that works through a set of rows.          *)
ForRow(stage, u, s, gen, qty, price, seen) ==
    [stage |-> stage, user |-> u, share |-> s, gen |-> gen,
     qty |-> qty, price |-> price, seen |-> seen, todo |-> {}]

ForTasks(stage, u, todo) ==
    [stage |-> stage, user |-> u, share |-> None, gen |-> 0,
     qty |-> 0, price |-> NoPrice, seen |-> 0, todo |-> todo]

Idle == ForTasks("idle", None, {})

Pos(r) == <<req[r].user, req[r].share>>

Exists(p) == row[p].qty > 0

IsRow(p, gen) == Exists(p) /\ row[p].gen = gen

NoRow(p) == [gen |-> row[p].gen, qty |-> 0, price |-> NoPrice]

------------------------------------------------------------------------------
(* Locks.  PUT selects its row FOR UPDATE and joins shares without an OF    *)
(* clause, so it holds the row of the share too, until it ends.  DELETE     *)
(* holds its row from the DELETE statement on.  The deletion of an account  *)
(* holds the row of the user while its cascade waits for the user's rows.   *)

(* Mutant of RowLocked: FOR UPDATE OF the row of shares alone.              *)
RowLockedByDelete(p) == \E r \in Requests : req[r].stage = "delete_row" /\ Pos(r) = p

RowLocked(p) == \E r \in Requests :
                   /\ req[r].stage \in {"put_locked", "delete_row"}
                   /\ Pos(r) = p

ShareLocked(s) == \E r \in Requests :
                     req[r].stage = "put_locked" /\ req[r].share = s

UserLocked(u) == \E r \in Requests :
                    req[r].stage = "closing" /\ req[r].user = u

(* A ledger insert references the user and the share: its foreign keys      *)
(* wait for both rows.                                                      *)
CanReference(u, s) == ~UserLocked(u) /\ ~ShareLocked(s)

(* The request r does not wait for its own lock on the share.               *)
CanRecord(r) == /\ ~UserLocked(req[r].user)
                /\ \A o \in Requests \ {r} :
                      ~(req[o].stage = "put_locked" /\ req[o].share = req[r].share)

Start(r, kind) == kind \in Kinds /\ req[r].stage = "idle"

Becomes(r, request) == req' = [req EXCEPT ![r] = request]

Respond(r) == Becomes(r, Idle)

Drop(r, t) == Becomes(r, [req[r] EXCEPT !.todo = @ \ {t}])

------------------------------------------------------------------------------
(* POST /user/shares: the ticker is in the catalogue, the price came with   *)
(* the payload or from the price service; no row has been read.             *)

PostArrive(r, u, s, q, price) ==
    /\ Start(r, "post")
    /\ Becomes(r, ForRow("post", u, s, 0, q, price, 0))
    /\ UNCHANGED <<active, row, net>>

(* Mutant of PostCommit: user_shares does not reference users.              *)
PostForAnyone(r) ==
    LET p == Pos(r) IN
    /\ req[r].stage = "post"
    /\ ~RowLocked(p) /\ ~Exists(p) /\ row[p].gen < MaxRows
    /\ row' = [row EXCEPT ![p] = [gen |-> row[p].gen + 1, qty |-> req[r].qty,
                                  price |-> req[r].price]]
    /\ net' = [net EXCEPT ![p] = @ + req[r].qty]
    /\ Respond(r)
    /\ UNCHANGED active

(* INSERT the row, record the buy, commit.                                  *)
PostCommit(r) ==
    LET p == Pos(r) IN
    /\ req[r].stage = "post"
    /\ CanReference(req[r].user, req[r].share)
    /\ ~RowLocked(p)
    /\ req[r].user \in active
    /\ ~Exists(p)
    /\ row[p].gen < MaxRows
    /\ row' = [row EXCEPT ![p] = [gen |-> row[p].gen + 1, qty |-> req[r].qty,
                                  price |-> req[r].price]]
    /\ net' = [net EXCEPT ![p] = @ + req[r].qty]
    /\ Respond(r)
    /\ UNCHANGED active

(* 409 for a position that exists (UNIQUE), 500 for a user that is gone     *)
(* (foreign key); the bound MaxRows also ends here.                         *)
PostReject(r) ==
    LET p == Pos(r) IN
    /\ req[r].stage = "post"
    /\ ~RowLocked(p)
    /\ \/ Exists(p)
       \/ req[r].user \notin active
       \/ row[p].gen >= MaxRows
    /\ Respond(r)
    /\ UNCHANGED <<active, row, net>>

------------------------------------------------------------------------------
(* PUT /user/shares/{id}: a transaction from the SELECT ... FOR UPDATE to   *)
(* the commit, with the call to the price service inside.                   *)

PutArrive(r, u, s, gen, q, price) ==
    /\ Start(r, "put")
    /\ Becomes(r, ForRow("put", u, s, gen, q, price, 0))
    /\ UNCHANGED <<active, row, net>>

(* Mutant of PutLock: the row of the share is locked FOR SHARE, so that two  *)
(* transactions can hold it.                                                *)
PutLockShared(r) ==
    /\ req[r].stage = "put"
    /\ ~RowLocked(Pos(r))
    /\ IsRow(Pos(r), req[r].gen)
    /\ Becomes(r, [req[r] EXCEPT !.stage = "put_locked", !.seen = row[Pos(r)].qty])
    /\ UNCHANGED <<active, row, net>>

PutLock(r) ==
    LET p == Pos(r) IN
    /\ req[r].stage = "put"
    /\ ~RowLocked(p)
    /\ ~ShareLocked(req[r].share)
    /\ IsRow(p, req[r].gen)
    /\ Becomes(r, [req[r] EXCEPT !.stage = "put_locked", !.seen = row[p].qty])
    /\ UNCHANGED <<active, row, net>>

(* 404: the SELECT finds no row with that id for that user.                 *)
PutMissing(r) ==
    /\ req[r].stage = "put"
    /\ ~RowLocked(Pos(r))
    /\ ~IsRow(Pos(r), req[r].gen)
    /\ Respond(r)
    /\ UNCHANGED <<active, row, net>>

(* Mutant of Updated: the difference is stored, not the quantity.           *)
UpdatedByDifference(r) == [gen |-> row[Pos(r)].gen,
                           qty |-> req[r].qty - req[r].seen,
                           price |-> req[r].price]

(* The row with the new quantity and COALESCE(payload price, entry_price).  *)
Updated(r) == [gen |-> row[Pos(r)].gen,
               qty |-> req[r].qty,
               price |-> IF req[r].price = NoPrice THEN row[Pos(r)].price
                                                   ELSE req[r].price]

(* Mutant of PutCommit: the whole quantity is recorded as a buy.            *)
PutRecordsTotal(r) ==
    /\ req[r].stage = "put_locked"
    /\ req[r].qty # req[r].seen => CanRecord(r)
    /\ row' = [row EXCEPT ![Pos(r)] = Updated(r)]
    /\ net' = [net EXCEPT ![Pos(r)] = @ + req[r].qty]
    /\ Respond(r)
    /\ UNCHANGED active

(* UPDATE the row, record the difference of quantity as a buy or a sell     *)
(* unless it is zero, commit.                                               *)
PutCommit(r) ==
    LET p == Pos(r) IN
    /\ req[r].stage = "put_locked"
    /\ req[r].qty # req[r].seen => CanRecord(r)
    /\ row' = [row EXCEPT ![p] = Updated(r)]
    /\ net' = [net EXCEPT ![p] = @ + (req[r].qty - req[r].seen)]
    /\ Respond(r)
    /\ UNCHANGED active

------------------------------------------------------------------------------
(* DELETE /user/shares/{id}: the row is read without a lock, the price is   *)
(* awaited, and only then the transaction starts.                           *)

DeleteRead(r, u, s, gen) ==
    /\ Start(r, "delete")
    /\ IsRow(<<u, s>>, gen)
    /\ Becomes(r, ForRow("delete_read", u, s, gen, 0, NoPrice, row[<<u, s>>].qty))
    /\ UNCHANGED <<active, row, net>>

DeleteRow(r) ==
    /\ req[r].stage = "delete_read"
    /\ ~RowLocked(Pos(r))
    /\ IsRow(Pos(r), req[r].gen)
    /\ Becomes(r, [req[r] EXCEPT !.stage = "delete_row"])
    /\ UNCHANGED <<active, row, net>>

(* Mutant of DeleteGone: no 404, the DELETE is tried again.                 *)
DeleteTriesAgain(r) ==
    /\ req[r].stage = "delete_read"
    /\ ~RowLocked(Pos(r)) /\ ~IsRow(Pos(r), req[r].gen)
    /\ UNCHANGED vars

(* No row affected: deleted by a concurrent request, 404.                   *)
DeleteGone(r) ==
    /\ req[r].stage = "delete_read"
    /\ ~RowLocked(Pos(r))
    /\ ~IsRow(Pos(r), req[r].gen)
    /\ Respond(r)
    /\ UNCHANGED <<active, row, net>>

(* Record the sale of the quantity read at the start, commit.               *)
DeleteCommit(r) ==
    LET p == Pos(r) IN
    /\ req[r].stage = "delete_row"
    /\ CanRecord(r)
    /\ row' = [row EXCEPT ![p] = NoRow(p)]
    /\ net' = [net EXCEPT ![p] = @ - req[r].seen]
    /\ Respond(r)
    /\ UNCHANGED active

------------------------------------------------------------------------------
(* DELETE /user: one statement; the foreign keys cascade to the rows and    *)
(* the ledger of the user.                                                  *)

CloseLock(r, u) ==
    /\ Start(r, "close_account")
    /\ u \in active
    /\ ~UserLocked(u)
    /\ Becomes(r, ForTasks("closing", u, {}))
    /\ UNCHANGED <<active, row, net>>

(* Mutant of CloseCommit: the ledger does not cascade.                      *)
CloseKeepsLedger(r) ==
    /\ req[r].stage = "closing"
    /\ \A s \in Shares : ~RowLocked(<<req[r].user, s>>)
    /\ active' = active \ {req[r].user}
    /\ row' = [p \in Positions |-> IF p[1] = req[r].user THEN NoRow(p) ELSE row[p]]
    /\ Respond(r)
    /\ UNCHANGED net

CloseCommit(r) ==
    LET u == req[r].user IN
    /\ req[r].stage = "closing"
    /\ \A s \in Shares : ~RowLocked(<<u, s>>)
    /\ active' = active \ {u}
    /\ row' = [p \in Positions |-> IF p[1] = u THEN NoRow(p) ELSE row[p]]
    /\ net' = [p \in Positions |-> IF p[1] = u THEN 0 ELSE net[p]]
    /\ Respond(r)

------------------------------------------------------------------------------
(* GET /user/shares/balance: rows without entry price are completed from    *)
(* the history of the purchase day.                                         *)

Unpriced(ps) == {p \in ps : Exists(p) /\ row[p].price = NoPrice}

TaskFor(p, q) == [pos |-> p, gen |-> row[p].gen, qty |-> q]

BalanceRead(r, u) ==
    /\ Start(r, "balance")
    /\ Unpriced({u} \X Shares) # {}
    /\ Becomes(r, ForTasks("balance", u,
                           {TaskFor(p, 0) : p \in Unpriced({u} \X Shares)}))
    /\ UNCHANGED <<active, row, net>>

(* persist_entry_price: UPDATE ... WHERE id = $2, a statement of its own.   *)
BalancePersist(r, t, price) ==
    /\ req[r].stage = "balance"
    /\ t \in req[r].todo
    /\ ~RowLocked(t.pos)
    /\ row' = IF IsRow(t.pos, t.gen)
              THEN [row EXCEPT ![t.pos].price = price]
              ELSE row
    /\ Drop(r, t)
    /\ UNCHANGED <<active, net>>

(* No close on or before the purchase day, or the UPDATE failed: logged.    *)
BalanceSkip(r, t) ==
    /\ req[r].stage = "balance"
    /\ t \in req[r].todo
    /\ Drop(r, t)
    /\ UNCHANGED <<active, row, net>>

BalanceDone(r) ==
    /\ req[r].stage = "balance"
    /\ req[r].todo = {}
    /\ Respond(r)
    /\ UNCHANGED <<active, row, net>>

------------------------------------------------------------------------------
(* POST /admin/user-shares/backfill: first the entry prices of every user,  *)
(* then a buy in the ledger for what each row has that the ledger has not.  *)

BackfillRead(r) ==
    /\ Start(r, "backfill")
    /\ Becomes(r, ForTasks("backfill_prices", None,
                           {TaskFor(p, 0) : p \in Unpriced(Positions)}))
    /\ UNCHANGED <<active, row, net>>

(* Mutant of BackfillPrice: UPDATE without entry_price IS NULL.             *)
BackfillOverwrites(r, t, price) ==
    /\ req[r].stage = "backfill_prices"
    /\ t \in req[r].todo
    /\ ~RowLocked(t.pos)
    /\ row' = IF Exists(t.pos) THEN [row EXCEPT ![t.pos].price = price] ELSE row
    /\ Drop(r, t)
    /\ UNCHANGED <<active, net>>

BackfillPrice(r, t, price) ==
    /\ req[r].stage = "backfill_prices"
    /\ t \in req[r].todo
    /\ ~RowLocked(t.pos)
    /\ row' = IF t.pos \in Unpriced(Positions)
              THEN [row EXCEPT ![t.pos].price = price]
              ELSE row
    /\ Drop(r, t)
    /\ UNCHANGED <<active, net>>

(* What the ledger lacks, in one statement; rows still without a price are  *)
(* skipped.                                                                 *)
Missing == {p \in Positions : /\ row[p].qty > net[p]
                              /\ Exists(p)
                              /\ row[p].price # NoPrice}

BackfillReadMissing(r) ==
    /\ req[r].stage = "backfill_prices"
    /\ req[r].todo = {}
    /\ Becomes(r, ForTasks("backfill_seed", None,
                           {TaskFor(p, row[p].qty - net[p]) : p \in Missing}))
    /\ UNCHANGED <<active, row, net>>

BackfillSeed(r, t) ==
    /\ req[r].stage = "backfill_seed"
    /\ t \in req[r].todo
    /\ CanReference(t.pos[1], t.pos[2])
    /\ t.pos[1] \in active
    /\ net' = [net EXCEPT ![t.pos] = @ + t.qty]
    /\ Drop(r, t)
    /\ UNCHANGED <<active, row>>

(* No price for the day, or an insert that fails: the row is left for the   *)
(* next run.                                                                *)
BackfillSkip(r, t) ==
    /\ req[r].stage \in {"backfill_prices", "backfill_seed"}
    /\ t \in req[r].todo
    /\ Drop(r, t)
    /\ UNCHANGED <<active, row, net>>

BackfillDone(r) ==
    /\ req[r].stage = "backfill_seed"
    /\ req[r].todo = {}
    /\ Respond(r)
    /\ UNCHANGED <<active, row, net>>

------------------------------------------------------------------------------
(* The price service fails (502), the database fails (500), the client      *)
(* hangs up or the process stops: what was not committed is rolled back.    *)
Fail(r) ==
    /\ req[r].stage # "idle"
    /\ Respond(r)
    /\ UNCHANGED <<active, row, net>>

(* r holds a row of a user and waits for the user; c deletes the user and   *)
(* waits for the row.                                                       *)
Deadlocked(r, c) ==
    /\ \/ req[r].stage = "delete_row"
       \/ req[r].stage = "put_locked" /\ req[r].qty # req[r].seen
    /\ req[c].stage = "closing"
    /\ req[c].user = req[r].user

(* The database breaks the cycle: one of the two gets an error, 500.        *)
DeadlockAbort ==
    /\ \E r, c \in Requests :
          /\ Deadlocked(r, c)
          /\ \E victim \in {r, c} : Respond(victim)
    /\ UNCHANGED <<active, row, net>>

------------------------------------------------------------------------------
Quantities == 1 .. MaxQty

Init ==
    /\ active = Users
    /\ row \in [Positions -> [gen : {1}, qty : Quantities, price : EntryPrices]
                             \cup [gen : {0}, qty : {0}, price : {NoPrice}]]
    /\ \A p \in Positions \ Legacy : Exists(p) => row[p].price # NoPrice
    /\ net = [p \in Positions |-> IF p \in Legacy THEN 0 ELSE row[p].qty]
    /\ req = [r \in Requests |-> Idle]

Arrive(r) ==
    \/ \E u \in Users :
          \/ CloseLock(r, u)
          \/ BalanceRead(r, u)
          \/ \E s \in Shares, q \in Quantities :
                \/ \E price \in Prices : PostArrive(r, u, s, q, price)
                \/ \E price \in EntryPrices, gen \in 1 .. row[<<u, s>>].gen :
                      PutArrive(r, u, s, gen, q, price)
          \/ \E s \in Shares : \E gen \in 1 .. row[<<u, s>>].gen :
                DeleteRead(r, u, s, gen)
    \/ BackfillRead(r)

(* The steps the server takes by itself once the request is there.          *)
Serve(r) ==
    \/ PostCommit(r) \/ PostReject(r)
    \/ PutLock(r) \/ PutMissing(r) \/ PutCommit(r)
    \/ DeleteRow(r) \/ DeleteGone(r) \/ DeleteCommit(r)
    \/ CloseCommit(r)
    \/ BalanceDone(r) \/ BackfillReadMissing(r) \/ BackfillDone(r)
    \/ \E t \in req[r].todo :
          \/ \E price \in Prices : BalancePersist(r, t, price)
          \/ \E price \in Prices : BackfillPrice(r, t, price)
          \/ BalanceSkip(r, t) \/ BackfillSeed(r, t) \/ BackfillSkip(r, t)

Next == \/ \E r \in Requests : Arrive(r) \/ Serve(r) \/ Fail(r)
        \/ DeadlockAbort

Spec == Init /\ [][Next]_vars

(* A request that can go on infinitely often goes on: PostgreSQL serves its *)
(* lock queues in order, so a waiter is not overtaken for ever, and its     *)
(* deadlock detector always runs.  Nothing makes a request arrive or fail.  *)
FairSpec == /\ Spec
            /\ \A r \in Requests : SF_vars(Serve(r))
            /\ WF_vars(DeadlockAbort)

------------------------------------------------------------------------------
(* Properties                                                               *)

TypeOK ==
    /\ active \subseteq Users
    /\ row \in [Positions -> Row]
    /\ net \in [Positions -> Int]
    /\ req \in [Requests -> Request]

(* What PUT computes its buy or sell from is still the row when it commits: *)
(* nobody changes a row between its SELECT ... FOR UPDATE and its commit.   *)
LockedRowIsStable ==
    \A r \in Requests :
        req[r].stage = "put_locked" => /\ IsRow(Pos(r), req[r].gen)
                                       /\ row[Pos(r)].qty = req[r].seen

(* Deleting an account leaves neither holdings nor ledger entries behind,   *)
(* whatever requests of that user are still running.                        *)
NothingSurvivesTheAccount ==
    \A p \in Positions : p[1] \notin active => row[p].qty = 0 /\ net[p] = 0

(* The ledger replayed for a position gives the quantity the user holds.    *)
(* It is what the history endpoint relies on to rebuild past balances.      *)
LedgerMatchesHolding == \A p \in Positions : net[p] = row[p].qty

(* A step that changes a holding changes the ledger by the same quantity,   *)
(* and a step that writes the ledger changes the holding; the only others   *)
(* are the seed of the backfill, a DELETE that sells what it read before a  *)
(* PUT changed the row, and the end of the account.                         *)
SeedOf(p) == /\ row'[p] = row[p]
             /\ \E r \in Requests :
                   /\ req[r].stage = "backfill_seed"
                   /\ \E t \in req[r].todo :
                        t \notin req'[r].todo /\ t.pos = p
                                              /\ net'[p] = net[p] + t.qty

StaleSaleOf(p) == /\ row'[p].qty = 0
                  /\ \E r \in Requests :
                        /\ req[r].stage = "delete_row" /\ req'[r] = Idle
                        /\ Pos(r) = p
                        /\ req[r].seen # row[p].qty
                        /\ net'[p] = net[p] - req[r].seen

LedgerMovesWithHolding ==
    [][\A p \in Positions :
          \/ net'[p] - net[p] = row'[p].qty - row[p].qty
          \/ SeedOf(p)
          \/ StaleSaleOf(p)
          \/ p[1] \in active \ active' /\ net'[p] = 0 /\ row'[p].qty = 0]_vars

(* An entry price, once known, is never lost while its row lives (a PUT     *)
(* without a price and a backfill keep it) and changes only by a PUT that   *)
(* carries the new one, or by a balance that read the row before it was     *)
(* priced and overwrites the price that came in between.                    *)
PutSets(r, p) == /\ req[r].stage = "put_locked"
                 /\ Pos(r) = p
                 /\ row'[p].price = req[r].price

StalePriceOf(r, p) == /\ req[r].stage = "balance"
                      /\ \E t \in req[r].todo : t.pos = p /\ t.gen = row[p].gen

PriceChangesAreExplained ==
    [][\A p \in Positions :
          Exists(p) /\ row[p].price # NoPrice /\ row'[p].qty > 0
                    /\ row'[p].price # row[p].price
          => /\ row'[p].price # NoPrice
             /\ \E r \in Requests : PutSets(r, p) \/ StalePriceOf(r, p)]_vars

(* Who waits for whom: r is at a statement that needs a lock of o.  A PUT   *)
(* that leaves the quantity as it was records nothing and waits for nobody. *)
HoldsRow(o, p) == /\ req[o].stage \in {"put_locked", "delete_row"}
                  /\ Pos(o) = p

HoldsShare(o, s) == req[o].stage = "put_locked" /\ req[o].share = s

HoldsUser(o, u) == req[o].stage = "closing" /\ req[o].user = u

Records(r) == \/ req[r].stage = "delete_row"
              \/ req[r].stage = "put_locked" /\ req[r].qty # req[r].seen

WaitsForRow(r, o) ==
    \/ req[r].stage \in {"post", "put", "delete_read"} /\ HoldsRow(o, Pos(r))
    \/ req[r].stage = "closing" /\ \E s \in Shares : HoldsRow(o, <<req[r].user, s>>)
    \/ /\ req[r].stage \in {"balance", "backfill_prices"}
       /\ \E t \in req[r].todo : HoldsRow(o, t.pos)

WaitsForReference(r, o) ==
    \/ /\ req[r].stage \in {"post", "put"} \/ Records(r)
       /\ HoldsShare(o, req[r].share)
    \/ /\ req[r].stage = "post" \/ Records(r)
       /\ HoldsUser(o, req[r].user)
    \/ /\ req[r].stage = "backfill_seed"
       /\ \E t \in req[r].todo : HoldsShare(o, t.pos[2]) \/ HoldsUser(o, t.pos[1])

WaitsFor(r, o) == o # r /\ (WaitsForRow(r, o) \/ WaitsForReference(r, o))

(* Requests that all wait for one another are stuck only because a PUT or   *)
(* a DELETE and the deletion of its own account wait for each other: users  *)
(* never block one another for good, though a PUT keeps a share locked that *)
(* everybody needs, and ending one such pair is enough.                     *)
OnlyClosingDeadlocks ==
    \A stuck \in (SUBSET Requests) \ {{}} :
        (\A r \in stuck : \E o \in stuck : WaitsFor(r, o))
            => \E r, c \in stuck : Deadlocked(r, c)

(* Every request is answered: no waiter starves behind the locks and a      *)
(* deadlock with the deletion of the account is always broken.              *)
EveryRequestIsAnswered ==
    \A r \in Requests : (req[r].stage # "idle") ~> (req[r].stage = "idle")
==============================================================================
