---------------------------- MODULE BalanceHistory ----------------------------
(***************************************************************************)
(* GET /user/shares/balance/history: the ledger of a user replayed into    *)
(* the holdings and the average cost of every day, valued at the closes    *)
(* of the price service.  The ledger grows by the operations of the        *)
(* handlers, recorded when they happen, and by the seeds of the backfill,  *)
(* recorded with the date of the purchase (module Portfolio).              *)
(*                                                                         *)
(* The definitions are the pure functions of the handler; the actions are  *)
(* what its inputs can become.                                             *)
(***************************************************************************)
EXTENDS Integers, SequencesExt, FiniteSetsExt

CONSTANTS
    Tickers,
    Prices,      \* positive prices, integers
    Life,        \* what a request may last between its BEGIN and its COMMIT
    MaxQty,      \* bound: largest quantity of one operation
    MaxOps,      \* bound: operations in the ledger of a ticker
    DayLength,   \* instants told apart in one day
    MaxTime      \* bound: last instant

ASSUME PricesAssumption == Prices \subseteq Nat \ {0}
ASSUME BoundsAssumption == /\ Life \in Nat /\ MaxQty \in Nat /\ MaxOps \in Nat
                           /\ DayLength \in Nat \ {0} /\ MaxTime \in Nat

VARIABLES
    now,
    ledger,     \* ledger[t]: user_share_operations in the order of created_at
    closes,     \* closes[t]: the price points of the price service
    shown,      \* the last answer: day by day what every ticker adds to it
    touched     \* the earliest day recorded on since that answer (history)

vars == <<now, ledger, closes, shown, touched>>

(* The price of a sell is recorded and never read: it is 0 here.            *)
Operation == [buy : {TRUE}, qty : 1 .. MaxQty, price : Prices, at : 0 .. MaxTime]
             \cup [buy : {FALSE}, qty : 1 .. MaxQty, price : {0}, at : 0 .. MaxTime]

(* A price point; a day has one close.                                      *)
Point == [at : 0 .. MaxTime, close : Prices]

(* day_bucket                                                               *)
Day(at) == at \div DayLength

------------------------------------------------------------------------------
(* build_checkpoints: quantity and average cost after each operation.  The  *)
(* average is the fraction num / den.                                       *)

Holding == [qty : Nat, num : Nat, den : Nat \ {0}]

Nothing == [qty |-> 0, num |-> 0, den |-> 1]

(* Mutant of Apply: what is sold out keeps its average.                     *)
ApplyKeepingCost(h, op) ==
    IF op.buy
    THEN [qty |-> h.qty + op.qty,
          num |-> h.num * h.qty + op.price * op.qty * h.den,
          den |-> h.den * (h.qty + op.qty)]
    ELSE [h EXCEPT !.qty = IF @ <= op.qty THEN 0 ELSE @ - op.qty]

(* A buy is averaged into the cost; a sell leaves the average alone, and    *)
(* nothing is left when it sells as much as there is, or more.              *)
Apply(h, op) ==
    IF op.buy
    THEN [qty |-> h.qty + op.qty,
          num |-> h.num * h.qty + op.price * op.qty * h.den,
          den |-> h.den * (h.qty + op.qty)]
    ELSE IF h.qty <= op.qty THEN Nothing ELSE [h EXCEPT !.qty = @ - op.qty]

(* What is held after the first i operations.                               *)
Replay(ops) ==
    LET after[i \in 0 .. Len(ops)] ==
            IF i = 0 THEN Nothing ELSE Apply(after[i - 1], ops[i])
    IN  after

Checkpoints(ops) ==
    LET after == Replay(ops)
    IN  [i \in DOMAIN ops |-> [day |-> Day(ops[i].at), left |-> after[i]]]

(* Mutant of HoldingsOnDay: the first checkpoint of the latest day.         *)
HoldingsOnDayFirst(cps, day) ==
    LET before == {i \in DOMAIN cps : cps[i].day <= day}
    IN  IF before = {} THEN Nothing
        ELSE cps[Min({i \in before : \A j \in before : cps[j].day <= cps[i].day})].left

(* The last checkpoint of the latest day that has one (max_by_key returns   *)
(* the last of equal elements).                                             *)
HoldingsOnDay(cps, day) ==
    LET before == {i \in DOMAIN cps : cps[i].day <= day}
    IN  IF before = {} THEN Nothing
        ELSE cps[Max({i \in before : \A j \in before : cps[j].day <= cps[i].day})].left

------------------------------------------------------------------------------
(* entry_price_for_purchase: the last point of that day or of an earlier    *)
(* one, if there is one.                                                    *)
(* Mutant of PointsUntil: the days are not compared.                        *)
PointsOfAnyDay(t, day) == closes[t]

PointsUntil(t, day) == {p \in closes[t] : Day(p.at) <= day}

HasPrice(t, day) == PointsUntil(t, day) # {}

PriceOn(t, day) ==
    (CHOOSE p \in PointsUntil(t, day) : \A q \in PointsUntil(t, day) : q.at <= p.at).close

(* Mutant of Counted: the cost of a holding counts without a price.         *)
CountedUnpriced(held, day) == {t \in Tickers : held[t].qty > 0}

(* The tickers that are part of the totals of a day.                        *)
Counted(held, day) == {t \in Tickers : held[t].qty > 0 /\ HasPrice(t, day)}

(* build_daily_timeline: what each ticker adds to the value and, with its   *)
(* average cost, to the cost of a day.                                      *)
DailyBalance(day) ==
    LET held == [t \in Tickers |-> HoldingsOnDay(Checkpoints(ledger[t]), day)]
    IN  [t \in Counted(held, day) |->
            [held  |-> held[t],
             value |-> IF HasPrice(t, day) THEN held[t].qty * PriceOn(t, day) ELSE 0]]

Operations == UNION {ToSet(ledger[t]) : t \in Tickers}

(* The days of the answer: from the first operation of the user to today.   *)
Span == {day \in 0 .. Day(now) : \E op \in Operations : Day(op.at) <= day}

------------------------------------------------------------------------------
(* What the ledger becomes; the rows are read in the order of created_at:   *)
(* an operation comes after those that are not later.                       *)

Inserted(ops, op) ==
    InsertAt(ops, 1 + Max({0} \cup {i \in DOMAIN ops : ops[i].at <= op.at}), op)

Add(t, op) ==
    /\ Len(ledger[t]) < MaxOps
    /\ ledger' = [ledger EXCEPT ![t] = Inserted(@, op)]
    /\ touched' = Min({touched, Day(op.at)})
    /\ UNCHANGED <<now, closes, shown>>

(* record_operation, by POST, PUT and DELETE.  NOW() is the begin of the    *)
(* transaction, which for a PUT is before the call to the price service, so *)
(* operations are not committed in the order of their dates.  A DELETE can  *)
(* record the sale of more than there is (StaleSaleOf in Portfolio).        *)
RecordOperation(t, op) ==
    /\ op.at <= now /\ now <= op.at + Life
    /\ Add(t, op)

(* record_operation_at, by the backfill: a buy dated when the row was made. *)
RecordOperationAt(t, op) ==
    /\ op.at <= now
    /\ op.buy
    /\ Add(t, op)

(* The price service closes a day, or never does.  External: it is assumed  *)
(* to add no point to a day that is over.                                   *)
Close(t, price) ==
    /\ \A p \in closes[t] : Day(p.at) < Day(now)
    /\ closes' = [closes EXCEPT ![t] = @ \cup {[at |-> now, close |-> price]}]
    /\ UNCHANGED <<now, ledger, shown, touched>>

(* GET /user/shares/balance/history.  The ledger is read by one statement;  *)
(* what is recorded while the prices are fetched is for the next answer.    *)
(* An error of the database or of a price leaves the old answer.            *)
Answer ==
    /\ shown' = [day \in Span |-> DailyBalance(day)]
    /\ touched' = Day(now)
    /\ UNCHANGED <<now, ledger, closes>>

Tick ==
    /\ now < MaxTime
    /\ now' = now + 1
    /\ UNCHANGED <<ledger, closes, shown, touched>>

Init ==
    /\ now = 0
    /\ ledger = [t \in Tickers |-> <<>>]
    /\ closes = [t \in Tickers |-> {}]
    /\ shown = <<>>
    /\ touched = 0

Next ==
    \/ \E t \in Tickers :
          \/ \E op \in Operation : RecordOperation(t, op) \/ RecordOperationAt(t, op)
          \/ \E price \in Prices : Close(t, price)
    \/ Answer
    \/ Tick

Spec == Init /\ [][Next]_vars

------------------------------------------------------------------------------
(* Properties                                                               *)

TypeOK ==
    /\ now \in 0 .. MaxTime
    /\ ledger \in [Tickers -> Seq(Operation)]
    /\ \A t \in Tickers : \A i, j \in DOMAIN ledger[t] :
          i < j => ledger[t][i].at <= ledger[t][j].at
    /\ closes \in [Tickers -> SUBSET Point]
    /\ DOMAIN shown \subseteq 0 .. Day(now) /\ touched \in 0 .. Day(now)

(* Reference for the holdings of a day, without replaying: what the         *)
(* operations since the most favourable moment up to the end of that day    *)
(* add up to.  It is bought minus sold as long as nothing is oversold.      *)
Signed(op) == IF op.buy THEN op.qty ELSE -op.qty

(* What the first i operations add up to, without those after the day.      *)
Net(ops, day) ==
    LET net[i \in 0 .. Len(ops)] ==
            IF i = 0 THEN 0
            ELSE net[i - 1] + IF Day(ops[i].at) <= day THEN Signed(ops[i]) ELSE 0
    IN  net

HoldingsFromLedger(ops, day) ==
    LET net == Net(ops, day)
    IN  Max({net[Len(ops)] - net[i] : i \in 0 .. Len(ops)})

(* The ledger is in order, and the timeline holds on every day what the     *)
(* ledger says of that day, also with several operations in a day, with     *)
(* backdated seeds and with sales of more than there was.                   *)
HoldingsAreTheLedger ==
    /\ TypeOK
    /\ \A t \in Tickers, day \in Span :
          HoldingsOnDay(Checkpoints(ledger[t]), day).qty
          = HoldingsFromLedger(ledger[t], day)

(* The prices a ticker was bought at up to a day.                           *)
Bought(ops, day) ==
    {ops[i].price : i \in {j \in DOMAIN ops : ops[j].buy /\ Day(ops[j].at) <= day}}

(* The average cost of a holding lies between two prices it was bought at   *)
(* up to that day, whatever was sold in between, and only a holding has a   *)
(* cost.                                                                    *)
CostIsAnAverage ==
    \A t \in Tickers, day \in Span :
        LET h      == HoldingsOnDay(Checkpoints(ledger[t]), day)
            bought == Bought(ledger[t], day)
        IN  IF h.qty = 0 THEN h.num = 0
            ELSE \E low, high \in bought :
                    low * h.den <= h.num /\ h.num <= high * h.den

(* Reference for the price of a day: the last close there is by its end.    *)
LastCloses(t, day) ==
    {p \in closes[t] : /\ Day(p.at) <= day
                       /\ \A o \in closes[t] : Day(o.at) <= day => o.at <= p.at}

(* No phantom loss: what an answer says of a day that nothing was recorded  *)
(* for since is, also after later closes and operations, what the ledger    *)
(* and the closes of now say.  It counts just the tickers of which          *)
(* something is left and that have a close, it values all that is left at   *)
(* the last close, and the profit against the average cost lies between     *)
(* those of the dearest and of the cheapest purchase until then.            *)
NoPhantomLoss ==
    \A day \in DOMAIN shown, t \in Tickers : day < touched =>
        LET left == HoldingsFromLedger(ledger[t], day)
            last == LastCloses(t, day)
        IN  /\ t \in DOMAIN shown[day] <=> left > 0 /\ last # {}
            /\ t \in DOMAIN shown[day] =>
                  LET s      == shown[day][t]
                      profit == s.value * s.held.den - s.held.qty * s.held.num
                  IN  \E p \in last, low, high \in Bought(ledger[t], day) :
                         /\ s.value = left * p.close
                         /\ left * (p.close - high) * s.held.den <= profit
                         /\ profit <= left * (p.close - low) * s.held.den

(* The past is settled: whatever prices came and whatever was recorded with *)
(* a later date, two answers agree on the days before.  Only a purchase     *)
(* seeded later or a request that midnight caught has an earlier date.      *)
PastIsSettled ==
    [][\A day \in DOMAIN shown : day < touched => shown'[day] = shown[day]]_vars
==============================================================================
