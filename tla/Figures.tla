------------------------------- MODULE Figures -------------------------------
(***************************************************************************)
(* The figures of a portfolio, as the code computes them in three places   *)
(* from the same holdings and the same closes: profit and loss with the    *)
(* weights (pnl_logic.rs), the balance (user_share_balance_logic.rs) and   *)
(* the weekly report (reports/mod.rs).  Each leaves other holdings out of  *)
(* its sums: without a price, without an entry price, without a close of a *)
(* week ago.                                                               *)
(*                                                                         *)
(* A holding is [owner, share, qty, entry].  Amounts are integers and a    *)
(* percentage is the fraction <<part, whole>>, so that nothing is rounded. *)
(***************************************************************************)
EXTENDS Integers, FiniteSets, FiniteSetsExt

CONSTANTS
    NoAmount,   \* None of an Option<f64>
    WeekDays    \* days of a week (7)

ASSUME WeekAssumption ==
    WeekDays \in Nat \ {0} /\ NoAmount \notin Int /\ NoAmount \notin Int \X Int

Ratio(part, whole) == IF whole > 0 THEN <<part, whole>> ELSE NoAmount

------------------------------------------------------------------------------
(* Prices.  points[d] is the close of day d, for the days that have one;    *)
(* the collector gives them in any order.                                   *)

(* The last close, and the last one at least a week older than it.          *)
WeekPrices(points) ==
    LET latest == Max(DOMAIN points)
        old == {d \in DOMAIN points : d <= latest - WeekDays}
    IN  [current |-> points[latest],
         weekAgo |-> IF old = {} THEN NoAmount ELSE points[Max(old)]]

------------------------------------------------------------------------------
(* Profit and loss; price[s] is NoAmount if the share could not be priced.  *)

Priced(holdings, price) == {h \in holdings : price[h.share] # NoAmount}

(* The totals are of the holdings with both prices.                         *)
Valued(holdings, price) == {h \in Priced(holdings, price) : h.entry # NoAmount}

(* Mutant of PnlSummary: what has no entry price adds to the value.         *)
PnlSummaryOfPriced(holdings, price) ==
    LET valued == Valued(holdings, price) IN
    [invested |-> SumFunction([h \in valued |-> h.entry * h.qty]),
     value    |-> SumFunction([h \in Priced(holdings, price) |->
                                 price[h.share] * h.qty]),
     profit   |-> SumFunction([h \in valued |-> (price[h.share] - h.entry) * h.qty])]

PnlSummary(holdings, price) ==
    LET valued == Valued(holdings, price) IN
    [invested |-> SumFunction([h \in valued |-> h.entry * h.qty]),
     value    |-> SumFunction([h \in valued |-> price[h.share] * h.qty]),
     profit   |-> SumFunction([h \in valued |-> (price[h.share] - h.entry) * h.qty])]

(* compute_weights: of everything that has a price.                         *)
Weight(h, holdings, price) ==
    LET total == SumFunction([k \in Priced(holdings, price) |-> price[k.share] * k.qty])
    IN  IF price[h.share] # NoAmount THEN Ratio(price[h.share] * h.qty, total)
        ELSE NoAmount

------------------------------------------------------------------------------
(* calculate_portfolio_balance; the handler answers 502 instead if a share  *)
(* could not be priced.                                                     *)
Balance(holdings, price) ==
    LET value == SumFunction([h \in holdings |-> price[h.share] * h.qty])
        cost  == IF \E h \in holdings : h.entry = NoAmount THEN NoAmount
                 ELSE SumFunction([h \in holdings |-> h.entry * h.qty])
    IN  [value |-> value, cost |-> cost,
         profit |-> IF cost = NoAmount THEN NoAmount ELSE value - cost]

------------------------------------------------------------------------------
(* The weekly report of one owner; quote[s] is the WeekPrices of s, or      *)
(* NoAmount.                                                                *)

ReportLines(holdings, quote) == {h \in holdings : quote[h.share] # NoAmount}

(* The lines that have a close of a week ago.                               *)
Compared(holdings, quote) ==
    {h \in ReportLines(holdings, quote) : quote[h.share].weekAgo # NoAmount}

LineChange(h, quote) ==
    LET q == quote[h.share] IN Ratio(q.current - q.weekAgo, q.weekAgo)

ReportValue(holdings, quote) ==
    SumFunction([h \in ReportLines(holdings, quote) |-> quote[h.share].current * h.qty])

(* Mutant of ReportChange: today's value is that of every line.             *)
ReportChangeOfAll(holdings, quote) ==
    LET old == SumFunction([h \in Compared(holdings, quote) |->
                              quote[h.share].weekAgo * h.qty])
    IN  Ratio(ReportValue(holdings, quote) - old, old)

ReportChange(holdings, quote) ==
    LET compared == Compared(holdings, quote)
        new == SumFunction([h \in compared |-> quote[h.share].current * h.qty])
        old == SumFunction([h \in compared |-> quote[h.share].weekAgo * h.qty])
    IN  Ratio(new - old, old)
==============================================================================
