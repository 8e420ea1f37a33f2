------------------------- MODULE BalanceHistoryProofs -------------------------
(***************************************************************************)
(* Theorems of BalanceHistory, for any tickers, prices, quantities and     *)
(* lengths of a day, and for ledgers of any length.                        *)
(***************************************************************************)
EXTENDS BalanceHistory, SequenceTheorems, WellFoundedInduction, TLAPS

------------------------------------------------------------------------------
(* Induction.                                                               *)

(* Induction, for a set: what has 0 and every successor has all of Nat.     *)
LEMMA AllOfNat ==
  ASSUME NEW T, 0 \in T, \A n \in Nat : n \in T => n + 1 \in T
  PROVE  Nat \subseteq T
<1> DEFINE S == Nat \ T
           R == OpToRel(<, Nat)
<1>1. IsWellFoundedOn(R, Nat) /\ S \subseteq Nat
  BY NatLessThanWellFounded
<1>2. \A x, y \in Nat : x < y => <<x, y>> \in R
  BY DEF OpToRel
<1> HIDE DEF R
<1> SUFFICES ASSUME S # {} PROVE FALSE
  OBVIOUS
<1>3. PICK m \in S : \A n \in S : <<n, m>> \notin R
  BY <1>1, WFMin
<1>4. m \in Nat /\ m # 0 /\ m - 1 \in Nat /\ m - 1 < m
  BY <1>3
<1>5. m - 1 \in T
  BY <1>2, <1>3, <1>4
<1>6. (m - 1) + 1 \in T /\ (m - 1) + 1 = m
  BY <1>4, <1>5
<1> QED
  BY <1>3, <1>6

(* Among indices there is a last one.                                       *)
LEMMA LastIndex ==
  ASSUME NEW n \in Nat, NEW S \in SUBSET (1 .. n), S # {}
  PROVE  \E i \in S : \A j \in S : j <= i
<1> DEFINE HasLast(k) == \E i \in S : i <= k /\ \A j \in S : j <= k => j <= i
           T == {k \in Nat : (\A j \in S : ~(j <= k)) \/ HasLast(k)}
<1>1. 0 \in T
  OBVIOUS
<1>2. ASSUME NEW k \in Nat, k \in T PROVE k + 1 \in T
  <2>1. CASE k + 1 \in S
    <3>1. HasLast(k + 1)
      BY <2>1
    <3> QED
      BY <3>1
  <2>2. CASE k + 1 \notin S
    <3>1. \A j \in S : j <= k + 1 <=> j <= k
      BY <2>2
    <3>2. CASE \A j \in S : ~(j <= k)
      BY <3>1, <3>2
    <3>3. CASE HasLast(k)
      <4>1. HasLast(k + 1)
        BY <3>1, <3>3
      <4> QED
        BY <4>1
    <3> QED
      BY <1>2, <3>2, <3>3
  <2> QED
    BY <2>1, <2>2
<1>3. n \in T
  <2> HIDE DEF T
  <2> QED
    BY <1>1, <1>2, AllOfNat
<1>4. \A j \in S : j <= n
  OBVIOUS
<1> QED
  BY <1>3, <1>4

(* The maximum of a set that has one.                                       *)
LEMMA MaxIs ==
  ASSUME NEW S \in SUBSET Int, NEW m \in S, \A x \in S : x <= m
  PROVE  Max(S) = m
<1>1. m \in S /\ \A y \in S : m >= y
  OBVIOUS
<1>2. Max(S) \in S /\ \A y \in S : Max(S) >= y
  BY <1>1 DEF Max
<1>3. m \in Int /\ Max(S) \in Int /\ m <= Max(S) /\ Max(S) <= m
  BY <1>1, <1>2
<1> QED
  BY <1>3

(* Later instants are of later days.                                        *)
LEMMA DayGrows ==
  ASSUME NEW x \in Nat, NEW y \in Nat, x <= y
  PROVE  Day(x) \in Nat /\ Day(x) <= Day(y)
<1>1. \A d \in Nat \ {0} : x \div d \in Nat /\ x \div d <= y \div d
  OBVIOUS
<1> QED
  BY <1>1, BoundsAssumption DEF Day

------------------------------------------------------------------------------
(* The replay of a ledger.                                                  *)

(* The operations of a ticker, in the order of their dates.                 *)
Ledger == {ops \in Seq(Operation) :
              \A i, j \in DOMAIN ops : i < j => ops[i].at <= ops[j].at}

(* What is known of an operation.                                           *)
LEMMA OperationTyped ==
  ASSUME NEW op \in Operation
  PROVE  /\ op.qty \in Nat \ {0} /\ op.at \in Nat /\ op.at <= MaxTime
         /\ op.buy \in BOOLEAN /\ (op.buy => op.price \in Prices)
         /\ op.price \in Nat
         /\ Day(op.at) \in Nat /\ Signed(op) \in Int
<1>1. /\ op.qty \in Nat \ {0} /\ op.at \in Nat /\ op.at <= MaxTime
      /\ op.buy \in BOOLEAN /\ (op.buy => op.price \in Prices)
      /\ op.price \in Nat
  <2> DEFINE Trade(side, prices) == [buy : {side}, qty : 1 .. MaxQty,
                                     price : prices, at : 0 .. MaxTime]
  <2>1. op \in Trade(TRUE, Prices) \/ op \in Trade(FALSE, {0})
    BY DEF Operation
  <2>2. CASE op \in Trade(TRUE, Prices)
    <3>1. op.buy = TRUE /\ op.qty \in 1 .. MaxQty /\ op.price \in Prices /\ op.at \in 0 .. MaxTime
      BY <2>2
    <3>2. op.buy \in BOOLEAN /\ (op.buy => op.price \in Prices)
      BY <3>1, Zenon
    <3>3. op.price \in Nat
      BY <3>1, PricesAssumption, Zenon
    <3>4. op.qty \in Nat \ {0} /\ op.at \in Nat /\ op.at <= MaxTime
      BY <3>1, BoundsAssumption
    <3> QED
      BY <3>2, <3>3, <3>4
  <2>3. CASE op \in Trade(FALSE, {0})
    <3>1. op.buy = FALSE /\ op.qty \in 1 .. MaxQty /\ op.price = 0 /\ op.at \in 0 .. MaxTime
      BY <2>3
    <3>2. op.buy \in BOOLEAN /\ (op.buy => op.price \in Prices)
      BY <3>1, Zenon
    <3>3. op.qty \in Nat \ {0} /\ op.at \in Nat /\ op.at <= MaxTime /\ op.price \in Nat
      BY <3>1, BoundsAssumption
    <3> QED
      BY <3>2, <3>3
  <2> QED
    BY <2>1, <2>2, <2>3
<1> QED
  BY <1>1, DayGrows DEF Signed

LEMMA LedgerTyped ==
  ASSUME NEW ops \in Ledger
  PROVE  /\ ops \in Seq(Operation) /\ Len(ops) \in Nat /\ DOMAIN ops = 1 .. Len(ops)
         /\ \A i \in 1 .. Len(ops) : ops[i] \in Operation
         /\ \A i, j \in 1 .. Len(ops) : i <= j => Day(ops[i].at) <= Day(ops[j].at)
<1>1. ops \in Seq(Operation)
  BY DEF Ledger
<1>2. /\ Len(ops) \in Nat /\ DOMAIN ops = 1 .. Len(ops)
      /\ \A i \in 1 .. Len(ops) : ops[i] \in Operation
  BY <1>1, LenProperties, ElementOfSeq
<1>3. ASSUME NEW i \in 1 .. Len(ops), NEW j \in 1 .. Len(ops), i <= j
      PROVE  Day(ops[i].at) <= Day(ops[j].at)
  <2>1. ops[i].at \in Nat /\ ops[j].at \in Nat
    BY <1>2, OperationTyped
  <2>2. ops[i].at <= ops[j].at
    BY <1>2, <1>3, <2>1 DEF Ledger
  <2> QED
    BY <2>1, <2>2, DayGrows
<1> QED
  BY <1>1, <1>2, <1>3

LEMMA NothingTyped == Nothing \in Holding
BY DEF Nothing, Holding

(* An operation turns a holding into a holding.                             *)
LEMMA ApplyTyped ==
  ASSUME NEW h \in Holding, NEW op \in Operation
  PROVE  Apply(h, op) \in Holding
<1>1. h.qty \in Nat /\ h.num \in Nat /\ h.den \in Nat \ {0}
  BY DEF Holding
<1>2. op.qty \in Nat \ {0} /\ op.price \in Nat /\ op.buy \in BOOLEAN
  BY OperationTyped
<1>3. CASE op.buy
  <2>1. h.qty + op.qty \in Nat \ {0} /\ h.num * h.qty \in Nat
    BY <1>1, <1>2
  <2>2. h.den * (h.qty + op.qty) \in Nat \ {0}
    BY <1>1, <2>1
  <2>3. op.price * op.qty * h.den \in Nat
    BY <1>1, <1>2
  <2>4. h.num * h.qty + op.price * op.qty * h.den \in Nat
    BY <2>1, <2>3
  <2> QED
    BY <1>3, <2>1, <2>2, <2>4 DEF Apply, Holding
<1>4. CASE ~op.buy
  <2>1. ~(h.qty <= op.qty) => h.qty - op.qty \in Nat
    BY <1>1, <1>2
  <2> QED
    BY <1>1, <1>2, <1>4, <2>1, NothingTyped DEF Apply, Holding
<1> QED
  BY <1>2, <1>3, <1>4

(* The recursion of build_checkpoints has a value for every ledger.         *)
LEMMA ReplayIs ==
  ASSUME NEW ops \in Seq(Operation)
  PROVE  /\ Replay(ops) \in [0 .. Len(ops) -> Holding]
         /\ Replay(ops)[0] = Nothing
         /\ \A i \in 1 .. Len(ops) : Replay(ops)[i] = Apply(Replay(ops)[i - 1], ops[i])
<1> DEFINE n == Len(ops)
           Steps(f, k) == /\ f \in [0 .. k -> Holding]
                          /\ f[0] = Nothing
                          /\ \A i \in 1 .. k : f[i] = Apply(f[i - 1], ops[i])
           T == {k \in Nat : k <= n => \E f : Steps(f, k)}
<1>1. n \in Nat /\ \A i \in 1 .. n : ops[i] \in Operation
  BY LenProperties, ElementOfSeq
<1>2. 0 \in T
  <2>1. Steps([i \in 0 .. 0 |-> Nothing], 0)
    BY NothingTyped
  <2> QED
    BY <2>1
<1>3. ASSUME NEW k \in Nat, k \in T PROVE k + 1 \in T
  <2> SUFFICES ASSUME k + 1 <= n PROVE \E f : Steps(f, k + 1)
    BY <1>1
  <2>1. PICK f : Steps(f, k)
    BY <1>1, <1>3
  <2> DEFINE g == [i \in 0 .. k + 1 |-> IF i = k + 1 THEN Apply(f[k], ops[k + 1]) ELSE f[i]]
  <2>2. Apply(f[k], ops[k + 1]) \in Holding
    BY <1>1, <2>1, ApplyTyped
  <2>3. g \in [0 .. k + 1 -> Holding] /\ g[0] = Nothing
    BY <2>1, <2>2
  <2>4. ASSUME NEW i \in 1 .. k + 1 PROVE g[i] = Apply(g[i - 1], ops[i])
    <3>1. i - 1 \in 0 .. k /\ g[i - 1] = f[i - 1]
      OBVIOUS
    <3>2. CASE i = k + 1
      BY <3>1, <3>2
    <3>3. CASE i # k + 1
      BY <2>1, <3>1, <3>3
    <3> QED
      BY <3>2, <3>3
  <2>5. Steps(g, k + 1)
    BY <2>3, <2>4
  <2> QED
    BY <2>5
<1>4. n \in T
  <2> HIDE DEF T, n
  <2> QED
    BY <1>1, <1>2, <1>3, AllOfNat
<1>5. PICK f : Steps(f, n)
  BY <1>1, <1>4
<1> DEFINE Def(h) == [i \in 0 .. n |-> IF i = 0 THEN Nothing ELSE Apply(h[i - 1], ops[i])]
<1>6. f = Def(f)
  BY <1>1, <1>5
<1>7. Replay(ops) = CHOOSE h : h = Def(h)
  BY DEF Replay
<1>8. Replay(ops) = Def(Replay(ops))
  BY <1>6, <1>7
<1>9. /\ DOMAIN Replay(ops) = 0 .. n /\ Replay(ops)[0] = Nothing
      /\ \A i \in 1 .. n : Replay(ops)[i] = Apply(Replay(ops)[i - 1], ops[i])
  <2> HIDE DEF n
  <2>1. ASSUME NEW h, h = Def(h)
        PROVE  /\ DOMAIN h = 0 .. n /\ h[0] = Nothing
               /\ \A i \in 1 .. n : h[i] = Apply(h[i - 1], ops[i])
    BY <1>1, <2>1
  <2> HIDE DEF Def
  <2> QED
    BY <1>8, <2>1
<1> DEFINE U == {k \in Nat : k <= n => Replay(ops)[k] \in Holding}
<1>10. 0 \in U
  BY <1>9, NothingTyped
<1>11. ASSUME NEW k \in Nat, k \in U PROVE k + 1 \in U
  <2> SUFFICES ASSUME k + 1 <= n PROVE Replay(ops)[k + 1] \in Holding
    BY <1>1
  <2>1. Replay(ops)[k] \in Holding /\ k + 1 \in 1 .. n
    BY <1>1, <1>11
  <2>2. Replay(ops)[k + 1] = Apply(Replay(ops)[k], ops[k + 1])
    BY <1>9, <2>1
  <2> QED
    BY <1>1, <2>1, <2>2, ApplyTyped
<1>12. Nat \subseteq U
  <2> HIDE DEF U
  <2> QED
    BY <1>10, <1>11, AllOfNat
<1>13. \A k \in 0 .. n : Replay(ops)[k] \in Holding
  BY <1>1, <1>12
<1>14. Replay(ops) = [k \in 0 .. n |-> Replay(ops)[k]]
  <2> HIDE DEF n
  <2>1. ASSUME NEW h, h = Def(h) PROVE h = [k \in 0 .. n |-> h[k]]
    BY <2>1
  <2> HIDE DEF Def
  <2> QED
    BY <1>8, <2>1
<1> QED
  BY <1>9, <1>13, <1>14

(* The recursion of the reference has a value, too.                         *)
LEMMA NetIs ==
  ASSUME NEW ops \in Seq(Operation), NEW day
  PROVE  /\ Net(ops, day) \in [0 .. Len(ops) -> Int]
         /\ \A i \in 1 .. Len(ops) :
               Net(ops, day)[i] = Net(ops, day)[i - 1]
                                  + IF Day(ops[i].at) <= day THEN Signed(ops[i]) ELSE 0
<1> DEFINE n == Len(ops)
           Part(i) == IF Day(ops[i].at) <= day THEN Signed(ops[i]) ELSE 0
           Steps(f, k) == /\ f \in [0 .. k -> Int] /\ f[0] = 0
                          /\ \A i \in 1 .. k : f[i] = f[i - 1] + Part(i)
           T == {k \in Nat : k <= n => \E f : Steps(f, k)}
<1>1. n \in Nat /\ \A i \in 1 .. n : Part(i) \in Int
  BY LenProperties, ElementOfSeq, OperationTyped
<1> HIDE DEF Part
<1>2. 0 \in T
  <2>1. Steps([i \in 0 .. 0 |-> 0], 0)
    OBVIOUS
  <2> QED
    BY <2>1
<1>3. ASSUME NEW k \in Nat, k \in T PROVE k + 1 \in T
  <2> SUFFICES ASSUME k + 1 <= n PROVE \E f : Steps(f, k + 1)
    BY <1>1
  <2>1. PICK f : Steps(f, k)
    BY <1>1, <1>3
  <2> DEFINE g == [i \in 0 .. k + 1 |-> IF i = k + 1 THEN f[k] + Part(k + 1) ELSE f[i]]
  <2>2. Part(k + 1) \in Int /\ f[k] \in Int
    BY <1>1, <2>1
  <2>3. g \in [0 .. k + 1 -> Int] /\ g[0] = 0
    BY <2>1, <2>2
  <2>4. ASSUME NEW i \in 1 .. k + 1 PROVE g[i] = g[i - 1] + Part(i)
    <3>1. i - 1 \in 0 .. k /\ g[i - 1] = f[i - 1]
      OBVIOUS
    <3>2. CASE i = k + 1
      BY <3>1, <3>2
    <3>3. CASE i # k + 1
      BY <2>1, <3>1, <3>3
    <3> QED
      BY <3>2, <3>3
  <2>5. Steps(g, k + 1)
    BY <2>3, <2>4
  <2> QED
    BY <2>5
<1>4. n \in T
  <2> HIDE DEF T, n
  <2> QED
    BY <1>1, <1>2, <1>3, AllOfNat
<1>5. PICK f : Steps(f, n)
  BY <1>1, <1>4
<1> DEFINE Def(h) == [i \in 0 .. n |-> IF i = 0 THEN 0 ELSE h[i - 1] + Part(i)]
<1>6. f = Def(f)
  BY <1>1, <1>5
<1>7. Net(ops, day) = CHOOSE h : h = Def(h)
  BY DEF Net, Part
<1>8. Net(ops, day) = Def(Net(ops, day))
  BY <1>6, <1>7
<1>9. /\ Net(ops, day)[0] = 0
      /\ \A i \in 1 .. n : Net(ops, day)[i] = Net(ops, day)[i - 1] + Part(i)
      /\ Net(ops, day) = [k \in 0 .. n |-> Net(ops, day)[k]]
  <2> HIDE DEF n
  <2>1. ASSUME NEW h, h = Def(h)
        PROVE  /\ h[0] = 0 /\ \A i \in 1 .. n : h[i] = h[i - 1] + Part(i)
               /\ h = [k \in 0 .. n |-> h[k]]
    <3>1. h[0] = 0
      BY <1>1, <2>1
    <3>2. ASSUME NEW i \in 1 .. n PROVE h[i] = h[i - 1] + Part(i)
      <4>1. i \in 0 .. n /\ i # 0
        BY <1>1
      <4>2. Def(h)[i] = h[i - 1] + Part(i)
        BY <4>1
      <4> QED
        BY <2>1, <4>2
    <3>3. h = [k \in 0 .. n |-> h[k]]
      BY <2>1
    <3> QED
      BY <3>1, <3>2, <3>3
  <2> HIDE DEF Def
  <2> QED
    BY <1>8, <2>1
<1> DEFINE U == {k \in Nat : k <= n => Net(ops, day)[k] \in Int}
<1>10. 0 \in U
  BY <1>9
<1>11. ASSUME NEW k \in Nat, k \in U PROVE k + 1 \in U
  <2> SUFFICES ASSUME k + 1 <= n PROVE Net(ops, day)[k + 1] \in Int
    BY <1>1
  <2>1. Net(ops, day)[k] \in Int /\ k + 1 \in 1 .. n
    BY <1>1, <1>11
  <2>2. Net(ops, day)[k + 1] = Net(ops, day)[k] + Part(k + 1)
    BY <1>9, <2>1
  <2> QED
    BY <1>1, <2>1, <2>2
<1>12. Nat \subseteq U
  <2> HIDE DEF U
  <2> QED
    BY <1>10, <1>11, AllOfNat
<1>13. \A k \in 0 .. n : Net(ops, day)[k] \in Int
  BY <1>1, <1>12
<1> QED
  BY <1>9, <1>13 DEF Part

(* n is the number of operations up to the end of the day.                  *)
Until(ops, day, n) ==
    /\ n \in 0 .. Len(ops)
    /\ \A i \in 1 .. Len(ops) : Day(ops[i].at) <= day <=> i <= n

(* The operations up to the end of a day come first.                        *)
LEMMA UntilExists ==
  ASSUME NEW ops \in Ledger, NEW day \in Nat
  PROVE  \E n \in 0 .. Len(ops) : Until(ops, day, n)
<1> DEFINE L == Len(ops)
           S == {i \in 1 .. L : Day(ops[i].at) <= day}
<1>1. /\ L \in Nat /\ \A i \in 1 .. L : Day(ops[i].at) \in Nat
      /\ \A i, j \in 1 .. L : i <= j => Day(ops[i].at) <= Day(ops[j].at)
  BY LedgerTyped, OperationTyped
<1>2. CASE S = {}
  <2>1. Until(ops, day, 0)
    BY <1>1, <1>2 DEF Until
  <2> QED
    BY <1>1, <2>1
<1>3. CASE S # {}
  <2>1. PICK n \in S : \A j \in S : j <= n
    <3> HIDE DEF L
    <3>1. S \in SUBSET (1 .. L)
      OBVIOUS
    <3> HIDE DEF S
    <3> QED
      BY <1>1, <1>3, <3>1, LastIndex
  <2>2. \A i \in 1 .. L : i <= n => Day(ops[i].at) <= day
    BY <1>1, <2>1
  <2>3. Until(ops, day, n)
    BY <1>1, <2>1, <2>2 DEF Until
  <2> QED
    BY <1>1, <2>3
<1> QED
  BY <1>2, <1>3

(* holdings_on_day gives what is held after the last operation up to the    *)
(* end of the day, also when a day has several: max_by_key returns the last *)
(* of equal elements.                                                       *)
LEMMA HoldingsAre ==
  ASSUME NEW ops \in Ledger, NEW day \in Nat, NEW n \in 0 .. Len(ops), Until(ops, day, n)
  PROVE  HoldingsOnDay(Checkpoints(ops), day) = Replay(ops)[n]
<1> DEFINE L == Len(ops)
           cps == Checkpoints(ops)
           before == {i \in DOMAIN cps : cps[i].day <= day}
           latest == {i \in before : \A j \in before : cps[j].day <= cps[i].day}
<1>1. /\ L \in Nat /\ DOMAIN ops = 1 .. L /\ \A i \in 1 .. L : Day(ops[i].at) \in Nat
      /\ \A i, j \in 1 .. L : i <= j => Day(ops[i].at) <= Day(ops[j].at)
      /\ Replay(ops)[0] = Nothing
  BY LedgerTyped, OperationTyped, ReplayIs
<1>2. DOMAIN cps = 1 .. L
      /\ \A i \in 1 .. L : cps[i].day = Day(ops[i].at) /\ cps[i].left = Replay(ops)[i]
  BY <1>1 DEF Checkpoints
<1>3. HoldingsOnDay(cps, day) = IF before = {} THEN Nothing ELSE cps[Max(latest)].left
  BY DEF HoldingsOnDay
<1> HIDE DEF L, cps
<1>4. \A i : i \in before <=> i \in 1 .. L /\ i <= n
  BY <1>2 DEF Until, L
<1>5. CASE n = 0
  <2>1. before = {}
    BY <1>1, <1>4, <1>5
  <2> QED
    BY <1>1, <1>3, <1>5, <2>1 DEF cps
<1>6. CASE n # 0
  <2>1. n \in 1 .. L /\ n \in before
    BY <1>1, <1>4, <1>6 DEF L
  <2> HIDE DEF before
  <2>2. n \in latest
    BY <1>1, <1>2, <1>4, <2>1
  <2>3. latest \in SUBSET Int /\ \A i \in latest : i <= n
    BY <1>4
  <2> HIDE DEF latest
  <2>4. Max(latest) = n
    BY <2>2, <2>3, MaxIs
  <2> QED
    BY <1>2, <1>3, <2>1, <2>4 DEF cps
<1> QED
  BY <1>5, <1>6

------------------------------------------------------------------------------
(* The holdings and the cost of a day.                                      *)

(* An operation adds what it is worth to the quantity, which never goes     *)
(* below zero.                                                              *)
LEMMA ApplyQuantity ==
  ASSUME NEW h \in Holding, NEW op \in Operation
  PROVE  Apply(h, op).qty = IF h.qty + Signed(op) >= 0 THEN h.qty + Signed(op) ELSE 0
<1>1. h.qty \in Nat /\ op.qty \in Nat \ {0} /\ op.buy \in BOOLEAN
  BY OperationTyped DEF Holding
<1>2. CASE op.buy
  <2>1. Apply(h, op).qty = h.qty + op.qty /\ Signed(op) = op.qty
    BY <1>2 DEF Apply, Signed
  <2> QED
    BY <1>1, <2>1
<1>3. CASE ~op.buy
  <2>1. Signed(op) = -op.qty
    BY <1>3 DEF Signed
  <2>2. Apply(h, op).qty = IF h.qty <= op.qty THEN 0 ELSE h.qty - op.qty
    <3>1. CASE h.qty <= op.qty
      BY <1>3, <3>1 DEF Apply, Nothing
    <3>2. CASE ~(h.qty <= op.qty)
      <4>1. Apply(h, op) = [h EXCEPT !.qty = @ - op.qty]
        BY <1>3, <3>2 DEF Apply
      <4>2. [h EXCEPT !.qty = @ - op.qty].qty = h.qty - op.qty
        BY DEF Holding
      <4> QED
        BY <3>2, <4>1, <4>2
    <3> QED
      BY <3>1, <3>2
  <2> QED
    BY <1>1, <2>1, <2>2
<1> QED
  BY <1>1, <1>2, <1>3

(* The replay holds what the operations since the most favourable moment    *)
(* add up to: the best of the sums that end with the last operation grows   *)
(* with every operation as the replayed quantity does.                      *)
LEMMA ReplayedQuantity ==
  ASSUME NEW ops \in Ledger, NEW day \in Nat
  PROVE  HoldingsOnDay(Checkpoints(ops), day).qty = HoldingsFromLedger(ops, day)
<1> DEFINE L == Len(ops)
           after == Replay(ops)
           net == Net(ops, day)
<1>1. /\ L \in Nat /\ ops \in Seq(Operation)
      /\ \A i \in 1 .. L : ops[i] \in Operation /\ Signed(ops[i]) \in Int
  BY LedgerTyped, OperationTyped
<1>2. /\ after[0] = Nothing
      /\ \A i \in 0 .. L : after[i] \in Holding /\ after[i].qty \in Nat
      /\ \A i \in 1 .. L : after[i] = Apply(after[i - 1], ops[i])
  BY <1>1, ReplayIs DEF Holding
<1>3. /\ \A i \in 0 .. L : net[i] \in Int
      /\ \A i \in 1 .. L : net[i] = net[i - 1] + IF Day(ops[i].at) <= day
                                                 THEN Signed(ops[i]) ELSE 0
  BY <1>1, NetIs
<1>4. PICK n \in 0 .. L : Until(ops, day, n)
  BY UntilExists
<1>5. HoldingsOnDay(Checkpoints(ops), day) = after[n]
  BY <1>4, HoldingsAre
<1> DEFINE Best(k) == /\ \A i \in 0 .. k : net[k] - net[i] <= after[k].qty
                      /\ \E i \in 0 .. k : net[k] - net[i] = after[k].qty
           T == {k \in Nat : k <= n => Best(k)}
<1> HIDE DEF L, after, net
<1>6. 0 \in T
  <2>1. after[0].qty = 0 /\ net[0] - net[0] = 0
    BY <1>1, <1>2, <1>3 DEF Nothing
  <2>2. \A i \in 0 .. 0 : i = 0
    OBVIOUS
  <2>3. Best(0)
    BY <2>1, <2>2
  <2> QED
    BY <2>3
<1>7. ASSUME NEW k \in Nat, k \in T PROVE k + 1 \in T
  <2> SUFFICES ASSUME k + 1 <= n PROVE Best(k + 1)
    BY <1>1
  <2> DEFINE s == Signed(ops[k + 1])
  <2>1. k + 1 \in 1 .. L /\ k \in 0 .. L /\ k + 1 \in 0 .. L
    BY <1>1
  <2>2. s \in Int /\ net[k + 1] = net[k] + s
    <3>1. Day(ops[k + 1].at) <= day
      BY <1>4, <2>1 DEF Until, L
    <3>2. (k + 1) - 1 = k
      OBVIOUS
    <3> QED
      BY <1>1, <1>3, <2>1, <3>1, <3>2
  <2>3. after[k + 1].qty = IF after[k].qty + s >= 0 THEN after[k].qty + s ELSE 0
    <3>1. after[k + 1] = Apply(after[k], ops[k + 1])
      BY <1>2, <2>1
    <3> QED
      BY <1>1, <1>2, <2>1, <3>1, ApplyQuantity
  <2>4. after[k].qty \in Nat /\ \A i \in 0 .. k + 1 : net[i] \in Int
    BY <1>1, <1>2, <1>3, <2>1
  <2>5. Best(k)
    BY <1>1, <1>7
  <2> HIDE DEF s
  <2>6. \A i \in 0 .. k + 1 : i \in 0 .. k \/ i = k + 1
    OBVIOUS
  <2>7. \A i \in 0 .. k + 1 : net[k + 1] - net[i] <= after[k + 1].qty
    <3>1. ASSUME NEW i \in 0 .. k PROVE net[k + 1] - net[i] <= after[k + 1].qty
      <4>1. net[k] - net[i] <= after[k].qty /\ net[i] \in Int /\ net[k] \in Int
        BY <2>4, <2>5
      <4> QED
        BY <2>2, <2>3, <2>4, <4>1
    <3>2. net[k + 1] - net[k + 1] <= after[k + 1].qty
      BY <2>2, <2>3, <2>4
    <3> QED
      BY <2>6, <3>1, <3>2
  <2>8. \E i \in 0 .. k + 1 : net[k + 1] - net[i] = after[k + 1].qty
    <3>1. CASE after[k].qty + s >= 0
      <4>1. PICK i \in 0 .. k : net[k] - net[i] = after[k].qty
        BY <2>5
      <4>2. net[k + 1] - net[i] = after[k + 1].qty
        BY <2>2, <2>3, <2>4, <3>1, <4>1
      <4> QED
        BY <4>2
    <3>2. CASE ~(after[k].qty + s >= 0)
      <4>1. net[k + 1] - net[k + 1] = after[k + 1].qty /\ k + 1 \in 0 .. k + 1
        BY <2>3, <2>4, <3>2
      <4> QED
        BY <4>1
    <3> QED
      BY <3>1, <3>2
  <2> QED
    BY <2>7, <2>8
<1>8. Best(n)
  <2>1. n \in Nat
    BY <1>1
  <2>2. n \in T
    <3> HIDE DEF T
    <3> QED
      BY <1>6, <1>7, <2>1, AllOfNat
  <2> QED
    BY <2>1, <2>2
<1> DEFINE U == {k \in Nat : n <= k /\ k <= L => net[k] = net[n]}
<1>9. \A k \in n .. L : net[k] = net[n]
  <2>1. 0 \in U
    BY <1>1
  <2>2. ASSUME NEW k \in Nat, k \in U PROVE k + 1 \in U
    <3> SUFFICES ASSUME n <= k + 1, k + 1 <= L PROVE net[k + 1] = net[n]
      BY <1>1
    <3>1. CASE n = k + 1
      BY <3>1
    <3>2. CASE n # k + 1
      <4>1. n <= k /\ k + 1 \in 1 .. L /\ k \in 0 .. L /\ (k + 1) - 1 = k
        BY <1>1, <3>2
      <4>2. ~(Day(ops[k + 1].at) <= day)
        BY <1>1, <1>4, <4>1 DEF Until, L
      <4>3. net[k + 1] = net[k] + 0
        BY <1>3, <4>1, <4>2
      <4>4. net[k] = net[n] /\ net[k] \in Int
        BY <1>1, <1>3, <2>2, <4>1
      <4> QED
        BY <4>3, <4>4
    <3> QED
      BY <3>1, <3>2
  <2>3. Nat \subseteq U
    <3> HIDE DEF U
    <3> QED
      BY <2>1, <2>2, AllOfNat
  <2>4. \A k \in n .. L : k \in Nat /\ n <= k /\ k <= L
    BY <1>1
  <2> QED
    BY <2>3, <2>4
<1> DEFINE S == {net[L] - net[i] : i \in 0 .. L}
<1>10. HoldingsFromLedger(ops, day) = Max(S)
  BY DEF HoldingsFromLedger, net, L
<1>11. S \in SUBSET Int
  BY <1>1, <1>3
<1>12. n \in 0 .. L /\ L \in 0 .. L /\ net[L] = net[n] /\ net[n] \in Int /\ after[n].qty \in Nat
  BY <1>1, <1>2, <1>3, <1>9
<1>13. after[n].qty \in S
  <2>1. PICK i \in 0 .. n : net[n] - net[i] = after[n].qty
    BY <1>8
  <2> QED
    BY <1>1, <1>12, <2>1
<1>14. ASSUME NEW i \in 0 .. L PROVE net[L] - net[i] <= after[n].qty
  <2>1. CASE i <= n
    <3>1. net[n] - net[i] <= after[n].qty
      BY <1>1, <1>8, <2>1
    <3> QED
      BY <1>12, <3>1
  <2>2. CASE ~(i <= n)
    <3>1. net[i] = net[n]
      BY <1>1, <1>9, <2>2
    <3> QED
      BY <1>12, <3>1
  <2> QED
    BY <2>1, <2>2
<1>15. Max(S) = after[n].qty
  <2>1. \A x \in S : x <= after[n].qty
    BY <1>14
  <2> HIDE DEF S
  <2> QED
    BY <1>11, <1>13, <2>1, MaxIs
<1> QED
  BY <1>5, <1>10, <1>15

(* The average of a holding lies between two of the prices.                 *)
Average(h, prices) ==
    IF h.qty = 0 THEN h.num = 0
    ELSE \E low, high \in prices : low * h.den <= h.num /\ h.num <= high * h.den

(* A buy is averaged in, and a sell leaves the average or nothing.          *)
LEMMA AverageKept ==
  ASSUME NEW h \in Holding, NEW op \in Operation, NEW prices \in SUBSET Nat,
         Average(h, prices)
  PROVE  Average(Apply(h, op), IF op.buy THEN prices \cup {op.price} ELSE prices)
<1>1. h.qty \in Nat /\ h.num \in Nat /\ h.den \in Nat \ {0}
  BY DEF Holding
<1>2. op.qty \in Nat \ {0} /\ op.price \in Nat /\ op.buy \in BOOLEAN
  BY OperationTyped
<1>3. CASE op.buy
  <2> DEFINE q == h.qty
             r == op.qty
             p == op.price
             a == h.num
             d == h.den
             new == Apply(h, op)
  <2>1. new.qty = q + r /\ new.num = a * q + p * r * d /\ new.den = d * (q + r)
    BY <1>3 DEF Apply
  <2>2. new.qty # 0
    BY <1>1, <1>2, <2>1
  <2> HIDE DEF q, r, p, a, d, new
  <2>3. /\ q \in Nat /\ r \in Nat \ {0} /\ p \in Nat /\ a \in Nat /\ d \in Nat \ {0}
    BY <1>1, <1>2 DEF q, r, p, a, d
  <2>4. CASE q = 0
    <3>1. new.num = p * r * d /\ new.den = d * r
      BY <2>1, <2>3, <2>4
    <3>2. p * (d * r) = p * r * d
      BY <2>3
    <3>3. p * new.den <= new.num /\ new.num <= p * new.den
      BY <2>3, <3>1, <3>2
    <3> QED
      BY <1>3, <2>2, <3>3 DEF Average, new, p
  <2>5. CASE q # 0
    <3>1. PICK low \in prices, high \in prices : low * d <= a /\ a <= high * d
      BY <2>5 DEF Average, q, a, d
    <3>2. low \in Nat /\ high \in Nat
      OBVIOUS
    <3>3. ASSUME NEW l \in Nat, l <= low, l <= p PROVE l * new.den <= new.num
      <4>1. l * d <= a
        <5>1. l * d <= low * d
          BY <2>3, <3>2, <3>3
        <5> QED
          BY <2>3, <3>1, <3>2, <5>1
      <4>2. (l * d) * q <= a * q
        BY <2>3, <4>1
      <4>3. l * (r * d) <= p * (r * d)
        BY <2>3, <3>3
      <4>4. /\ l * (d * (q + r)) = (l * d) * q + l * (r * d)
            /\ p * r * d = p * (r * d)
        BY <2>3
      <4> QED
        BY <2>1, <2>3, <4>2, <4>3, <4>4
    <3>4. ASSUME NEW l \in Nat, high <= l, p <= l PROVE new.num <= l * new.den
      <4>1. a <= l * d
        <5>1. high * d <= l * d
          BY <2>3, <3>2, <3>4
        <5> QED
          BY <2>3, <3>1, <3>2, <5>1
      <4>2. a * q <= (l * d) * q
        BY <2>3, <4>1
      <4>3. p * (r * d) <= l * (r * d)
        BY <2>3, <3>4
      <4>4. /\ l * (d * (q + r)) = (l * d) * q + l * (r * d)
            /\ p * r * d = p * (r * d)
        BY <2>3
      <4> QED
        BY <2>1, <2>3, <4>2, <4>3, <4>4
    <3>5. \E l \in prices \cup {p} : l * new.den <= new.num
      <4>1. CASE low <= p
        BY <3>2, <3>3, <4>1
      <4>2. CASE ~(low <= p)
        BY <2>3, <3>2, <3>3, <4>2
      <4> QED
        BY <4>1, <4>2
    <3>6. \E l \in prices \cup {p} : new.num <= l * new.den
      <4>1. CASE p <= high
        BY <3>2, <3>4, <4>1
      <4>2. CASE ~(p <= high)
        BY <2>3, <3>2, <3>4, <4>2
      <4> QED
        BY <4>1, <4>2
    <3> QED
      BY <1>3, <2>2, <3>5, <3>6 DEF Average, new, p
  <2> QED
    BY <2>4, <2>5
<1>4. CASE ~op.buy
  <2>1. CASE h.qty <= op.qty
    <3>1. Apply(h, op) = Nothing
      BY <1>4, <2>1 DEF Apply
    <3> QED
      BY <3>1 DEF Average, Nothing
  <2>2. CASE ~(h.qty <= op.qty)
    <3>1. Apply(h, op) = [h EXCEPT !.qty = @ - op.qty]
      BY <1>4, <2>2 DEF Apply
    <3>2. /\ [h EXCEPT !.qty = @ - op.qty].qty = h.qty - op.qty
          /\ [h EXCEPT !.qty = @ - op.qty].num = h.num
          /\ [h EXCEPT !.qty = @ - op.qty].den = h.den
      BY DEF Holding
    <3>3. h.qty # 0 /\ h.qty - op.qty # 0
      BY <1>1, <1>2, <2>2
    <3> QED
      BY <1>4, <3>1, <3>2, <3>3 DEF Average
  <2> QED
    BY <2>1, <2>2
<1> QED
  BY <1>2, <1>3, <1>4

(* What is held on a day cost between two of the prices paid until then.    *)
LEMMA CostOfADay ==
  ASSUME NEW ops \in Ledger, NEW day \in Nat
  PROVE  Average(HoldingsOnDay(Checkpoints(ops), day), Bought(ops, day))
<1> DEFINE L == Len(ops)
           after == Replay(ops)
           Prefix(k) == {ops[i].price : i \in {j \in 1 .. k : ops[j].buy}}
<1>1. /\ L \in Nat /\ ops \in Seq(Operation) /\ DOMAIN ops = 1 .. L
      /\ \A i \in 1 .. L : /\ ops[i] \in Operation /\ ops[i].price \in Nat
                           /\ ops[i].buy \in BOOLEAN
  BY LedgerTyped, OperationTyped
<1>2. /\ after[0] = Nothing
      /\ \A i \in 0 .. L : after[i] \in Holding
      /\ \A i \in 1 .. L : after[i] = Apply(after[i - 1], ops[i])
  BY <1>1, ReplayIs
<1>3. PICK n \in 0 .. L : Until(ops, day, n)
  BY UntilExists
<1>4. HoldingsOnDay(Checkpoints(ops), day) = after[n]
  BY <1>3, HoldingsAre
<1> DEFINE T == {k \in Nat : k <= n => Average(after[k], Prefix(k))}
<1>5. Prefix(n) = Bought(ops, day)
  <2>1. {j \in 1 .. n : ops[j].buy}
        = {j \in DOMAIN ops : ops[j].buy /\ Day(ops[j].at) <= day}
    BY <1>1, <1>3 DEF Until
  <2> QED
    BY <2>1 DEF Bought
<1> HIDE DEF L, after
<1>6. 0 \in T
  BY <1>2 DEF Average, Nothing
<1>7. ASSUME NEW k \in Nat, k \in T PROVE k + 1 \in T
  <2> SUFFICES ASSUME k + 1 <= n PROVE Average(after[k + 1], Prefix(k + 1))
    BY <1>1
  <2> DEFINE op == ops[k + 1]
  <2>1. k + 1 \in 1 .. L /\ k \in 0 .. L /\ (k + 1) - 1 = k
    BY <1>1
  <2>2. /\ after[k + 1] = Apply(after[k], op) /\ after[k] \in Holding /\ op \in Operation
        /\ op.buy \in BOOLEAN
    BY <1>1, <1>2, <2>1
  <2>3. Prefix(k + 1) = IF op.buy THEN Prefix(k) \cup {op.price} ELSE Prefix(k)
    <3>1. \A j : j \in 1 .. k + 1 <=> j \in 1 .. k \/ j = k + 1
      OBVIOUS
    <3>2. CASE op.buy
      BY <3>1, <3>2
    <3>3. CASE ~op.buy
      BY <3>1, <3>3
    <3> QED
      BY <2>2, <3>2, <3>3
  <2>4. Prefix(k) \in SUBSET Nat
    BY <1>1, <2>1
  <2>5. Average(after[k], Prefix(k))
    BY <1>1, <1>7
  <2> HIDE DEF Prefix, op
  <2> QED
    BY <2>2, <2>3, <2>4, <2>5, AverageKept
<1>8. Average(after[n], Prefix(n))
  <2>1. n \in Nat
    BY <1>1
  <2>2. n \in T
    <3> HIDE DEF T
    <3> QED
      BY <1>6, <1>7, <2>1, AllOfNat
  <2> QED
    BY <2>1, <2>2
<1> QED
  BY <1>4, <1>5, <1>8

------------------------------------------------------------------------------
(* What is recorded later is of no consequence for the days before.         *)

(* The new operation is put where its date belongs: the ledger stays in     *)
(* order.                                                                   *)
LEMMA InsertedIs ==
  ASSUME NEW ops \in Ledger, NEW op \in Operation
  PROVE  /\ Inserted(ops, op) \in Ledger
         /\ Len(Inserted(ops, op)) = Len(ops) + 1
         /\ \E k \in 0 .. Len(ops) :
               /\ \A i \in 1 .. Len(ops) : i <= k <=> ops[i].at <= op.at
               /\ \A i \in 1 .. Len(ops) + 1 :
                     Inserted(ops, op)[i] = IF i <= k THEN ops[i]
                                            ELSE IF i = k + 1 THEN op ELSE ops[i - 1]
<1> DEFINE L == Len(ops)
           S == {i \in DOMAIN ops : ops[i].at <= op.at}
           k == Max({0} \cup S)
           new == Inserted(ops, op)
<1>1. /\ L \in Nat /\ ops \in Seq(Operation) /\ DOMAIN ops = 1 .. L
      /\ \A i \in 1 .. L : ops[i] \in Operation /\ ops[i].at \in Nat
      /\ op.at \in Nat
      /\ \A i, j \in 1 .. L : i < j => ops[i].at <= ops[j].at
  <2>1. /\ L \in Nat /\ ops \in Seq(Operation) /\ DOMAIN ops = 1 .. L
        /\ \A i \in 1 .. L : ops[i] \in Operation
    BY LedgerTyped
  <2>2. \A i \in 1 .. L : ops[i].at \in Nat
    BY <2>1, OperationTyped
  <2>3. \A i, j \in 1 .. L : i < j => ops[i].at <= ops[j].at
    BY <2>1 DEF Ledger
  <2> QED
    BY <2>1, <2>2, <2>3, OperationTyped
<1>2. k \in 0 .. L /\ \A i \in 1 .. L : i <= k <=> ops[i].at <= op.at
  <2>1. CASE S = {}
    <3>1. {0} \cup S = {0}
      BY <2>1
    <3>2. k = 0
      <4> HIDE DEF S
      <4> QED
        BY <3>1, MaxIs
    <3>3. \A i \in 1 .. L : ~(ops[i].at <= op.at) /\ ~(i <= 0)
      BY <1>1, <2>1
    <3> HIDE DEF k, S
    <3> QED
      BY <1>1, <3>2, <3>3
  <2>2. CASE S # {}
    <3>1. S \in SUBSET (1 .. L)
      BY <1>1
    <3>2. PICK m \in S : \A j \in S : j <= m
      <4> HIDE DEF L, S
      <4> QED
        BY <1>1, <2>2, <3>1, LastIndex
    <3>3. k = m
      <4>1. {0} \cup S \in SUBSET Int /\ m \in {0} \cup S
            /\ \A j \in {0} \cup S : j <= m
        BY <1>1, <3>1, <3>2
      <4> HIDE DEF S
      <4> QED
        BY <4>1, MaxIs
    <3>4. \A i \in 1 .. L : i <= m <=> ops[i].at <= op.at
      <4>1. m \in 1 .. L /\ ops[m].at <= op.at
        BY <1>1, <3>2
      <4>2. ASSUME NEW i \in 1 .. L, i <= m PROVE ops[i].at <= op.at
        <5>1. ops[i].at <= ops[m].at
          BY <1>1, <4>1, <4>2
        <5> QED
          BY <1>1, <4>1, <5>1
      <4>3. ASSUME NEW i \in 1 .. L, ops[i].at <= op.at PROVE i <= m
        BY <1>1, <3>2, <4>3
      <4> QED
        BY <4>2, <4>3
    <3> HIDE DEF k
    <3> QED
      BY <3>1, <3>2, <3>3, <3>4
  <2> QED
    BY <2>1, <2>2
<1> DEFINE head == SubSeq(ops, 1, k)
           tail == SubSeq(ops, k + 1, L)
<1>3. new = head \o <<op>> \o tail
  <2> HIDE DEF S
  <2>1. new = SubSeq(ops, 1, (1 + k) - 1) \o <<op>> \o SubSeq(ops, 1 + k, L)
    BY DEF Inserted, InsertAt, S
  <2> HIDE DEF k
  <2>2. (1 + k) - 1 = k /\ 1 + k = k + 1
    BY <1>1, <1>2
  <2> QED
    BY <2>1, <2>2
<1> HIDE DEF S, k, new, L
<1>4. /\ head \in Seq(Operation) /\ Len(head) = k
      /\ \A i \in 1 .. k : head[i] = ops[i]
  <2>1. 1 \in Int /\ k \in Int /\ \A i \in 1 .. k : ops[i] \in Operation
    BY <1>1, <1>2
  <2>2. /\ head \in Seq(Operation) /\ Len(head) = IF 1 <= k THEN k - 1 + 1 ELSE 0
        /\ \A i \in 1 .. (k - 1 + 1) : head[i] = ops[1 + i - 1]
    BY <2>1, SubSeqProperties
  <2>3. \A i \in 1 .. k : 1 + i - 1 = i /\ i \in 1 .. (k - 1 + 1)
    BY <1>2
  <2> HIDE DEF head
  <2> QED
    BY <1>1, <1>2, <2>2, <2>3
<1>5. /\ tail \in Seq(Operation) /\ Len(tail) = L - k
      /\ \A i \in 1 .. L - k : tail[i] = ops[k + i]
  <2>1. k + 1 \in Int /\ L \in Int /\ \A i \in k + 1 .. L : ops[i] \in Operation
    BY <1>1, <1>2
  <2>2. /\ tail \in Seq(Operation)
        /\ Len(tail) = IF k + 1 <= L THEN L - (k + 1) + 1 ELSE 0
        /\ \A i \in 1 .. (L - (k + 1) + 1) : tail[i] = ops[(k + 1) + i - 1]
    BY <2>1, SubSeqProperties
  <2>3. \A i \in 1 .. L - k : (k + 1) + i - 1 = k + i /\ i \in 1 .. (L - (k + 1) + 1)
    BY <1>1, <1>2
  <2> HIDE DEF tail
  <2> QED
    BY <1>1, <1>2, <2>2, <2>3
<1> HIDE DEF head, tail
<1> DEFINE front == head \o <<op>>
<1>6. /\ front \in Seq(Operation) /\ Len(front) = k + 1
      /\ \A i \in 1 .. k + 1 : front[i] = IF i <= k THEN ops[i] ELSE op
  <2>1. <<op>> \in Seq(Operation) /\ Len(<<op>>) = 1 /\ <<op>>[1] = op
    OBVIOUS
  <2>2. /\ front \in Seq(Operation) /\ Len(front) = k + 1
        /\ \A i \in 1 .. k + 1 : front[i] = IF i <= k THEN head[i] ELSE <<op>>[i - k]
    BY <1>4, <2>1, ConcatProperties
  <2>3. \A i \in 1 .. k + 1 : ~(i <= k) => i - k = 1
    BY <1>1, <1>2
  <2>4. \A i \in 1 .. k + 1 : i <= k => i \in 1 .. k
    BY <1>1, <1>2
  <2> HIDE DEF front
  <2> QED
    BY <1>4, <2>1, <2>2, <2>3, <2>4
<1> HIDE DEF front
<1>7. /\ new \in Seq(Operation) /\ Len(new) = L + 1
      /\ \A i \in 1 .. L + 1 : new[i] = IF i <= k THEN ops[i]
                                        ELSE IF i = k + 1 THEN op ELSE ops[i - 1]
  <2>1. /\ new \in Seq(Operation) /\ Len(new) = (k + 1) + (L - k)
        /\ \A i \in 1 .. (k + 1) + (L - k) :
              new[i] = IF i <= k + 1 THEN front[i] ELSE tail[i - (k + 1)]
    <3>1. new = front \o tail
      BY <1>3 DEF front
    <3>2. /\ front \o tail \in Seq(Operation)
          /\ Len(front \o tail) = Len(front) + Len(tail)
          /\ \A i \in 1 .. Len(front) + Len(tail) :
                (front \o tail)[i] = IF i <= Len(front) THEN front[i]
                                     ELSE tail[i - Len(front)]
      BY <1>5, <1>6, ConcatProperties
    <3> QED
      BY <1>5, <1>6, <3>1, <3>2
  <2>2. (k + 1) + (L - k) = L + 1
    BY <1>1, <1>2
  <2>3. ASSUME NEW i \in 1 .. L + 1
        PROVE  new[i] = IF i <= k THEN ops[i] ELSE IF i = k + 1 THEN op ELSE ops[i - 1]
    <3>1. CASE i <= k + 1
      <4>1. new[i] = front[i] /\ i \in 1 .. k + 1
        BY <1>1, <1>2, <2>1, <2>2, <3>1
      <4>2. front[i] = IF i <= k THEN ops[i] ELSE op
        BY <1>6, <4>1
      <4>3. ~(i <= k) => i = k + 1
        BY <1>1, <1>2, <3>1
      <4> QED
        BY <4>1, <4>2, <4>3
    <3>2. CASE ~(i <= k + 1)
      <4>1. i - (k + 1) \in 1 .. L - k /\ k + (i - (k + 1)) = i - 1
        BY <1>1, <1>2, <3>2
      <4>2. new[i] = tail[i - (k + 1)]
        BY <2>1, <2>2, <3>2
      <4>3. new[i] = ops[i - 1]
        BY <1>5, <4>1, <4>2
      <4> QED
        BY <1>2, <3>2, <4>3
    <3> QED
      BY <3>1, <3>2
  <2> QED
    BY <2>1, <2>2, <2>3
<1>8. new \in Ledger
  <2>1. DOMAIN new = 1 .. L + 1
    BY <1>7, LenProperties
  <2>2. ASSUME NEW i \in 1 .. L + 1, NEW j \in 1 .. L + 1, i < j
        PROVE  new[i].at <= new[j].at
    <3>1. CASE j <= k
      <4>1. new[i] = ops[i] /\ new[j] = ops[j] /\ i \in 1 .. L /\ j \in 1 .. L
        BY <1>1, <1>2, <1>7, <2>2, <3>1
      <4> QED
        BY <1>1, <2>2, <4>1
    <3>2. CASE j = k + 1
      <4>1. new[i] = ops[i] /\ new[j] = op /\ i \in 1 .. L /\ i <= k
        BY <1>1, <1>2, <1>7, <2>2, <3>2
      <4> QED
        BY <1>2, <4>1
    <3>3. CASE j > k + 1
      <4>1. new[j] = ops[j - 1] /\ j - 1 \in 1 .. L /\ ~(j - 1 <= k)
        BY <1>1, <1>2, <1>7, <3>3
      <4>2. op.at <= ops[j - 1].at
        BY <1>1, <1>2, <4>1
      <4>3. CASE i <= k
        <5>1. new[i] = ops[i] /\ i \in 1 .. L /\ i < j - 1
          BY <1>1, <1>2, <1>7, <3>3, <4>3
        <5> QED
          BY <1>1, <4>1, <5>1
      <4>4. CASE i = k + 1
        <5>1. new[i] = op
          BY <1>2, <1>7, <4>4
        <5> QED
          BY <4>1, <4>2, <5>1
      <4>5. CASE i > k + 1
        <5>1. new[i] = ops[i - 1] /\ i - 1 \in 1 .. L /\ i - 1 < j - 1
          BY <1>1, <1>2, <1>7, <2>2, <4>5
        <5> QED
          BY <1>1, <4>1, <5>1
      <4> QED
        BY <1>1, <1>2, <4>3, <4>4, <4>5
    <3> QED
      BY <1>1, <1>2, <3>1, <3>2, <3>3
  <2> QED
    BY <1>7, <2>1, <2>2 DEF Ledger
<1> QED
  BY <1>2, <1>7, <1>8 DEF new, L

(* What is recorded for a later day leaves the holdings of a day alone.     *)
LEMMA EarlierKept ==
  ASSUME NEW ops \in Ledger, NEW op \in Operation, NEW day \in Nat, day < Day(op.at)
  PROVE  HoldingsOnDay(Checkpoints(Inserted(ops, op)), day)
         = HoldingsOnDay(Checkpoints(ops), day)
<1> DEFINE L == Len(ops)
           new == Inserted(ops, op)
<1>1. PICK n \in 0 .. L : Until(ops, day, n)
  BY UntilExists
<1>2. /\ L \in Nat /\ ops \in Seq(Operation) /\ new \in Ledger /\ new \in Seq(Operation)
      /\ Len(new) = L + 1
      /\ \A i \in 1 .. L : ops[i].at \in Nat /\ Day(ops[i].at) \in Nat
      /\ op.at \in Nat /\ Day(op.at) \in Nat
  <2>1. \A i \in 1 .. L : ops[i] \in Operation
    BY LedgerTyped
  <2> QED
    BY <2>1, LedgerTyped, OperationTyped, InsertedIs
<1>3. PICK k \in 0 .. L :
         /\ \A i \in 1 .. L : i <= k <=> ops[i].at <= op.at
         /\ \A i \in 1 .. L + 1 : new[i] = IF i <= k THEN ops[i]
                                           ELSE IF i = k + 1 THEN op ELSE ops[i - 1]
  BY InsertedIs
<1> HIDE DEF new
<1>4. n <= k
  <2> SUFFICES ASSUME k < n PROVE FALSE
    BY <1>2
  <2>1. k + 1 \in 1 .. L /\ k + 1 <= n /\ ~(k + 1 <= k)
    BY <1>2
  <2>2. Day(ops[k + 1].at) <= day
    BY <1>1, <2>1 DEF Until
  <2>3. op.at <= ops[k + 1].at
    BY <1>2, <1>3, <2>1
  <2>4. Day(op.at) <= Day(ops[k + 1].at)
    BY <1>2, <2>1, <2>3, DayGrows
  <2> QED
    BY <1>2, <2>1, <2>2, <2>4
<1>5. Until(new, day, n)
  <2>1. n \in 0 .. L + 1
    BY <1>2
  <2>2. ASSUME NEW i \in 1 .. L + 1 PROVE Day(new[i].at) <= day <=> i <= n
    <3>1. CASE i <= k
      <4>1. new[i] = ops[i] /\ i \in 1 .. L
        BY <1>2, <1>3, <3>1
      <4> QED
        BY <1>1, <4>1 DEF Until
    <3>2. CASE i = k + 1
      <4>1. new[i] = op /\ ~(i <= n) /\ ~(Day(op.at) <= day)
        BY <1>2, <1>3, <1>4, <3>2
      <4> QED
        BY <4>1
    <3>3. CASE i > k + 1
      <4>1. new[i] = ops[i - 1] /\ i - 1 \in 1 .. L /\ ~(i - 1 <= n) /\ ~(i <= n)
        BY <1>2, <1>3, <1>4, <3>3
      <4> QED
        BY <1>1, <4>1 DEF Until
    <3> QED
      BY <1>2, <3>1, <3>2, <3>3
  <2> QED
    BY <1>2, <2>1, <2>2 DEF Until
<1>6. HoldingsOnDay(Checkpoints(new), day) = Replay(new)[n]
      /\ HoldingsOnDay(Checkpoints(ops), day) = Replay(ops)[n]
  <2>1. n \in 0 .. Len(new)
    BY <1>2
  <2> QED
    BY <1>1, <1>2, <1>5, <2>1, HoldingsAre
<1> DEFINE T == {i \in Nat : i <= n => Replay(new)[i] = Replay(ops)[i]}
<1>7. /\ Replay(new)[0] = Nothing /\ Replay(ops)[0] = Nothing
      /\ \A i \in 1 .. L + 1 : Replay(new)[i] = Apply(Replay(new)[i - 1], new[i])
      /\ \A i \in 1 .. L : Replay(ops)[i] = Apply(Replay(ops)[i - 1], ops[i])
  BY <1>2, ReplayIs
<1>8. 0 \in T
  BY <1>7
<1>9. ASSUME NEW i \in Nat, i \in T PROVE i + 1 \in T
  <2> SUFFICES ASSUME i + 1 <= n PROVE Replay(new)[i + 1] = Replay(ops)[i + 1]
    BY <1>2
  <2>1. i + 1 \in 1 .. L /\ i + 1 \in 1 .. L + 1 /\ (i + 1) - 1 = i /\ i + 1 <= k /\ i <= n
    BY <1>2, <1>4
  <2>2. new[i + 1] = ops[i + 1] /\ Replay(new)[i] = Replay(ops)[i]
    BY <1>3, <1>9, <2>1
  <2>3. /\ Replay(new)[i + 1] = Apply(Replay(new)[i], new[i + 1])
        /\ Replay(ops)[i + 1] = Apply(Replay(ops)[i], ops[i + 1])
    BY <1>7, <2>1
  <2> QED
    BY <2>2, <2>3
<1>10. Nat \subseteq T
  <2> HIDE DEF T
  <2> QED
    BY <1>8, <1>9, AllOfNat
<1>11. Replay(new)[n] = Replay(ops)[n]
  <2>1. n \in Nat /\ n <= n
    BY <1>2
  <2> QED
    BY <1>10, <2>1
<1> QED
  BY <1>6, <1>11 DEF new

(* The price of a day is one of its last closes.                            *)
LEMMA PriceIs ==
  ASSUME closes \in [Tickers -> SUBSET Point], NEW t \in Tickers, NEW day, HasPrice(t, day)
  PROVE  \E p \in LastCloses(t, day) : p.close \in Nat /\ PriceOn(t, day) = p.close
<1> DEFINE P == PointsUntil(t, day)
           S == {p.at + 1 : p \in P}
<1>1. P \in SUBSET Point /\ P # {}
  BY DEF HasPrice, PointsUntil
<1>2. \A p \in P : p.at \in Nat /\ p.at + 1 \in 1 .. MaxTime + 1 /\ p.close \in Prices
  BY <1>1, BoundsAssumption DEF Point
<1> HIDE DEF P
<1>3. S \in SUBSET (1 .. MaxTime + 1) /\ S # {} /\ MaxTime + 1 \in Nat
  BY <1>1, <1>2, BoundsAssumption
<1>4. PICK i \in S : \A j \in S : j <= i
  <2> HIDE DEF S
  <2> QED
    BY <1>3, LastIndex
<1>5. PICK p \in P : i = p.at + 1
  BY <1>4
<1>6. \A q \in P : q.at <= p.at
  <2> TAKE q \in P
  <2>1. q.at + 1 <= p.at + 1
    BY <1>4, <1>5
  <2> QED
    BY <1>2, <2>1
<1> DEFINE IsLast(c) == \A q \in P : q.at <= c.at
           last == CHOOSE c \in P : IsLast(c)
<1>7. last \in P /\ IsLast(last) /\ PriceOn(t, day) = last.close
  <2>1. \E c \in P : IsLast(c)
    BY <1>5, <1>6
  <2>2. last \in P /\ IsLast(last)
    BY <2>1
  <2> QED
    BY <2>2 DEF PriceOn, P
<1> HIDE DEF last
<1>8. last \in LastCloses(t, day)
  BY <1>7 DEF LastCloses, P, PointsUntil
<1> QED
  BY <1>2, <1>7, <1>8, PricesAssumption

------------------------------------------------------------------------------
(* The invariant.                                                           *)

(* Of the days of the last answer that nothing was recorded for since, the  *)
(* answer is still what it would be now (PastIsSettled, one state earlier). *)
Settled ==
    \A day \in DOMAIN shown :
        day < touched => day \in Span /\ shown[day] = DailyBalance(day)

HistoryInv ==
    /\ now \in 0 .. MaxTime
    /\ ledger \in [Tickers -> Ledger]
    /\ closes \in [Tickers -> SUBSET Point]
    /\ touched \in 0 .. Day(now)
    /\ DOMAIN shown \subseteq 0 .. Day(now)
    /\ Settled

(* A ledger in order is a ledger of the type invariant.                     *)
LEMMA TypeIs ==
  ASSUME HistoryInv PROVE TypeOK
<1>1. /\ now \in 0 .. MaxTime /\ closes \in [Tickers -> SUBSET Point]
      /\ DOMAIN shown \subseteq 0 .. Day(now) /\ touched \in 0 .. Day(now)
      /\ ledger \in [Tickers -> Ledger]
  BY DEF HistoryInv
<1>2. ledger \in [Tickers -> Seq(Operation)]
  BY <1>1 DEF Ledger
<1>3. \A t \in Tickers : \A i, j \in DOMAIN ledger[t] :
         i < j => ledger[t][i].at <= ledger[t][j].at
  BY <1>1 DEF Ledger
<1> QED
  BY <1>1, <1>2, <1>3 DEF TypeOK

(* The present is a day, and the days of an answer are numbers.             *)
LEMMA Today ==
  ASSUME now \in 0 .. MaxTime
  PROVE  /\ now \in Nat /\ Day(now) \in Nat
         /\ \A day \in 0 .. Day(now) : day \in Nat /\ day <= Day(now)
         /\ \A day \in Span : day \in 0 .. Day(now)
<1>1. now \in Nat
  BY BoundsAssumption
<1>2. Day(now) \in Nat
  BY <1>1, DayGrows
<1> QED
  BY <1>1, <1>2 DEF Span

(* What is held of a ticker on a day.                                       *)
LEMMA HeldTyped ==
  ASSUME NEW ops \in Ledger, NEW day \in Nat
  PROVE  HoldingsOnDay(Checkpoints(ops), day) \in Holding
<1>1. PICK n \in 0 .. Len(ops) : Until(ops, day, n)
  BY UntilExists
<1>2. HoldingsOnDay(Checkpoints(ops), day) = Replay(ops)[n]
  BY <1>1, HoldingsAre
<1>3. Replay(ops) \in [0 .. Len(ops) -> Holding]
  BY LedgerTyped, ReplayIs
<1> QED
  BY <1>2, <1>3

(* Profit against an average: with v = q * c, the average num / den between *)
(* low and high.                                                            *)
LEMMA ProfitBetween ==
  ASSUME NEW q \in Nat, NEW c \in Nat, NEW num \in Nat, NEW den \in Nat,
         NEW low \in Nat, NEW high \in Nat, low * den <= num, num <= high * den
  PROVE  /\ q * (c - high) * den <= (q * c) * den - q * num
         /\ (q * c) * den - q * num <= q * (c - low) * den
<1>1. \A x, y \in Nat : x <= y => q * x <= q * y
  OBVIOUS
<1>2. ASSUME NEW price \in Nat
      PROVE  q * (c - price) * den = (q * c) * den - q * (price * den)
  OBVIOUS
<1> DEFINE a == q * num
           l == q * (low * den)
           h == q * (high * den)
           v == (q * c) * den
<1>3. l <= a /\ a <= h
  BY <1>1
<1>4. /\ a \in Nat /\ l \in Nat /\ h \in Nat /\ v \in Nat
      /\ q * (c - high) * den = v - h /\ q * (c - low) * den = v - l
  BY <1>2
<1> HIDE DEF a, l, h, v
<1>5. v - h <= v - a /\ v - a <= v - l
  BY <1>3, <1>4
<1> QED
  BY <1>4, <1>5 DEF a, v

(* The balance of a day is what the ledger and the closes say.              *)
LEMMA BalanceExplained ==
  ASSUME HistoryInv, NEW day \in Nat, NEW t \in Tickers
  PROVE  LET left == HoldingsFromLedger(ledger[t], day)
             last == LastCloses(t, day)
             b    == DailyBalance(day)
         IN  /\ t \in DOMAIN b <=> left > 0 /\ last # {}
             /\ t \in DOMAIN b =>
                   \E p \in last, low, high \in Bought(ledger[t], day) :
                      /\ b[t].value = left * p.close
                      /\ left * (p.close - high) * b[t].held.den
                         <= b[t].value * b[t].held.den - b[t].held.qty * b[t].held.num
                      /\ b[t].value * b[t].held.den - b[t].held.qty * b[t].held.num
                         <= left * (p.close - low) * b[t].held.den
<1> DEFINE held == [s \in Tickers |-> HoldingsOnDay(Checkpoints(ledger[s]), day)]
           h    == HoldingsOnDay(Checkpoints(ledger[t]), day)
           left == HoldingsFromLedger(ledger[t], day)
           b    == DailyBalance(day)
<1>1. ledger[t] \in Ledger /\ closes \in [Tickers -> SUBSET Point]
  BY DEF HistoryInv
<1>2. h.qty = left /\ left \in Nat /\ h.num \in Nat /\ h.den \in Nat
  BY <1>1, HeldTyped, ReplayedQuantity DEF Holding
<1>3. held[t] = h
  OBVIOUS
<1>4. HasPrice(t, day) <=> LastCloses(t, day) # {}
  BY <1>1, PriceIs DEF HasPrice, LastCloses, PointsUntil
<1>5. t \in DOMAIN b <=> h.qty > 0 /\ HasPrice(t, day)
  BY <1>3 DEF DailyBalance, Counted
<1>6. ASSUME t \in DOMAIN b
      PROVE  b[t].held = h /\ b[t].value = h.qty * PriceOn(t, day)
  BY <1>3, <1>5, <1>6 DEF DailyBalance
<1>7. ASSUME t \in DOMAIN b
      PROVE  \E p \in LastCloses(t, day), low, high \in Bought(ledger[t], day) :
                /\ b[t].value = left * p.close
                /\ left * (p.close - high) * b[t].held.den
                   <= b[t].value * b[t].held.den - b[t].held.qty * b[t].held.num
                /\ b[t].value * b[t].held.den - b[t].held.qty * b[t].held.num
                   <= left * (p.close - low) * b[t].held.den
  <2>1. h.qty > 0 /\ HasPrice(t, day) /\ b[t].held = h /\ b[t].value = h.qty * PriceOn(t, day)
    BY <1>5, <1>6, <1>7
  <2>2. PICK p \in LastCloses(t, day) : p.close \in Nat /\ PriceOn(t, day) = p.close
    BY <1>1, <2>1, PriceIs
  <2>3. PICK low, high \in Bought(ledger[t], day) :
           low * h.den <= h.num /\ h.num <= high * h.den
    BY <1>1, <1>2, <2>1, CostOfADay DEF Average
  <2>4. low \in Nat /\ high \in Nat
    <3>1. \A i \in DOMAIN ledger[t] : ledger[t][i].price \in Nat
      BY <1>1, LedgerTyped, OperationTyped
    <3> QED
      BY <2>3, <3>1 DEF Bought
  <2> HIDE DEF h, left, b
  <2>5. /\ left * (p.close - high) * h.den <= (left * p.close) * h.den - left * h.num
        /\ (left * p.close) * h.den - left * h.num <= left * (p.close - low) * h.den
    BY <1>2, <2>2, <2>3, <2>4, ProfitBetween
  <2>6. b[t].value = left * p.close
    BY <1>2, <2>1, <2>2
  <2>7. /\ left * (p.close - high) * b[t].held.den
           <= b[t].value * b[t].held.den - b[t].held.qty * b[t].held.num
        /\ b[t].value * b[t].held.den - b[t].held.qty * b[t].held.num
           <= left * (p.close - low) * b[t].held.den
    BY <1>2, <2>1, <2>5, <2>6
  <2> QED
    BY <2>2, <2>3, <2>6, <2>7
<1> HIDE DEF h, b
<1> QED
  BY <1>2, <1>4, <1>5, <1>7 DEF b

(* A day is of the same balance when its holdings and its prices are.       *)
LEMMA BalanceKept ==
  ASSUME NEW day,
         \A t \in Tickers : HoldingsOnDay(Checkpoints(ledger'[t]), day)
                            = HoldingsOnDay(Checkpoints(ledger[t]), day),
         \A t \in Tickers : PointsUntil(t, day)' = PointsUntil(t, day)
  PROVE  DailyBalance(day)' = DailyBalance(day)
<1> DEFINE held == [t \in Tickers |-> HoldingsOnDay(Checkpoints(ledger[t]), day)]
           heldNext == [t \in Tickers |-> HoldingsOnDay(Checkpoints(ledger'[t]), day)]
<1>1. heldNext = held
  OBVIOUS
<1>2. \A t \in Tickers : /\ HasPrice(t, day)' <=> HasPrice(t, day)
                         /\ PriceOn(t, day)' = PriceOn(t, day)
  BY DEF HasPrice, PriceOn
<1>3. Counted(held, day)' = {t \in Tickers : heldNext[t].qty > 0 /\ HasPrice(t, day)'}
  BY DEF Counted
<1> QED
  BY <1>1, <1>2 DEF DailyBalance, Counted

LEMMA InitHistory ==
  ASSUME Init PROVE HistoryInv
<1>1. <<>> \in Ledger
  BY EmptySeq DEF Ledger
<1>2. 0 \in 0 .. MaxTime /\ Day(0) \in Nat
  BY BoundsAssumption, DayGrows
<1>3. DOMAIN shown = {}
  BY DEF Init
<1>4. touched \in 0 .. Day(now)
  BY <1>2 DEF Init
<1> QED
  BY <1>1, <1>2, <1>3, <1>4 DEF Init, HistoryInv, Settled

(* An operation is put into the ledger, whoever records it.                 *)
LEMMA AddKeeps ==
  ASSUME HistoryInv, NEW t \in Tickers, NEW op \in Operation, op.at <= now, Add(t, op)
  PROVE  HistoryInv'
<1>1. /\ now \in 0 .. MaxTime /\ now \in Nat /\ Day(now) \in Nat
      /\ UNCHANGED <<now, closes, shown>>
      /\ ledger \in [Tickers -> Ledger]
      /\ ledger' = [ledger EXCEPT ![t] = Inserted(ledger[t], op)]
      /\ touched' = Min({touched, Day(op.at)})
      /\ touched \in Nat /\ touched <= Day(now)
  BY Today DEF HistoryInv, Add
<1>2. /\ op.at \in Nat /\ Day(op.at) \in Nat /\ Day(op.at) <= Day(now)
  BY <1>1, OperationTyped, DayGrows
<1>3. touched' \in 0 .. Day(now) /\ touched' <= touched /\ touched' <= Day(op.at)
  <2>1. touched' \in {touched, Day(op.at)} /\ \A x \in {touched, Day(op.at)} : touched' <= x
    <3>1. \E x \in {touched, Day(op.at)} : \A y \in {touched, Day(op.at)} : x <= y
      BY <1>1, <1>2
    <3> QED
      BY <1>1, <3>1 DEF Min
  <2> QED
    BY <1>1, <1>2, <2>1
<1>4. ledger' \in [Tickers -> Ledger]
  <2>1. Inserted(ledger[t], op) \in Ledger
    BY <1>1, InsertedIs
  <2> QED
    BY <1>1, <2>1
<1>5. Settled'
  <2> SUFFICES ASSUME NEW day \in DOMAIN shown, day < touched'
               PROVE  day \in Span' /\ shown[day] = DailyBalance(day)'
    BY <1>1 DEF Settled
  <2>1. day \in 0 .. Day(now) /\ day \in Nat
    BY <1>1, Today DEF HistoryInv
  <2>2. day < touched /\ day < Day(op.at)
    BY <1>1, <1>2, <1>3, <2>1
  <2>3. day \in Span /\ shown[day] = DailyBalance(day)
    BY <2>2 DEF HistoryInv, Settled
  <2>4. day \in Span'
    <3>1. PICK o \in Operations : Day(o.at) <= day
      BY <2>3 DEF Span
    <3>2. PICK s \in Tickers : o \in ToSet(ledger[s])
      BY <3>1 DEF Operations
    <3>3. o \in ToSet(ledger'[s])
      <4>1. CASE s # t
        BY <1>1, <3>2, <4>1
      <4>2. CASE s = t
        <5> DEFINE ops == ledger[t]
                   new == Inserted(ops, op)
        <5>1. /\ ops \in Ledger /\ Len(ops) \in Nat /\ DOMAIN ops = 1 .. Len(ops)
              /\ new \in Ledger /\ Len(new) = Len(ops) + 1
              /\ DOMAIN new = 1 .. Len(ops) + 1
          BY <1>1, InsertedIs, LedgerTyped
        <5>2. PICK i \in 1 .. Len(ops) : ops[i] = o
          BY <3>2, <4>2, <5>1 DEF ToSet
        <5>3. PICK k \in 0 .. Len(ops) :
                 \A j \in 1 .. Len(ops) + 1 :
                    new[j] = IF j <= k THEN ops[j] ELSE IF j = k + 1 THEN op ELSE ops[j - 1]
          BY <5>1, InsertedIs
        <5> HIDE DEF new, ops
        <5>4. \E j \in 1 .. Len(ops) + 1 : new[j] = o
          <6>1. CASE i <= k
            <7>1. i \in 1 .. Len(ops) + 1
              BY <5>1
            <7> QED
              BY <5>2, <5>3, <6>1, <7>1
          <6>2. CASE ~(i <= k)
            <7>1. /\ i + 1 \in 1 .. Len(ops) + 1 /\ ~(i + 1 <= k) /\ i + 1 # k + 1
                  /\ (i + 1) - 1 = i
              BY <5>1, <6>2
            <7> QED
              BY <5>2, <5>3, <7>1
          <6> QED
            BY <6>1, <6>2
        <5>5. ledger'[s] = new
          BY <1>1, <4>2 DEF new, ops
        <5> QED
          BY <5>1, <5>4, <5>5 DEF ToSet
      <4> QED
        BY <4>1, <4>2
    <3>4. o \in Operations'
      BY <3>2, <3>3 DEF Operations
    <3> QED
      BY <1>1, <2>1, <3>1, <3>4 DEF Span
  <2>5. DailyBalance(day)' = DailyBalance(day)
    <3>1. \A s \in Tickers : HoldingsOnDay(Checkpoints(ledger'[s]), day)
                             = HoldingsOnDay(Checkpoints(ledger[s]), day)
      <4> TAKE s \in Tickers
      <4>1. CASE s = t
        <5>1. ledger'[s] = Inserted(ledger[t], op) /\ ledger[t] \in Ledger
          BY <1>1, <4>1
        <5> QED
          BY <2>1, <2>2, <4>1, <5>1, EarlierKept
      <4>2. CASE s # t
        BY <1>1, <4>2
      <4> QED
        BY <4>1, <4>2
    <3>2. \A s \in Tickers : PointsUntil(s, day)' = PointsUntil(s, day)
      BY <1>1 DEF PointsUntil, Day
    <3> QED
      BY <3>1, <3>2, BalanceKept
  <2> QED
    BY <2>3, <2>4, <2>5
<1>6. touched' \in 0 .. Day(now')
  BY <1>1, <1>3
<1> QED
  BY <1>1, <1>4, <1>5, <1>6 DEF HistoryInv, Day

(* A new close is of today: the days before have the points they had.       *)
LEMMA CloseKeeps ==
  ASSUME HistoryInv, NEW t \in Tickers, NEW price \in Prices, Close(t, price)
  PROVE  HistoryInv'
<1>1. /\ now \in 0 .. MaxTime /\ now \in Nat /\ Day(now) \in Nat
      /\ UNCHANGED <<now, ledger, shown, touched>>
      /\ closes \in [Tickers -> SUBSET Point]
      /\ closes' = [closes EXCEPT ![t] = @ \cup {[at |-> now, close |-> price]}]
      /\ touched \in Nat /\ touched <= Day(now)
  BY Today DEF HistoryInv, Close
<1>2. closes' \in [Tickers -> SUBSET Point]
  <2>1. [at |-> now, close |-> price] \in Point
    BY <1>1 DEF Point
  <2> QED
    BY <1>1, <2>1
<1>3. Settled'
  <2> SUFFICES ASSUME NEW day \in DOMAIN shown, day < touched
               PROVE  day \in Span' /\ shown[day] = DailyBalance(day)'
    BY <1>1 DEF Settled
  <2>1. day \in 0 .. Day(now) /\ day \in Nat /\ ~(Day(now) <= day)
    BY <1>1, Today DEF HistoryInv
  <2>2. day \in Span' /\ shown[day] = DailyBalance(day)
    BY <1>1 DEF HistoryInv, Settled, Span, Operations, Day
  <2>3. DailyBalance(day)' = DailyBalance(day)
    <3>1. \A s \in Tickers : PointsUntil(s, day)' = PointsUntil(s, day)
      <4> TAKE s \in Tickers
      <4> DEFINE new == [at |-> now, close |-> price]
      <4>1. closes'[s] = closes[s] \/ closes'[s] = closes[s] \cup {new}
        BY <1>1
      <4>2. new.at = now
        OBVIOUS
      <4> HIDE DEF new
      <4> QED
        BY <2>1, <4>1, <4>2 DEF PointsUntil, Day
    <3> QED
      BY <1>1, <3>1, BalanceKept
  <2> QED
    BY <2>2, <2>3
<1> QED
  BY <1>1, <1>2, <1>3 DEF HistoryInv, Day

(* The answer is what it says, for every day of it.                         *)
LEMMA AnswerKeeps ==
  ASSUME HistoryInv, Answer
  PROVE  HistoryInv'
<1>1. /\ now \in 0 .. MaxTime /\ now \in Nat /\ Day(now) \in Nat
      /\ UNCHANGED <<now, ledger, closes>> /\ touched' = Day(now)
      /\ shown' = [day \in Span |-> DailyBalance(day)]
  BY Today DEF HistoryInv, Answer
<1>3. \A day : DailyBalance(day)' = DailyBalance(day)
  BY <1>1 DEF DailyBalance, Counted, HasPrice, PriceOn, PointsUntil
<1>4. Span' = Span
  BY <1>1 DEF Span, Operations, Day
<1>5. Settled'
  BY <1>1, <1>3, <1>4 DEF Settled
<1>6. DOMAIN shown' \subseteq 0 .. Day(now)
  BY <1>1, Today
<1> QED
  BY <1>1, <1>5, <1>6 DEF HistoryInv, Day

LEMMA TickKeeps ==
  ASSUME HistoryInv, Tick
  PROVE  HistoryInv'
<1>1. /\ now \in 0 .. MaxTime /\ now \in Nat /\ Day(now) \in Nat
      /\ UNCHANGED <<ledger, closes, shown, touched>>
      /\ now' = now + 1 /\ now' \in 0 .. MaxTime
  BY Today, BoundsAssumption DEF HistoryInv, Tick
<1>2. Day(now') \in Nat /\ Day(now) <= Day(now')
  BY <1>1, DayGrows
<1>3. \A day : DailyBalance(day)' = DailyBalance(day)
  BY <1>1 DEF DailyBalance, Counted, HasPrice, PriceOn, PointsUntil
<1>4. 0 .. Day(now) \subseteq 0 .. Day(now')
  BY <1>1, <1>2
<1>5. \A day \in Span : day \in Span'
  <2>1. Operations' = Operations
    BY <1>1 DEF Operations
  <2>2. Span' = {day \in 0 .. Day(now') : \E op \in Operations : Day(op.at) <= day}
    BY <2>1 DEF Span, Day
  <2> QED
    BY <1>4, <2>2 DEF Span
<1>6. Settled'
  BY <1>1, <1>3, <1>5 DEF HistoryInv, Settled
<1>7. touched' \in 0 .. Day(now') /\ DOMAIN shown' \subseteq 0 .. Day(now')
  BY <1>1, <1>4 DEF HistoryInv
<1>8. Day(now)' = Day(now')
  BY DEF Day
<1> QED
  BY <1>1, <1>6, <1>7, <1>8 DEF HistoryInv

LEMMA NextHistory ==
  ASSUME HistoryInv, [Next]_vars PROVE HistoryInv'
<1>1. CASE UNCHANGED vars
  <2>1. /\ UNCHANGED <<now, ledger, closes, shown, touched>>
    BY <1>1 DEF vars
  <2>2. \A day : DailyBalance(day)' = DailyBalance(day)
    BY <2>1 DEF DailyBalance, Counted, HasPrice, PriceOn, PointsUntil
  <2>3. Span' = Span /\ Day(now)' = Day(now)
    BY <2>1 DEF Span, Operations, Day
  <2>4. Settled'
    BY <2>1, <2>2, <2>3 DEF HistoryInv, Settled
  <2> QED
    BY <2>1, <2>3, <2>4 DEF HistoryInv
<1>2. ASSUME NEW t \in Tickers, NEW op \in Operation,
             RecordOperation(t, op) \/ RecordOperationAt(t, op)
      PROVE  HistoryInv'
  <2>1. op.at <= now /\ Add(t, op)
    BY <1>2 DEF RecordOperation, RecordOperationAt
  <2> QED
    BY <2>1, AddKeeps
<1>3. CASE Next
  BY <1>2, <1>3, CloseKeeps, AnswerKeeps, TickKeeps DEF Next
<1> QED
  BY <1>1, <1>3

LEMMA HistoryInvariance == Spec => []HistoryInv
<1>1. Init => HistoryInv
  BY InitHistory
<1>2. HistoryInv /\ [Next]_vars => HistoryInv'
  BY NextHistory
<1> QED
  BY <1>1, <1>2, PTL DEF Spec

------------------------------------------------------------------------------
(* Theorems                                                                 *)

(* The ledger is in order, whenever its rows are committed, and the         *)
(* timeline holds on every day what the ledger says.                        *)
THEOREM HoldingsFollow == Spec => []HoldingsAreTheLedger
<1>1. ASSUME HistoryInv PROVE HoldingsAreTheLedger
  <2>1. ASSUME NEW t \in Tickers, NEW day \in Span
        PROVE  HoldingsOnDay(Checkpoints(ledger[t]), day).qty
               = HoldingsFromLedger(ledger[t], day)
    <3>1. ledger[t] \in Ledger /\ day \in Nat
      BY <1>1, Today DEF HistoryInv
    <3> QED
      BY <3>1, ReplayedQuantity
  <2> QED
    BY <1>1, <2>1, TypeIs DEF HoldingsAreTheLedger
<1> QED
  BY <1>1, HistoryInvariance, PTL

(* build_checkpoints never makes a holding cheaper or dearer than its       *)
(* purchases.                                                               *)
THEOREM CostAveraged == Spec => []CostIsAnAverage
<1>1. ASSUME HistoryInv PROVE CostIsAnAverage
  <2>1. ASSUME NEW t \in Tickers, NEW day \in Span
        PROVE  Average(HoldingsOnDay(Checkpoints(ledger[t]), day), Bought(ledger[t], day))
    <3>1. ledger[t] \in Ledger /\ day \in Nat
      BY <1>1, Today DEF HistoryInv
    <3> QED
      BY <3>1, CostOfADay
  <2> QED
    BY <2>1 DEF CostIsAnAverage, Average
<1> QED
  BY <1>1, HistoryInvariance, PTL

(* A profit that was answered is explained by what the ledger and the       *)
(* closes say now, whatever came since.                                     *)
THEOREM ProfitExplained == Spec => []NoPhantomLoss
<1>1. ASSUME HistoryInv PROVE NoPhantomLoss
  <2> SUFFICES ASSUME NEW day \in DOMAIN shown, NEW t \in Tickers, day < touched
               PROVE  LET left == HoldingsFromLedger(ledger[t], day)
                          last == LastCloses(t, day)
                          s    == shown[day][t]
                          profit == s.value * s.held.den - s.held.qty * s.held.num
                      IN  /\ t \in DOMAIN shown[day] <=> left > 0 /\ last # {}
                          /\ t \in DOMAIN shown[day] =>
                                \E p \in last, low, high \in Bought(ledger[t], day) :
                                   /\ s.value = left * p.close
                                   /\ left * (p.close - high) * s.held.den <= profit
                                   /\ profit <= left * (p.close - low) * s.held.den
    BY DEF NoPhantomLoss
  <2>1. day \in Nat /\ shown[day] = DailyBalance(day)
    BY <1>1, Today DEF HistoryInv, Settled
  <2> QED
    BY <1>1, <2>1, BalanceExplained
<1> QED
  BY <1>1, HistoryInvariance, PTL

(* Two answers agree on the days that nothing was recorded for.             *)
THEOREM PastSettled == Spec => PastIsSettled
<1>1. ASSUME HistoryInv, [Next]_vars, NEW day \in DOMAIN shown, day < touched
      PROVE  shown'[day] = shown[day]
  <2>1. day \in Span /\ shown[day] = DailyBalance(day)
    BY <1>1 DEF HistoryInv, Settled
  <2>2. CASE Answer
    BY <2>1, <2>2 DEF Answer
  <2>3. CASE ~Answer
    <3>1. UNCHANGED shown
      BY <1>1, <2>3
         DEF Next, vars, RecordOperation, RecordOperationAt, Add, Close, Tick
    <3> QED
      BY <3>1
  <2> QED
    BY <2>2, <2>3
<1>2. HistoryInv /\ [Next]_vars
      => [\A day \in DOMAIN shown : day < touched => shown'[day] = shown[day]]_vars
  BY <1>1
<1> QED
  BY <1>2, HistoryInvariance, PTL DEF Spec, PastIsSettled
==============================================================================
