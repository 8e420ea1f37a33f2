-------------------------- MODULE CompareCacheProofs --------------------------
(***************************************************************************)
(* Theorems of CompareCache, for any users, models, backtests, windows and *)
(* lengths of a day.                                                       *)
(***************************************************************************)
EXTENDS CompareCache, SequenceTheorems, WellFoundedInduction, TLAPS

------------------------------------------------------------------------------
(* The model that is shown first.                                           *)

(* Induction, for a set: what has 0 and every successor has all of Nat.     *)
LEMMA AllOfNat ==
  ASSUME NEW T, 0 \in T, \A n \in Nat : n \in T => n + 1 \in T
  PROVE  Nat \subseteq T
<1> DEFINE S == Nat \ T
           R == OpToRel(<, Nat)
<1>1. IsWellFoundedOn(R, Nat) /\ S \subseteq Nat
  BY NatLessThanWellFounded
<1>2. \A x, y \in Nat : x < y => <<x, y>> \in R
  BY DEF OpToRel
<1> HIDE DEF R
<1> SUFFICES ASSUME S # {} PROVE FALSE
  OBVIOUS
<1>3. PICK m \in S : \A n \in S : <<n, m>> \notin R
  BY <1>1, WFMin
<1>4. m \in Nat /\ m # 0 /\ m - 1 \in Nat /\ m - 1 < m
  BY <1>3
<1>5. m - 1 \in T
  BY <1>2, <1>3, <1>4
<1>6. (m - 1) + 1 \in T /\ (m - 1) + 1 = m
  BY <1>4, <1>5
<1> QED
  BY <1>3, <1>6

(* A score is a fraction.                                                   *)
LEMMA ScoreTyped ==
  ASSUME NEW b \in Backtest
  PROVE  Score(b)[1] \in Nat /\ Score(b)[2] \in Nat \ {0}
<1>1. b.accuracy \in Nat
  BY DEF Backtest
<1>2. CASE b.observations = NoCount \/ b.observations = 0
  BY <1>1, <1>2 DEF Score
<1>3. CASE ~(b.observations = NoCount \/ b.observations = 0)
  <2>1. b.observations \in Nat
    BY <1>3 DEF Backtest
  <2>2. b.accuracy * b.observations \in Nat
    BY <1>1, <2>1
  <2> QED
    BY <1>3, <2>1, <2>2 DEF Score, Prior
<1> QED
  BY <1>2, <1>3

(* Fractions are ordered.                                                   *)
LEMMA FractionsOrdered ==
  ASSUME NEW a \in Nat, NEW b \in Nat \ {0}, NEW c \in Nat, NEW d \in Nat \ {0},
         NEW e \in Nat, NEW f \in Nat \ {0}, a * d <= c * b, c * f <= e * d
  PROVE  a * f <= e * b
<1>1. (a * d) * f <= (c * b) * f
  OBVIOUS
<1>2. (c * f) * b <= (e * d) * b
  OBVIOUS
<1>3. d * (a * f) <= d * (e * b)
  BY <1>1, <1>2
<1> QED
  BY <1>3

(* m is as good as every model of R.                                        *)
IsBest(m, R) == m \in R /\ \A n \in R : ~Below(Score(backtest[m]), Score(backtest[n]))

(* Among models that are ranked there is a best one.                        *)
LEMMA BestExists ==
  ASSUME NEW R \in SUBSET Models, R # {}, \A m \in R : backtest[m] \in Backtest
  PROVE  \E m \in R : IsBest(m, R)
<1> DEFINE First(k) == {m \in R : \E i \in 1 .. k : i \in DOMAIN Names /\ Names[i] = m}
           T == {k \in Nat : First(k) = {} \/ \E m \in R : IsBest(m, First(k))}
<1>1. 0 \in T
  OBVIOUS
<1>2. ASSUME NEW k \in Nat, k \in T PROVE k + 1 \in T
  <2> DEFINE n == Names[k + 1]
  <2>1. CASE First(k + 1) = First(k)
    BY <1>2, <2>1
  <2>2. CASE First(k + 1) # First(k)
    <3>1. n \in R /\ First(k + 1) = First(k) \cup {n}
      <4>1. \A i \in 1 .. k + 1 : i \in 1 .. k \/ i = k + 1
        OBVIOUS
      <4>2. \A i \in 1 .. k : i \in 1 .. k + 1
        OBVIOUS
      <4>3. k + 1 \in 1 .. k + 1
        OBVIOUS
      <4> QED
        BY <2>2, <4>1, <4>2, <4>3
    <3>2. CASE First(k) = {}
      <4>1. First(k + 1) = {n}
        BY <3>1, <3>2
      <4>2. ~Below(Score(backtest[n]), Score(backtest[n]))
        BY <3>1, ScoreTyped DEF Below
      <4>3. IsBest(n, First(k + 1))
        BY <4>1, <4>2 DEF IsBest
      <4> HIDE DEF First
      <4>4. n \in R /\ k + 1 \in Nat
        BY <3>1
      <4> QED
        BY <4>3, <4>4
    <3>3. CASE First(k) # {}
      <4> HIDE DEF First
      <4>1. PICK m \in R : IsBest(m, First(k))
        BY <1>2, <3>3
      <4> HIDE DEF n
      <4>2. CASE ~Below(Score(backtest[m]), Score(backtest[n]))
        BY <3>1, <4>1, <4>2 DEF IsBest
      <4>3. CASE Below(Score(backtest[m]), Score(backtest[n]))
        <5>1. ASSUME NEW o \in First(k)
              PROVE  ~Below(Score(backtest[n]), Score(backtest[o]))
          <6> DEFINE s == Score(backtest[n])
                     t == Score(backtest[m])
                     u == Score(backtest[o])
          <6>1. /\ s[1] \in Nat /\ s[2] \in Nat \ {0} /\ t[1] \in Nat /\ t[2] \in Nat \ {0}
                /\ u[1] \in Nat /\ u[2] \in Nat \ {0}
            <7>1. o \in R
              BY DEF First
            <7>2. n \in R
              BY <3>1
            <7>3. /\ backtest[n] \in Backtest /\ backtest[m] \in Backtest
                  /\ backtest[o] \in Backtest
              BY <7>1, <7>2
            <7> QED
              BY <7>3, ScoreTyped
          <6>2. u[1] * t[2] <= t[1] * u[2]
            BY <4>1, <5>1, <6>1 DEF IsBest, Below
          <6>3. t[1] * s[2] <= s[1] * t[2]
            BY <4>3, <6>1 DEF Below
          <6> HIDE DEF s, t, u
          <6>4. u[1] * s[2] <= s[1] * u[2]
            BY <6>1, <6>2, <6>3, FractionsOrdered
          <6> QED
            BY <6>1, <6>4 DEF Below, s, u
        <5>2. ~Below(Score(backtest[n]), Score(backtest[n]))
          BY <3>1, ScoreTyped DEF Below
        <5>3. IsBest(n, First(k + 1))
          BY <3>1, <5>1, <5>2 DEF IsBest
        <5> QED
          BY <3>1, <5>3
      <4> QED
        BY <4>2, <4>3
    <3> QED
      BY <3>2, <3>3
  <2> QED
    BY <2>1, <2>2
<1>3. Len(Names) \in T
  <2> HIDE DEF T
  <2>1. Len(Names) \in Nat
    BY NamesAssumption, LenProperties
  <2> QED
    BY <1>1, <1>2, <2>1, AllOfNat
<1>4. First(Len(Names)) = R
  <2>1. DOMAIN Names = 1 .. Len(Names)
    BY NamesAssumption, LenProperties
  <2> QED
    BY <2>1 DEF Models, Range
<1> QED
  BY <1>3, <1>4

(* Among indices there is a last one.                                       *)
LEMMA LastIndex ==
  ASSUME NEW n \in Nat, NEW S \in SUBSET (1 .. n), S # {}
  PROVE  \E i \in S : \A j \in S : j <= i
<1> DEFINE HasLast(k) == \E i \in S : i <= k /\ \A j \in S : j <= k => j <= i
           T == {k \in Nat : (\A j \in S : ~(j <= k)) \/ HasLast(k)}
<1>1. 0 \in T
  OBVIOUS
<1>2. ASSUME NEW k \in Nat, k \in T PROVE k + 1 \in T
  <2>1. CASE k + 1 \in S
    <3>1. HasLast(k + 1)
      BY <2>1
    <3> QED
      BY <3>1
  <2>2. CASE k + 1 \notin S
    <3>1. \A j \in S : j <= k + 1 <=> j <= k
      BY <2>2
    <3>2. CASE \A j \in S : ~(j <= k)
      BY <3>1, <3>2
    <3>3. CASE HasLast(k)
      <4>1. HasLast(k + 1)
        BY <3>1, <3>3
      <4> QED
        BY <4>1
    <3> QED
      BY <1>2, <3>2, <3>3
  <2> QED
    BY <2>1, <2>2
<1>3. n \in T
  <2> HIDE DEF T
  <2> QED
    BY <1>1, <1>2, AllOfNat
<1>4. \A j \in S : j <= n
  OBVIOUS
<1> QED
  BY <1>3, <1>4

(* PickBest gives the best of the ranked models, and DefaultModel if there  *)
(* is none.                                                                 *)
LEMMA BestPicked ==
  ASSUME backtest \in [Directional -> Backtest \cup {NoBacktest}],
         NEW responded \in SUBSET Models
  PROVE  /\ PickBest(responded) \in Models
         /\ Ranked(responded) # {} => IsBest(PickBest(responded), Ranked(responded))
<1> DEFINE R == Ranked(responded)
           best == {m \in R : \A n \in R : ~Below(Score(backtest[m]), Score(backtest[n]))}
           last == CHOOSE i \in DOMAIN Names :
                      /\ Names[i] \in best
                      /\ \A j \in DOMAIN Names : Names[j] \in best => j <= i
<1>1. R \in SUBSET Models /\ \A m \in R : backtest[m] \in Backtest
  BY DEF Ranked, Directional
<1>2. PickBest(responded) = IF best = {} THEN DefaultModel ELSE Names[last]
  BY DEF PickBest
<1>3. CASE R = {}
  BY <1>2, <1>3, NamesAssumption DEF Directional
<1>4. CASE R # {}
  <2>1. \A m : m \in best <=> IsBest(m, R)
    BY DEF IsBest
  <2> HIDE DEF R, best
  <2>2. PICK m \in R : m \in best
    BY <1>1, <1>4, <2>1, BestExists
  <2>3. Len(Names) \in Nat /\ DOMAIN Names = 1 .. Len(Names)
    BY NamesAssumption, LenProperties
  <2>4. PICK i \in DOMAIN Names : Names[i] = m
    BY <1>1 DEF Models, Range
  <2> DEFINE S == {k \in DOMAIN Names : Names[k] \in best}
  <2>5. S \in SUBSET (1 .. Len(Names)) /\ i \in S
    BY <2>2, <2>3, <2>4
  <2>6. \E k \in S : \A j \in S : j <= k
    <3> HIDE DEF S
    <3> QED
      BY <2>3, <2>5, LastIndex
  <2>7. last \in DOMAIN Names /\ Names[last] \in best
    BY <2>6
  <2>8. PickBest(responded) \in best
    BY <1>2, <2>2, <2>7
  <2> QED
    BY <1>1, <2>1, <2>8 DEF IsBest, R
<1> QED
  BY <1>3, <1>4

(* The best is dominated by nobody: of two accuracies that are the same or  *)
(* grow, above chance, the one of more cases has the greater score.         *)
LEMMA WorseIsBelow ==
  ASSUME NEW b \in Backtest, NEW c \in Backtest, Worse(b, c)
  PROVE  Below(Score(b), Score(c))
<1> DEFINE x == b.accuracy - 50
           y == c.accuracy - 50
           m == b.observations
           n == c.observations
<1>1. /\ x \in Int /\ y \in Nat \ {0} /\ m \in Nat \ {0} /\ n \in Nat \ {0}
      /\ x <= y /\ m <= n /\ (x < y \/ m < n)
  <2>1. b = [accuracy |-> b.accuracy, observations |-> b.observations]
        /\ c = [accuracy |-> c.accuracy, observations |-> c.observations]
    BY DEF Backtest
  <2>2. m \in Nat \ {0} /\ n \in Nat /\ m <= n /\ x \in Int /\ y \in Nat \ {0} /\ x <= y
    BY DEF Worse, Backtest
  <2>3. b.accuracy \in Int /\ c.accuracy \in Int
    BY DEF Backtest
  <2>4. b.accuracy # c.accuracy \/ m # n
    BY <2>1 DEF Worse
  <2> QED
    BY <2>2, <2>3, <2>4
<1>2. /\ Score(b)[1] = x * m + 50 * m + 2500 /\ Score(b)[2] = m + 50
      /\ Score(c)[1] = y * n + 50 * n + 2500 /\ Score(c)[2] = n + 50
  <2>1. m # NoCount /\ n # NoCount
    BY DEF Worse
  <2>2. /\ Score(b) = <<b.accuracy * m + 50 * 50, m + 50>>
        /\ Score(c) = <<c.accuracy * n + 50 * 50, n + 50>>
    BY <1>1, <2>1 DEF Score, Prior
  <2>3. /\ b.accuracy = x + 50 /\ c.accuracy = y + 50
    BY DEF Backtest
  <2> HIDE DEF x, y, m, n
  <2>4. b.accuracy * m = x * m + 50 * m /\ c.accuracy * n = y * n + 50 * n
    BY <1>1, <2>3
  <2> QED
    BY <2>2, <2>4
<1> HIDE DEF x, y, m, n
<1>3. (x * m) * (n + 50) < (y * n) * (m + 50)
  <2>1. m * (n + 50) \in Nat \ {0} /\ y * m <= y * n /\ (m < n => y * m < y * n)
    BY <1>1
  <2>2. x * (m * (n + 50)) <= y * (m * (n + 50))
    BY <1>1, <2>1
  <2>3. x < y => x * (m * (n + 50)) < y * (m * (n + 50))
    BY <1>1, <2>1
  <2>4. /\ y * (m * (n + 50)) = y * m * n + 50 * (y * m)
        /\ (y * n) * (m + 50) = y * m * n + 50 * (y * n)
        /\ (x * m) * (n + 50) = x * (m * (n + 50))
    BY <1>1
  <2> QED
    BY <1>1, <2>1, <2>2, <2>3, <2>4
<1>4. /\ (x * m + 50 * m + 2500) * (n + 50)
         = (x * m) * (n + 50) + 50 * (m + 50) * (n + 50)
      /\ (y * n + 50 * n + 2500) * (m + 50)
         = (y * n) * (m + 50) + 50 * (m + 50) * (n + 50)
  BY <1>1
<1> QED
  BY <1>1, <1>2, <1>3, <1>4 DEF Below

------------------------------------------------------------------------------
(* The invariant of the cache and of the requests.                          *)

(* What pick_best_model gives for every set of models that responded.       *)
Best == [responded \in SUBSET Models |-> PickBest(responded)]

(* A row was stored by a request that was still alive, for a comparison     *)
(* whose first model is the best one; it is complete when it says so.       *)
RowInv ==
    row # NoRow => /\ row.body.since <= row.fetchedAt /\ row.fetchedAt <= now
                   /\ row.fetchedAt <= row.body.since + Life
                   /\ row.complete <=> row.body.responded = Models
                   /\ row.body.default = Best[row.body.responded]

(* A comparison that was shown, or is about to be, is of its day, and one   *)
(* with silent models is recent (ShownIsFresh, one stage earlier).          *)
FreshFor(body, since) ==
    /\ Day(body.since + Life) >= Day(since)
    /\ body.responded # Models => body.since + Life + Window > since

(* A request is not older than its life, carries its own comparison until   *)
(* it has stored it, and one that looked and found no row for its day       *)
(* looked before the one that is there now was stored.                      *)
RequestInv(u) ==
    LET r == req[u] IN
    /\ r.since <= now
    /\ r.stage \in {"fetching", "storing"} => now <= r.since + Life
    /\ r.stage = "storing" => r.body.since = r.since
    /\ r.stage \in {"cached", "answered"} => FreshFor(r.body, r.since)
    /\ r.stage \in {"storing", "cached", "answered"}
       => r.body.default = Best[r.body.responded]
    /\ /\ r.stage \in {"fetching", "storing"} /\ ~r.blind
       /\ row # NoRow /\ row.complete /\ Day(row.fetchedAt) = Day(now)
       => r.since <= row.fetchedAt

CompareInv ==
    /\ TypeOK
    /\ backtest \in Backtests
    /\ RowInv
    /\ \A u \in Users : RequestInv(u)

(* Later instants are of later days.                                        *)
LEMMA DayGrows ==
  ASSUME NEW x \in Nat, NEW y \in Nat, x <= y
  PROVE  Day(x) \in Nat /\ Day(x) <= Day(y)
<1>1. \A d \in Nat \ {0} : x \div d \in Nat /\ x \div d <= y \div d
  OBVIOUS
<1> QED
  BY <1>1, ClockAssumption DEF Day

(* For every set of models that responded there is a first one.             *)
LEMMA BestTyped ==
  ASSUME backtest \in Backtests
  PROVE  Best \in [SUBSET Models -> Models]
<1>1. backtest \in [Directional -> Backtest \cup {NoBacktest}]
  BY BacktestsAssumption
<1>2. \A responded \in SUBSET Models : PickBest(responded) \in Models
  BY <1>1, BestPicked
<1> QED
  BY <1>2 DEF Best

(* The first model depends on what the models reported, and on nothing      *)
(* that a request changes.                                                  *)
LEMMA BestKept ==
  ASSUME UNCHANGED backtest
  PROVE  UNCHANGED Best
BY DEF Best, PickBest, Ranked, Below

(* Nothing else holds of a request that a step leaves alone.                *)
LEMMA OtherRequest ==
  ASSUME CompareInv, UNCHANGED <<now, backtest, row>>, NEW u \in Users, req'[u] = req[u]
  PROVE  RequestInv(u)'
<1>1. UNCHANGED Best
  BY BestKept
<1> QED
  BY <1>1 DEF CompareInv, RequestInv, FreshFor, Day

LEMMA EmptyTyped ==
  Empty \in Body /\ Idle \in Request
BY NamesAssumption, ClockAssumption
   DEF Empty, Idle, Body, Request, Stages, Times, Directional

LEMMA InitCompare ==
  ASSUME Init PROVE CompareInv
<1>1. TypeOK
  BY EmptyTyped, ClockAssumption DEF Init, TypeOK, Times
<1>2. \A u \in Users : RequestInv(u)
  BY DEF Init, RequestInv, Idle
<1> QED
  BY <1>1, <1>2 DEF Init, CompareInv, RowInv

------------------------------------------------------------------------------
(* One lemma per step of a request.                                         *)

(* The three outcomes of the look into the cache: a row that is of use is   *)
(* fresh for this request, and a row that is not is not complete, or of     *)
(* another day.                                                             *)
LEMMA OpenKeeps ==
  ASSUME CompareInv, NEW u \in Users, CompareOpen(u)
  PROVE  CompareInv'
<1>1. /\ now \in Times /\ now \in Nat /\ UNCHANGED <<now, backtest, row>> /\ UNCHANGED Best
      /\ req \in [Users -> Request] /\ row \in Row \cup {NoRow}
  BY BestKept, ClockAssumption DEF CompareOpen, CompareInv, TypeOK, Times
<1>2. CASE Usable /\ req' = [req EXCEPT ![u] = [stage |-> "cached", since |-> now,
                                                body |-> row.body, blind |-> FALSE]]
  <2>1. row # NoRow /\ row \in Row /\ row.body \in Body
    BY <1>1, <1>2 DEF Usable, Row
  <2>2. /\ row.body.since \in Nat /\ row.fetchedAt \in Nat
        /\ row.fetchedAt <= row.body.since + Life
    BY <2>1, ClockAssumption DEF CompareInv, RowInv, Row, Body, Times
  <2>3. Day(row.body.since + Life) >= Day(now)
    <3>1. Day(row.fetchedAt) <= Day(row.body.since + Life)
      BY <2>2, ClockAssumption, DayGrows
    <3> QED
      BY <1>2, <3>1 DEF Usable
  <2>4. row.body.responded # Models => row.body.since + Life + Window > now
    BY <1>1, <1>2, <2>1, <2>2, ClockAssumption DEF Usable, CompareInv, RowInv
  <2>5. FreshFor(row.body, now) /\ row.body.default = Best[row.body.responded]
    BY <2>1, <2>3, <2>4 DEF FreshFor, CompareInv, RowInv
  <2>6. TypeOK'
    BY <1>1, <1>2, <2>1 DEF TypeOK, Request, Stages
  <2>7. req'[u] = [stage |-> "cached", since |-> now, body |-> row.body, blind |-> FALSE]
    BY <1>1, <1>2
  <2>8. RequestInv(u)'
    BY <1>1, <2>5, <2>7 DEF RequestInv, FreshFor, Day
  <2>9. \A v \in Users \ {u} : RequestInv(v)'
    BY <1>1, <1>2, OtherRequest
  <2> QED
    BY <1>1, <2>6, <2>8, <2>9 DEF CompareInv, RowInv
<1>3. ASSUME NEW b \in BOOLEAN, b \/ ~Usable,
             req' = [req EXCEPT ![u] = [stage |-> "fetching", since |-> now,
                                        body |-> Empty, blind |-> b]]
      PROVE  CompareInv'
  <2>1. req'[u] = [stage |-> "fetching", since |-> now, body |-> Empty, blind |-> b]
    BY <1>1, <1>3
  <2>2. TypeOK'
    BY <1>1, <1>3, EmptyTyped DEF TypeOK, Request, Stages
  <2>3. ~b => ~(row # NoRow /\ row.complete /\ Day(row.fetchedAt) = Day(now))
    BY <1>3 DEF Usable
  <2>4. RequestInv(u)'
    BY <1>1, <2>1, <2>3, ClockAssumption DEF RequestInv, Day
  <2>5. \A v \in Users \ {u} : RequestInv(v)'
    BY <1>1, <1>3, OtherRequest
  <2> QED
    BY <1>1, <2>2, <2>4, <2>5 DEF CompareInv, RowInv
<1> QED
  BY <1>2, <1>3 DEF CompareOpen

(* What the models answered is chosen from as pick_best_model does, and is  *)
(* as old as the request; it is shown now or stored first.                  *)
LEMMA FetchKeeps ==
  ASSUME CompareInv, NEW u \in Users, CompareFetch(u)
  PROVE  CompareInv'
<1>1. /\ now \in Times /\ now \in Nat /\ UNCHANGED <<now, backtest, row>> /\ UNCHANGED Best
      /\ req \in [Users -> Request] /\ row \in Row \cup {NoRow}
      /\ Best \in [SUBSET Models -> Models]
  BY BestKept, BestTyped, ClockAssumption DEF CompareFetch, CompareInv, TypeOK, Times
<1>2. PICK modal \in ModalResponses, apiMl \in ApiMlResponses :
         req' = [req EXCEPT ![u].stage = IF apiMl[2] THEN "storing" ELSE "answered",
                            ![u].blind = @ /\ apiMl[2],
                            ![u].body = [responded |-> modal \cup apiMl[1],
                                         default |-> PickBest(modal \cup apiMl[1]),
                                         since |-> req[u].since]]
  BY DEF CompareFetch
<1> DEFINE responded == modal \cup apiMl[1]
           body == [responded |-> responded, default |-> PickBest(responded),
                    since |-> req[u].since]
<1>3. responded \in SUBSET Models /\ apiMl[2] \in BOOLEAN
  <2>1. apiMl = <<{}, FALSE>> \/ apiMl \in (SUBSET Local) \X {TRUE}
    BY DEF ApiMlResponses
  <2>2. CASE apiMl = <<{}, FALSE>>
    BY <2>2, NamesAssumption DEF ModalResponses, Directional
  <2>3. CASE apiMl \in (SUBSET Local) \X {TRUE}
    BY <2>3, NamesAssumption DEF ModalResponses, Directional
  <2> QED
    BY <2>1, <2>2, <2>3
<1>4. /\ req[u] \in Request /\ req[u].since \in Times /\ req[u].since \in Nat
      /\ req[u].blind \in BOOLEAN
  BY <1>1, ClockAssumption DEF Request, Times
<1>5. PickBest(responded) = Best[responded] /\ Best[responded] \in Models
  BY <1>1, <1>3 DEF Best
<1>6. body \in Body
  BY <1>3, <1>4, <1>5 DEF Body
<1>7. req'[u] = [stage |-> IF apiMl[2] THEN "storing" ELSE "answered",
                 since |-> req[u].since, body |-> body, blind |-> req[u].blind /\ apiMl[2]]
  BY <1>1, <1>2, <1>4 DEF Request
<1>8. body.since = req[u].since /\ body.default = Best[body.responded]
  BY <1>5
<1> HIDE DEF body, responded
<1>9. FreshFor(body, req[u].since)
  <2>1. Day(req[u].since) <= Day(req[u].since + Life) /\ Day(req[u].since) \in Nat
        /\ Day(req[u].since + Life) \in Nat
    BY <1>4, ClockAssumption, DayGrows
  <2> QED
    BY <1>4, <1>8, <2>1, ClockAssumption DEF FreshFor
<1>10. req'[u] \in Request /\ \A v \in Users \ {u} : req'[v] = req[v]
  BY <1>1, <1>2, <1>3, <1>4, <1>6, <1>7 DEF Request, Stages
<1>11. TypeOK'
  <2>1. req' = [v \in Users |-> req'[v]]
    BY <1>1, <1>2
  <2>2. req' \in [Users -> Request]
    BY <1>1, <1>10, <2>1
  <2> QED
    BY <1>1, <2>2 DEF TypeOK
<1>12. RequestInv(u)'
  <2>1. req[u].stage = "fetching" /\ RequestInv(u)
    BY DEF CompareFetch, CompareInv
  <2> QED
    BY <1>1, <1>3, <1>4, <1>7, <1>8, <1>9, <2>1 DEF RequestInv, FreshFor, Day
<1>13. \A v \in Users \ {u} : RequestInv(v)'
  BY <1>1, <1>10, OtherRequest
<1> QED
  BY <1>1, <1>11, <1>12, <1>13 DEF CompareInv, RowInv

(* The row that is stored holds the comparison of a living request, and it  *)
(* is younger than every request that is under way.                         *)
LEMMA StoreKeeps ==
  ASSUME CompareInv, NEW u \in Users, CompareStore(u)
  PROVE  CompareInv'
<1>1. /\ now \in Times /\ now \in Nat /\ UNCHANGED <<now, backtest>> /\ UNCHANGED Best
      /\ req \in [Users -> Request] /\ row \in Row \cup {NoRow}
  BY BestKept, ClockAssumption DEF CompareStore, CompareInv, TypeOK, Times
<1> DEFINE body == req[u].body
           new  == [body |-> body, complete |-> Complete(body.responded), fetchedAt |-> now]
<1>2. /\ req[u] \in Request /\ body \in Body /\ body.since \in Nat /\ body.since = req[u].since
      /\ req[u].since <= now /\ now <= req[u].since + Life
      /\ body.default = Best[body.responded]
  BY <1>1, ClockAssumption
     DEF CompareStore, CompareInv, RequestInv, Request, Body, Times
<1>3. new \in Row /\ row' \in {row, new}
  BY <1>1, <1>2 DEF Row, Complete, CompareStore
<1>4. req' = [req EXCEPT ![u] = [stage |-> "answered", since |-> req[u].since,
                                 body |-> body, blind |-> FALSE]]
  <2>1. req'[u] = [stage |-> "answered", since |-> req[u].since,
                   body |-> req[u].body, blind |-> FALSE]
    <3>1. req[u] \in Request
      BY <1>2
    <3> QED
      BY <1>1, <3>1 DEF CompareStore, Request
  <2>2. req' = [v \in Users |-> IF v = u THEN req'[u] ELSE req[v]]
    BY <1>1 DEF CompareStore
  <2> QED
    BY <1>1, <2>1, <2>2
<1>5. TypeOK'
  BY <1>1, <1>2, <1>3, <1>4 DEF TypeOK, Request, Stages
<1>6. RowInv'
  <2>1. CASE row' = row
    BY <1>1, <2>1 DEF CompareInv, RowInv
  <2>2. CASE row' = new
    <3>1. /\ row'.body = body /\ row'.fetchedAt = now
          /\ row'.complete <=> body.responded = Models
      BY <2>2 DEF Complete
    <3> QED
      BY <1>1, <1>2, <3>1 DEF RowInv
  <2> QED
    BY <1>3, <2>1, <2>2
<1>7. RequestInv(u)'
  <2>1. FreshFor(body, req[u].since)
    <3>1. /\ Day(req[u].since) <= Day(req[u].since + Life) /\ Day(req[u].since) \in Nat
          /\ Day(req[u].since + Life) \in Nat
      BY <1>2, ClockAssumption, DayGrows
    <3> QED
      BY <1>2, <3>1, ClockAssumption DEF FreshFor
  <2>2. /\ req'[u].stage = "answered" /\ req'[u].since = req[u].since
        /\ req'[u].body = body
    BY <1>1, <1>4
  <2> QED
    BY <1>1, <1>2, <2>1, <2>2 DEF RequestInv, FreshFor, Day
<1>8. ASSUME NEW v \in Users \ {u}
      PROVE  RequestInv(v)'
  <2>1. req'[v] = req[v] /\ RequestInv(v)
    BY <1>1, <1>4 DEF CompareInv
  <2>2. CASE row' = row
    BY <1>1, <2>1, <2>2, OtherRequest
  <2>3. CASE row' = new
    BY <1>1, <2>1, <2>3 DEF RequestInv, FreshFor, Day
  <2> QED
    BY <1>3, <2>2, <2>3
<1> QED
  BY <1>1, <1>5, <1>6, <1>7, <1>8 DEF CompareInv

LEMMA CachedKeeps ==
  ASSUME CompareInv, NEW u \in Users, CompareCached(u)
  PROVE  CompareInv'
<1>1. /\ UNCHANGED <<now, backtest, row>> /\ UNCHANGED Best
      /\ req \in [Users -> Request]
  BY BestKept DEF CompareCached, CompareInv, TypeOK
<1>2. req' = [req EXCEPT ![u] = [stage |-> "answered", since |-> req[u].since,
                                 body |-> req[u].body, blind |-> req[u].blind]]
  <2>1. [req[u] EXCEPT !.stage = "answered"]
        = [stage |-> "answered", since |-> req[u].since, body |-> req[u].body,
           blind |-> req[u].blind]
    BY <1>1 DEF Request
  <2>2. req' = [req EXCEPT ![u] = [req[u] EXCEPT !.stage = "answered"]]
    BY <1>1 DEF CompareCached
  <2> QED
    BY <2>1, <2>2
<1>3. TypeOK'
  BY <1>1, <1>2 DEF CompareInv, TypeOK, Request, Stages
<1>4. RequestInv(u)'
  <2>1. req[u].stage = "cached" /\ RequestInv(u)
    BY DEF CompareCached, CompareInv
  <2>2. /\ req'[u].stage = "answered" /\ req'[u].since = req[u].since
        /\ req'[u].body = req[u].body
    BY <1>1, <1>2
  <2> QED
    BY <1>1, <2>1, <2>2 DEF RequestInv, FreshFor, Day
<1>5. \A v \in Users \ {u} : RequestInv(v)'
  BY <1>1, <1>2, OtherRequest
<1> QED
  BY <1>1, <1>3, <1>4, <1>5 DEF CompareInv, RowInv

LEMMA CloseKeeps ==
  ASSUME CompareInv, NEW u \in Users, CompareClose(u)
  PROVE  CompareInv'
<1>1. /\ UNCHANGED <<now, backtest, row>> /\ UNCHANGED Best
      /\ req \in [Users -> Request] /\ req' = [req EXCEPT ![u] = Idle] /\ now \in Nat
  BY BestKept, ClockAssumption DEF CompareClose, CompareInv, TypeOK, Times
<1>2. TypeOK'
  BY <1>1, EmptyTyped DEF CompareInv, TypeOK
<1>3. RequestInv(u)'
  BY <1>1 DEF RequestInv, Idle
<1>4. \A v \in Users \ {u} : RequestInv(v)'
  BY <1>1, OtherRequest
<1> QED
  BY <1>1, <1>2, <1>3, <1>4 DEF CompareInv, RowInv

(* Time does not pass over the life of a request, and a row that is of the  *)
(* new day would have been of the old one.                                  *)
LEMMA TickKeeps ==
  ASSUME CompareInv, Tick
  PROVE  CompareInv'
<1>1. /\ UNCHANGED <<backtest, row, req>> /\ UNCHANGED Best /\ now' = now + 1
      /\ now \in Nat /\ now' \in Times /\ now' \in Nat
      /\ req \in [Users -> Request] /\ row \in Row \cup {NoRow}
  BY BestKept, ClockAssumption DEF Tick, CompareInv, TypeOK, Times
<1>2. TypeOK'
  BY <1>1 DEF CompareInv, TypeOK
<1>3. row # NoRow => row.fetchedAt \in Nat /\ row.fetchedAt <= now
  BY <1>1, ClockAssumption DEF CompareInv, RowInv, Row, Times
<1>4. RowInv'
  BY <1>1, <1>3 DEF CompareInv, RowInv
<1>5. row # NoRow /\ Day(row.fetchedAt) = Day(now + 1) => Day(row.fetchedAt) = Day(now)
  <2> SUFFICES ASSUME row # NoRow, Day(row.fetchedAt) = Day(now + 1)
               PROVE  Day(row.fetchedAt) = Day(now)
    OBVIOUS
  <2>1. /\ Day(row.fetchedAt) \in Nat /\ Day(now) \in Nat
        /\ Day(row.fetchedAt) <= Day(now) /\ Day(now) <= Day(now + 1)
    BY <1>1, <1>3, DayGrows
  <2> QED
    BY <2>1
<1>6. ASSUME NEW u \in Users
      PROVE  RequestInv(u)'
  <2>1. /\ RequestInv(u) /\ req[u].since \in Nat
        /\ req[u].stage \in {"fetching", "storing"} => now < req[u].since + Life
    BY <1>1, ClockAssumption DEF Tick, CompareInv, Request, Times
  <2>2. row' # NoRow /\ Day(row'.fetchedAt) = Day(now')
        => row # NoRow /\ Day(row.fetchedAt) = Day(now)
    BY <1>1, <1>5
  <2>3. /\ req'[u].since <= now'
        /\ req'[u].stage \in {"fetching", "storing"} => now' <= req'[u].since + Life
    BY <1>1, <2>1, ClockAssumption DEF RequestInv
  <2> QED
    BY <1>1, <2>1, <2>2, <2>3 DEF RequestInv, FreshFor, Day
<1> QED
  BY <1>1, <1>2, <1>4, <1>6 DEF CompareInv

LEMMA NextCompare ==
  ASSUME CompareInv, [Next]_vars PROVE CompareInv'
<1>1. CASE UNCHANGED vars
  <2>1. UNCHANGED <<now, backtest, row, req>> /\ UNCHANGED Best
    BY <1>1, BestKept DEF vars
  <2>2. \A u \in Users : RequestInv(u)'
    BY <2>1, OtherRequest
  <2> QED
    BY <2>1, <2>2 DEF CompareInv, TypeOK, RowInv
<1>2. CASE Next
  BY <1>2, OpenKeeps, FetchKeeps, StoreKeeps, CachedKeeps, CloseKeeps, TickKeeps DEF Next
<1> QED
  BY <1>1, <1>2

LEMMA CompareInvariance == Spec => []CompareInv
<1>1. Init => CompareInv
  BY InitCompare
<1>2. CompareInv /\ [Next]_vars => CompareInv'
  BY NextCompare
<1> QED
  BY <1>1, <1>2, PTL DEF Spec

------------------------------------------------------------------------------
(* Theorems                                                                 *)

(* The state is always typed: in particular the model shown first is one of *)
(* the models, and no request outlives the clock.                           *)
THEOREM TypeCorrect == Spec => []TypeOK
<1>1. CompareInv => TypeOK
  BY DEF CompareInv
<1> QED
  BY <1>1, CompareInvariance, PTL

(* What ticker_compare_cache shows is of the day, and recent when a model   *)
(* is silent, up to the life of the request that computed it.               *)
THEOREM ShownFresh == Spec => []ShownIsFresh
<1>1. CompareInv => ShownIsFresh
  BY DEF CompareInv, RequestInv, FreshFor, ShownIsFresh
<1> QED
  BY <1>1, CompareInvariance, PTL

(* pick_best_model shows first a model that nobody beats.                   *)
THEOREM NotDominated == Spec => []DefaultIsNotDominated
<1>1. ASSUME CompareInv, NEW u \in Users, req[u].stage = "answered",
             Ranked(req[u].body.responded) # {}
      PROVE  /\ req[u].body.default \in Ranked(req[u].body.responded)
             /\ \A m \in Ranked(req[u].body.responded) :
                   ~Worse(backtest[req[u].body.default], backtest[m])
  <2> DEFINE body == req[u].body
             R == Ranked(body.responded)
  <2>1. /\ backtest \in [Directional -> Backtest \cup {NoBacktest}]
        /\ body.responded \in SUBSET Models /\ body.default = Best[body.responded]
    BY <1>1, BacktestsAssumption DEF CompareInv, RequestInv, TypeOK, Request, Body
  <2>2. body.default = PickBest(body.responded)
    BY <2>1 DEF Best
  <2> HIDE DEF body
  <2>3. IsBest(body.default, R)
    BY <1>1, <2>1, <2>2, BestPicked DEF body
  <2>4. \A m \in R : backtest[m] \in Backtest
    BY <2>1 DEF Ranked
  <2>5. body.default \in R /\ \A m \in R : ~Below(Score(backtest[body.default]),
                                                  Score(backtest[m]))
    BY <2>3 DEF IsBest
  <2>6. \A m \in R : ~Worse(backtest[body.default], backtest[m])
    BY <2>4, <2>5, WorseIsBelow
  <2> QED
    BY <2>5, <2>6 DEF body
<1>2. CompareInv => DefaultIsNotDominated
  BY <1>1 DEF DefaultIsNotDominated
<1> QED
  BY <1>2, CompareInvariance, PTL

(* A complete comparison is not replaced within its day by a request that   *)
(* found it.                                                                *)
THEOREM DayServed == Spec => CompleteServesItsDay
<1>1. ASSUME CompareInv, [Next]_vars, NEW u \in Users, row # NoRow, row.complete,
             Day(row.fetchedAt) = Day(now), req[u].stage = "storing"
      PROVE  req[u].blind \/ req[u].since <= row.fetchedAt
  BY <1>1 DEF CompareInv, RequestInv
<1>2. CompareInv /\ [Next]_vars
      => [\A u \in Users :
            /\ row # NoRow /\ row' # row
            /\ row.complete /\ Day(row.fetchedAt) = Day(now)
            /\ req[u].stage = "storing" /\ req'[u].stage = "answered"
            => req[u].blind \/ req[u].since <= row.fetchedAt]_vars
  BY <1>1
<1> QED
  BY <1>2, CompareInvariance, PTL DEF Spec, CompleteServesItsDay
==============================================================================
