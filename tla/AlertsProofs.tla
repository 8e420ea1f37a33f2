----------------------------- MODULE AlertsProofs -----------------------------
(***************************************************************************)
(* Theorems of TrendCache and of Alerts, which adds the daily job to it,   *)
(* for any users, tickers, models, conditions and bound of preparations.   *)
(***************************************************************************)
EXTENDS Alerts, FiniteSetTheorems, TLAPS

USE ModelsAssumption, CapacityAssumption, SubscriptionAssumption, EntryAssumption

(* A request is answered on the day it began or on the next one; what it    *)
(* fetched was predicted since it began, what it shows the day before at    *)
(* most.                                                                    *)
FreshScreen(x, d) ==
    /\ x.open => x.since <= d /\ d <= x.since + 1
    /\ ~x.open => x.todo = {} /\ x.got = {} /\ x.shown = {}
    /\ \A p \in x.got : p.asOf >= x.since
    /\ \A p \in x.shown : p.asOf + 1 >= x.since

(* A row was stored on the day of its prediction or on the next one.        *)
FreshRow(row) == row # NoEntry => row.payload.asOf + 1 >= row.fetchedAt

ScreenInv ==
    /\ ScreenTypeOK /\ IsFiniteSet(preparing)
    /\ \A u \in Users : FreshScreen(screen[u], day)
    /\ \A t \in Tickers : FreshRow(cache[t])

(* A screen that is closed shows nothing.                                   *)
LEMMA ClosedTyped == Closed \in Screen /\ \A d \in Int : FreshScreen(Closed, d)
BY DEF Closed, Screen, FreshScreen

(* The invariant of the screens holds initially.                            *)
LEMMA InitScreen == ScreenInit => ScreenInv
<1> SUFFICES ASSUME ScreenInit PROVE ScreenInv
  OBVIOUS
<1>1. IsFiniteSet(preparing) /\ Cardinality(preparing) = 0
  BY FS_EmptySet DEF ScreenInit
<1>2. screen \in [Users -> Screen] /\ \A u \in Users : FreshScreen(screen[u], day)
  BY ClosedTyped DEF ScreenInit
<1>3. cache \in [Tickers -> CacheRow \cup {NoEntry}] /\ \A t \in Tickers : FreshRow(cache[t])
  BY DEF ScreenInit, FreshRow
<1>4. prefers \in [Users -> [Tickers -> Models]]
  BY DEF ScreenInit
<1>5. ScreenTypeOK
  BY <1>1, <1>2, <1>3, <1>4 DEF ScreenInit, ScreenTypeOK
<1> QED
  BY <1>1, <1>2, <1>3, <1>5 DEF ScreenInv

------------------------------------------------------------------------------
(* Steps of the screens.                                                    *)

(* A step that gives one screen another state.                              *)
LEMMA ScreenMoves ==
  ASSUME ScreenInv, NEW u \in Users, NEW x \in Screen, screen' = [screen EXCEPT ![u] = x],
         FreshScreen(x, day), UNCHANGED <<day, predicted, holds, prefers>>,
         preparing' \subseteq Tickers, IsFiniteSet(preparing'),
         Cardinality(preparing') <= MaxPreparations,
         cache' \in [Tickers -> CacheRow \cup {NoEntry}],
         \A t \in Tickers : FreshRow(cache'[t])
  PROVE  ScreenInv'
<1>1. /\ screen' \in [Users -> Screen] /\ screen'[u] = x
      /\ \A v \in Users \ {u} : screen'[v] = screen[v]
  BY DEF ScreenInv, ScreenTypeOK
<1>2. \A v \in Users : FreshScreen(screen'[v], day')
  BY <1>1 DEF ScreenInv
<1>3. ScreenTypeOK'
  BY <1>1 DEF ScreenInv, ScreenTypeOK
<1>4. (\A t \in Tickers : FreshRow(cache[t]))'
  BY DEF FreshRow
<1>5. (\A v \in Users : FreshScreen(screen[v], day))'
  BY <1>2 DEF FreshScreen
<1> QED
  BY <1>3, <1>4, <1>5 DEF ScreenInv

(* What stays as it was is as it should be.                                 *)
LEMMA RestIsFine ==
  ASSUME ScreenInv
  PROVE  /\ UNCHANGED preparing => /\ preparing' \subseteq Tickers /\ IsFiniteSet(preparing')
                                   /\ Cardinality(preparing') <= MaxPreparations
         /\ UNCHANGED cache => /\ cache' \in [Tickers -> CacheRow \cup {NoEntry}]
                               /\ \A t \in Tickers : FreshRow(cache'[t])
BY DEF ScreenInv, ScreenTypeOK

(* The answers of a day.                                                    *)
LEMMA PredictionTyped ==
  ASSUME ScreenTypeOK, NEW m \in Models, NEW t \in Tickers, predicted[m][t] # Untrained
  PROVE  /\ Prediction(m, t) \in Payload /\ Prediction(m, t).asOf = day
         /\ Prediction(m, t).condition \in Conditions
<1>1. predicted[m][t] \in Conditions /\ day \in 0 .. MaxDay
  BY DEF ScreenTypeOK, Answers
<1> QED
  BY <1>1 DEF Prediction, Payload

(* The rows that are stored today.                                          *)
LEMMA StoredTyped ==
  ASSUME ScreenTypeOK, NEW p \in Payload, NEW by \in {"screen", "job"}, day <= p.asOf + 1
  PROVE  /\ Stored(p, by) \in CacheRow /\ FreshRow(Stored(p, by))
         /\ Stored(p, by).payload = p /\ Stored(p, by).by = by
BY DEF ScreenTypeOK, Stored, CacheRow, FreshRow

(* A request opens with the rows of today, or with none of them.            *)
LEMMA OpenKeeps ==
  ASSUME ScreenInv, NEW u \in Users, ScreenOpen(u)
  PROVE  ScreenInv'
<1>0. PICK hits \in {{t \in holds[u] : Hit(u, t)}, {}} :
         screen' = [screen EXCEPT ![u] =
            [open |-> TRUE, since |-> day,
             todo |-> {<<prefers[u][t], t>> : t \in holds[u] \ hits},
             got |-> {}, shown |-> {cache[t].payload : t \in hits}]]
  BY DEF ScreenOpen
<1> DEFINE x == [open |-> TRUE, since |-> day,
                 todo |-> {<<prefers[u][t], t>> : t \in holds[u] \ hits},
                 got |-> {}, shown |-> {cache[t].payload : t \in hits}]
<1>1. /\ screen' = [screen EXCEPT ![u] = x]
      /\ UNCHANGED <<day, predicted, holds, prefers, cache, preparing>>
  BY <1>0 DEF ScreenOpen
<1>2. /\ holds[u] \subseteq Tickers /\ day \in 0 .. MaxDay
      /\ \A t \in Tickers : prefers[u][t] \in Models
      /\ \A t \in Tickers : cache[t] \in CacheRow \cup {NoEntry}
  BY DEF ScreenInv, ScreenTypeOK
<1>3. /\ hits \subseteq holds[u]
      /\ \A t \in hits : /\ cache[t] \in CacheRow /\ cache[t].payload \in Payload
                         /\ cache[t].payload.asOf + 1 >= day
  BY <1>0, <1>2 DEF Hit, ScreenInv, FreshRow, CacheRow
<1>4. x.todo \in SUBSET (Models \X Tickers)
  BY <1>2
<1>5. x.shown \in SUBSET Payload /\ \A p \in x.shown : p.asOf + 1 >= day
  BY <1>3
<1>6. x.open = TRUE /\ x.since = day /\ x.got = {}
  OBVIOUS
<1>7. x \in Screen
  BY <1>2, <1>4, <1>5 DEF Screen
<1> HIDE DEF x
<1>8. FreshScreen(x, day)
  BY <1>2, <1>5, <1>6 DEF FreshScreen
<1> QED
  BY <1>1, <1>7, <1>8, ScreenMoves, RestIsFine

(* Another preparation begins only while there are fewer than the bound.    *)
LEMMA PrepareKeeps ==
  ASSUME ScreenInv, NEW t \in Tickers, Prepare(t)
  PROVE  /\ preparing' \subseteq Tickers /\ IsFiniteSet(preparing')
         /\ Cardinality(preparing') <= MaxPreparations
<1>1. /\ preparing \subseteq Tickers /\ IsFiniteSet(preparing)
      /\ Cardinality(preparing) <= MaxPreparations
  BY DEF ScreenInv, ScreenTypeOK
<1>2. Cardinality(preparing) \in Nat
  BY <1>1, FS_CardinalityType
<1>3. CASE Cardinality(preparing) >= MaxPreparations
  BY <1>1, <1>3 DEF Prepare
<1>4. CASE ~(Cardinality(preparing) >= MaxPreparations)
  <2>1. preparing' = preparing \cup {t}
    BY <1>4 DEF Prepare
  <2>2. IsFiniteSet(preparing') /\ Cardinality(preparing') <= Cardinality(preparing) + 1
    <3>1. /\ IsFiniteSet(preparing \cup {t})
          /\ Cardinality(preparing \cup {t}) =
                IF t \in preparing THEN Cardinality(preparing) ELSE Cardinality(preparing) + 1
      BY <1>1, FS_AddElement
    <3>2. Cardinality(preparing \cup {t}) <= Cardinality(preparing) + 1
      BY <1>2, <3>1
    <3> QED
      BY <2>1, <3>1, <3>2
  <2>3. Cardinality(preparing') \in Nat
    BY <2>2, FS_CardinalityType
  <2> QED
    BY <1>1, <1>2, <1>4, <2>1, <2>2, <2>3
<1> QED
  BY <1>3, <1>4

(* What arrives is of the day it arrives.                                   *)
LEMMA FetchKeeps ==
  ASSUME ScreenInv, NEW u \in Users, NEW m \in Models, NEW t \in Tickers, ScreenFetch(u, m, t)
  PROVE  ScreenInv'
<1> DEFINE todo == screen[u].todo \ {<<m, t>>}
           answered == [screen[u] EXCEPT !.todo = todo,
                                         !.got = screen[u].got \cup {Prediction(m, t)}]
           silent == [screen[u] EXCEPT !.todo = todo]
<1>1. /\ screen[u] \in Screen /\ FreshScreen(screen[u], day) /\ day \in 0 .. MaxDay
      /\ <<m, t>> \in screen[u].todo
  BY DEF ScreenInv, ScreenTypeOK, ScreenFetch
<1>2. UNCHANGED <<day, predicted, holds, prefers, cache>>
  BY DEF ScreenFetch
<1>3. /\ silent \in Screen /\ silent.open = screen[u].open /\ silent.since = screen[u].since
      /\ silent.todo = todo /\ silent.got = screen[u].got /\ silent.shown = screen[u].shown
  BY <1>1 DEF Screen
<1>4. screen[u].open /\ screen[u].since <= day
  BY <1>1 DEF FreshScreen
<1>5. CASE /\ predicted[m][t] # Untrained /\ screen' = [screen EXCEPT ![u] = answered]
           /\ UNCHANGED preparing
  <2>1. Prediction(m, t) \in Payload /\ Prediction(m, t).asOf = day
    BY <1>5, PredictionTyped DEF ScreenInv
  <2>2. /\ answered \in Screen /\ answered.open = screen[u].open
        /\ answered.since = screen[u].since /\ answered.todo = todo
        /\ answered.got = screen[u].got \cup {Prediction(m, t)}
        /\ answered.shown = screen[u].shown
    BY <1>1, <2>1 DEF Screen
  <2> HIDE DEF answered
  <2>3. FreshScreen(answered, day)
    BY <1>1, <1>4, <2>1, <2>2 DEF FreshScreen
  <2> QED
    BY <1>2, <1>5, <2>2, <2>3, ScreenMoves, RestIsFine
<1>6. CASE screen' = [screen EXCEPT ![u] = silent] /\ (Prepare(t) \/ UNCHANGED preparing)
  <2> HIDE DEF silent
  <2>1. FreshScreen(silent, day)
    BY <1>1, <1>3 DEF FreshScreen
  <2> QED
    BY <1>2, <1>3, <1>6, <2>1, ScreenMoves, RestIsFine, PrepareKeeps
<1> QED
  BY <1>5, <1>6 DEF ScreenFetch

(* What is stored is of the day or of the one before.                       *)
LEMMA StoreKeeps ==
  ASSUME ScreenInv, NEW u \in Users, NEW p \in screen[u].got, ScreenStore(u, p)
  PROVE  ScreenInv'
<1> DEFINE x == [screen[u] EXCEPT !.got = screen[u].got \ {p},
                                  !.shown = screen[u].shown \cup {p}]
<1>1. /\ screen[u] \in Screen /\ FreshScreen(screen[u], day) /\ day \in 0 .. MaxDay
      /\ screen' = [screen EXCEPT ![u] = x]
      /\ UNCHANGED <<day, predicted, holds, prefers, preparing>>
  BY DEF ScreenInv, ScreenTypeOK, ScreenStore
<1>2. p \in Payload /\ p.asOf \in 0 .. MaxDay /\ p.ticker \in Tickers
  BY <1>1 DEF Screen, Payload
<1>3. screen[u].open /\ screen[u].since \in 0 .. MaxDay /\ day <= screen[u].since + 1
      /\ p.asOf >= screen[u].since
  BY <1>1 DEF FreshScreen, Screen
<1>4. day <= p.asOf + 1 /\ p.asOf + 1 >= screen[u].since
  BY <1>1, <1>2, <1>3
<1>5. /\ x \in Screen /\ x.open = screen[u].open /\ x.since = screen[u].since
      /\ x.todo = screen[u].todo /\ x.got = screen[u].got \ {p}
      /\ x.shown = screen[u].shown \cup {p}
  BY <1>1, <1>2 DEF Screen
<1> HIDE DEF x
<1>6. FreshScreen(x, day)
  BY <1>1, <1>3, <1>4, <1>5 DEF FreshScreen
<1>7. /\ cache' \in [Tickers -> CacheRow \cup {NoEntry}]
      /\ \A t \in Tickers : FreshRow(cache'[t])
  <2>1. Stored(p, "screen") \in CacheRow /\ FreshRow(Stored(p, "screen"))
    BY <1>2, <1>4, StoredTyped DEF ScreenInv
  <2>2. cache' = cache \/ cache' = [cache EXCEPT ![p.ticker] = Stored(p, "screen")]
    BY DEF ScreenStore
  <2> QED
    BY <1>2, <2>1, <2>2 DEF ScreenInv, ScreenTypeOK
<1> QED
  BY <1>1, <1>5, <1>6, <1>7, ScreenMoves, RestIsFine

(* A request that ends shows nothing any more.                              *)
LEMMA CloseKeeps ==
  ASSUME ScreenInv, NEW u \in Users, ScreenClose(u)
  PROVE  ScreenInv'
<1>1. day \in Int
  BY DEF ScreenInv, ScreenTypeOK
<1>2. /\ screen' = [screen EXCEPT ![u] = Closed]
      /\ UNCHANGED <<day, predicted, holds, prefers, cache, preparing>>
  BY DEF ScreenClose
<1> QED
  BY <1>1, <1>2, ClosedTyped, ScreenMoves, RestIsFine

(* Steps that give a screen nothing.                                        *)
LEMMA OthersKeep ==
  ASSUME ScreenInv,
         \/ \E t \in Tickers : PrepareDone(t)
         \/ \E u \in Users, m \in Models, t \in Tickers : Prefer(u, m, t)
         \/ \E u \in Users, ts \in SUBSET Tickers : Invest(u, ts)
         \/ ScreenRestart
         \/ NewDay
         \/ UNCHANGED screenVars
  PROVE  ScreenInv'
<1> USE DEF ScreenInv
<1>1. /\ UNCHANGED cache
      /\ cache \in [Tickers -> CacheRow \cup {NoEntry}]
      /\ \A t \in Tickers : FreshRow(cache[t])
  BY DEF ScreenTypeOK, PrepareDone, Prefer, Invest, ScreenRestart, NewDay, screenVars
<1>2. /\ preparing' \subseteq Tickers /\ IsFiniteSet(preparing')
      /\ Cardinality(preparing') <= MaxPreparations
  <2>1. /\ preparing \subseteq Tickers /\ IsFiniteSet(preparing)
        /\ Cardinality(preparing) <= MaxPreparations
    BY DEF ScreenTypeOK
  <2>2. ASSUME NEW t \in Tickers, preparing' = preparing \ {t}
        PROVE  IsFiniteSet(preparing') /\ Cardinality(preparing') <= MaxPreparations
    <3>1. IsFiniteSet(preparing') /\ Cardinality(preparing') <= Cardinality(preparing)
      BY <2>1, <2>2, FS_Subset
    <3>2. Cardinality(preparing') \in Nat /\ Cardinality(preparing) \in Nat
      BY <2>1, <3>1, FS_CardinalityType
    <3> QED
      BY <2>1, <3>1, <3>2
  <2>3. CASE preparing' = {}
    BY <2>3, FS_EmptySet
  <2>4. \/ UNCHANGED preparing \/ preparing' = {}
        \/ \E t \in Tickers : preparing' = preparing \ {t}
    BY DEF PrepareDone, Prefer, Invest, ScreenRestart, NewDay, screenVars
  <2> QED
    BY <2>1, <2>2, <2>3, <2>4
<1>3. holds' \in [Users -> SUBSET Tickers]
  BY DEF ScreenTypeOK, PrepareDone, Prefer, Invest, ScreenRestart, NewDay, screenVars
<1>4. prefers' \in [Users -> [Tickers -> Models]]
  <2>1. prefers \in [Users -> [Tickers -> Models]]
    BY DEF ScreenTypeOK
  <2>2. ASSUME NEW u \in Users, NEW m \in Models, NEW t \in Tickers, Prefer(u, m, t)
        PROVE  prefers' \in [Users -> [Tickers -> Models]]
    BY <2>1, <2>2 DEF Prefer
  <2>3. UNCHANGED prefers \/ \E u \in Users, m \in Models, t \in Tickers : Prefer(u, m, t)
    BY DEF PrepareDone, Invest, ScreenRestart, NewDay, screenVars
  <2> QED
    BY <2>1, <2>2, <2>3
<1>5. predicted' \in Answers
  BY DEF ScreenTypeOK, PrepareDone, Prefer, Invest, ScreenRestart, NewDay, screenVars
<1>6. /\ day \in 0 .. MaxDay /\ day' \in 0 .. MaxDay
      /\ \/ UNCHANGED <<day, screen>>
         \/ UNCHANGED day /\ screen' = [u \in Users |-> Closed]
         \/ /\ day' = day + 1 /\ UNCHANGED screen
            /\ \A u \in Users : screen[u].open => screen[u].since = day
  <2>1. day \in 0 .. MaxDay /\ MaxDay \in Nat
    BY DEF ScreenTypeOK
  <2>2. CASE NewDay
    BY <2>1, <2>2 DEF NewDay
  <2>3. CASE ~NewDay
    BY <2>1, <2>3 DEF PrepareDone, Prefer, Invest, ScreenRestart, screenVars
  <2> QED
    BY <2>2, <2>3
<1>7. screen' \in [Users -> Screen] /\ \A u \in Users : FreshScreen(screen'[u], day')
  <2>1. screen \in [Users -> Screen] /\ \A u \in Users : FreshScreen(screen[u], day)
    BY DEF ScreenTypeOK
  <2>2. CASE UNCHANGED <<day, screen>>
    BY <2>1, <2>2
  <2>3. CASE UNCHANGED day /\ screen' = [u \in Users |-> Closed]
    BY <1>6, <2>3, ClosedTyped
  <2>4. CASE /\ day' = day + 1 /\ UNCHANGED screen
             /\ \A u \in Users : screen[u].open => screen[u].since = day
    BY <1>6, <2>1, <2>4 DEF FreshScreen
  <2> QED
    BY <1>6, <2>2, <2>3, <2>4
<1>8. ScreenTypeOK'
  BY <1>1, <1>2, <1>3, <1>4, <1>5, <1>6, <1>7 DEF ScreenTypeOK
<1>9. (\A u \in Users : FreshScreen(screen[u], day))'
  BY <1>7 DEF FreshScreen
<1>10. (\A t \in Tickers : FreshRow(cache[t]))'
  BY <1>1 DEF FreshRow
<1> QED
  BY <1>2, <1>8, <1>9, <1>10

(* The invariant of the screens is kept by whatever is not the job.         *)
LEMMA NextScreen ==
  ASSUME ScreenInv,
         \/ ScreenNext \/ NewDay \/ ScreenRestart \/ UNCHANGED screenVars
         \/ \E u \in Users, ts \in SUBSET Tickers : Invest(u, ts)
  PROVE  ScreenInv'
<1>1. ASSUME NEW u \in Users, ScreenOpen(u) PROVE ScreenInv'
  BY <1>1, OpenKeeps
<1>2. ASSUME NEW u \in Users, ScreenClose(u) PROVE ScreenInv'
  BY <1>2, CloseKeeps
<1>3. ASSUME NEW u \in Users, NEW m \in Models, NEW t \in Tickers, ScreenFetch(u, m, t)
      PROVE  ScreenInv'
  BY <1>3, FetchKeeps
<1>4. ASSUME NEW u \in Users, NEW p \in screen[u].got, ScreenStore(u, p) PROVE ScreenInv'
  BY <1>4, StoreKeeps
<1> QED
  BY <1>1, <1>2, <1>3, <1>4, OthersKeep DEF ScreenNext

(* The invariant of the screens alone holds in every state.                 *)
LEMMA ScreenInvariance == ScreenSpec => []ScreenInv
<1>1. ScreenInv /\ [ScreenNext \/ NewDay \/ ScreenRestart]_screenVars => ScreenInv'
  BY NextScreen
<1> QED
  BY <1>1, InitScreen, PTL DEF ScreenSpec

(* Never more than MAX_CONCURRENT_PREPARATIONS preparations, however many   *)
(* screens ask for one (prepare_models_in_background).                      *)
THEOREM ScreenTypeCorrect == ScreenSpec => []ScreenTypeOK
<1>1. ScreenInv => ScreenTypeOK
  BY DEF ScreenInv
<1> QED
  BY <1>1, ScreenInvariance, PTL

(* What the screens show is of the day or of the day before, for any number *)
(* of them that store in the one cache (GET /user/shares/trends).           *)
THEOREM ScreensAreFresh == ScreenSpec => []ShownIsFresh
<1>1. ScreenInv => ShownIsFresh
  BY DEF ScreenInv, FreshScreen, ShownIsFresh
<1> QED
  BY <1>1, ScreenInvariance, PTL

------------------------------------------------------------------------------
(* The daily job.                                                           *)

(* The job has a ticker, and today's prediction once it has fetched it.     *)
JobHolds ==
    /\ job.stage \in {"fetch", "compare", "store"} => job.ticker \in Tickers
    /\ job.stage \in {"compare", "store"} => job.fresh \in Payload /\ job.fresh.asOf = day

(* What a row says of what the job stored last for its ticker: nothing, if  *)
(* a screen wrote it.                                                       *)
Tells(row, t) ==
    /\ row = NoEntry => told[t] = NoEntry
    /\ row # NoEntry /\ row.by = "job" => told[t] = row.payload.condition

IInv ==
    /\ ScreenInv /\ TypeOK /\ JobHolds
    /\ \A t \in Tickers : Tells(cache[t], t)
    /\ job.stage \in {"fetch", "compare"} => Tells(job.previous, job.ticker)

(* The job that sleeps is one.                                              *)
LEMMA SleepingTyped ==
  ASSUME NEW ran \in -1 .. MaxDay
  PROVE  Sleeping(ran) \in Job /\ Sleeping(ran).stage = "sleeping"
BY DEF Sleeping, Job, JobStages

(* The invariant holds initially.                                           *)
LEMMA InitIInv == Init => IInv
<1> SUFFICES ASSUME Init PROVE IInv
  OBVIOUS
<1>1. ScreenInv /\ ScreenTypeOK
  BY InitScreen DEF Init, ScreenInv
<1>2. job \in Job /\ job.stage = "sleeping"
  BY SleepingTyped DEF Init
<1>3. told \in [Tickers -> Conditions \cup {NoEntry}]
  BY DEF Init
<1>4. TypeOK
  BY <1>1, <1>2, <1>3 DEF Init, TypeOK
<1>5. \A t \in Tickers : Tells(cache[t], t)
  BY DEF Init, ScreenInit, Tells
<1> QED
  BY <1>1, <1>2, <1>4, <1>5 DEF IInv, JobHolds

(* A row that a screen stores tells nothing.                                *)
LEMMA ScreenTells ==
  ASSUME IInv, UNCHANGED told,
         ScreenNext \/ NewDay \/ ScreenRestart \/ UNCHANGED screenVars
         \/ \E u \in Users, ts \in SUBSET Tickers : Invest(u, ts)
  PROVE  (\A t \in Tickers : Tells(cache[t], t))'
<1>1. \A t \in Tickers : Tells(cache[t], t)
  BY DEF IInv
<1>2. CASE UNCHANGED cache
  BY <1>1, <1>2 DEF Tells
<1>3. ASSUME NEW u \in Users, NEW p \in screen[u].got,
             cache' = [cache EXCEPT ![p.ticker] = Stored(p, "screen")]
      PROVE  (\A t \in Tickers : Tells(cache[t], t))'
  <2>1. /\ ScreenTypeOK /\ screen[u] \in Screen /\ FreshScreen(screen[u], day)
        /\ day \in 0 .. MaxDay
    BY DEF IInv, ScreenInv, ScreenTypeOK
  <2>2. p \in Payload /\ p.asOf \in 0 .. MaxDay /\ day <= p.asOf + 1
    BY <2>1 DEF Screen, Payload, FreshScreen
  <2>3. Stored(p, "screen") \in CacheRow /\ Stored(p, "screen").by = "screen"
    BY <2>1, <2>2, StoredTyped
  <2>4. \A t \in Tickers : cache'[t] = cache[t] \/ cache'[t] = Stored(p, "screen")
    BY <1>3, <2>1 DEF ScreenTypeOK
  <2> QED
    BY <1>1, <2>3, <2>4 DEF Tells
<1>4. UNCHANGED cache \/ \E u \in Users : \E p \in screen[u].got :
         cache' = [cache EXCEPT ![p.ticker] = Stored(p, "screen")]
  BY DEF ScreenNext, ScreenOpen, ScreenClose, ScreenFetch, ScreenStore, Prefer, PrepareDone,
         NewDay, ScreenRestart, Invest, screenVars
<1> QED
  BY <1>2, <1>3, <1>4

(* A step of the screens, of their users or of the night.                   *)
LEMMA ScreensKeep ==
  ASSUME IInv, UNCHANGED told,
         ScreenNext \/ NewDay \/ ScreenRestart \/ UNCHANGED screenVars
         \/ \E u \in Users, ts \in SUBSET Tickers : Invest(u, ts),
         UNCHANGED job \/ job' = Sleeping(job.ran),
         UNCHANGED day \/ job.stage = "sleeping",
         subs' \subseteq Users \X (Tickers \cup {Portfolio}), mailed' \subseteq Users
  PROVE  IInv'
<1>1. ScreenInv' /\ ScreenTypeOK'
  BY NextScreen DEF IInv, ScreenInv
<1>2. (\A t \in Tickers : Tells(cache[t], t))'
  BY ScreenTells
<1>3. job' \in Job /\ (job' = job \/ job'.stage = "sleeping")
  <2>1. job \in Job /\ job.ran \in -1 .. MaxDay
    BY DEF IInv, TypeOK, Job
  <2> QED
    BY <2>1, SleepingTyped
<1>4. TypeOK'
  BY <1>1, <1>3 DEF IInv, TypeOK
<1>5. UNCHANGED day \/ job'.stage = "sleeping"
  BY <1>3
<1>6. JobHolds'
  BY <1>3, <1>5 DEF IInv, JobHolds
<1>7. (job.stage \in {"fetch", "compare"} => Tells(job.previous, job.ticker))'
  BY <1>3 DEF IInv, Tells
<1> QED
  BY <1>1, <1>2, <1>4, <1>6, <1>7 DEF IInv

(* A step of the job that stores nothing.                                   *)
LEMMA JobMoves ==
  ASSUME IInv, UNCHANGED <<screenVars, subs, told>>, NEW x \in Job, job' = x,
         mailed' \subseteq Users,
         x.stage \in {"fetch", "compare", "store"} => x.ticker \in Tickers,
         x.stage \in {"compare", "store"} => x.fresh \in Payload /\ x.fresh.asOf = day,
         x.stage \in {"fetch", "compare"} => Tells(x.previous, x.ticker)
  PROVE  IInv'
<1>1. ScreenInv' /\ ScreenTypeOK'
  BY NextScreen DEF IInv, ScreenInv, screenVars
<1>2. (\A t \in Tickers : Tells(cache[t], t))'
  BY ScreenTells DEF screenVars
<1>3. TypeOK'
  BY <1>1 DEF IInv, TypeOK
<1>4. JobHolds'
  BY DEF JobHolds, screenVars
<1>5. (job.stage \in {"fetch", "compare"} => Tells(job.previous, job.ticker))'
  BY DEF Tells
<1> QED
  BY <1>1, <1>2, <1>3, <1>4, <1>5 DEF IInv

(* The job reads what the row tells.                                        *)
LEMMA JobReadKeeps ==
  ASSUME IInv, NEW t \in Tickers, JobRead(t), UNCHANGED screenVars
  PROVE  IInv'
<1> DEFINE x == [job EXCEPT !.stage = "fetch", !.todo = job.todo \ {t}, !.ticker = t,
                            !.previous = cache[t], !.fresh = NoEntry]
<1>1. job \in Job /\ cache[t] \in CacheRow \cup {NoEntry}
  BY DEF IInv, TypeOK, ScreenTypeOK
<1>2. job' = x /\ UNCHANGED <<subs, told, mailed>>
  BY DEF JobRead
<1>3. /\ x \in Job /\ x.stage = "fetch" /\ x.ticker = t /\ x.previous = cache[t]
  BY <1>1 DEF Job, JobStages
<1> HIDE DEF x
<1>4. Tells(cache[t], t) /\ mailed' \subseteq Users
  BY <1>2 DEF IInv, TypeOK
<1> QED
  BY <1>2, <1>3, <1>4, JobMoves

(* The job fetches a prediction of today.                                   *)
LEMMA JobFetchKeeps ==
  ASSUME IInv, JobFetch, UNCHANGED screenVars
  PROVE  IInv'
<1> DEFINE p == Prediction(DefaultModel, job.ticker)
           answered == [job EXCEPT !.stage = "compare", !.fresh = p]
           silent == [job EXCEPT !.stage = "next"]
<1>1. /\ job \in Job /\ job.ticker \in Tickers /\ ScreenTypeOK /\ mailed' \subseteq Users
      /\ UNCHANGED <<subs, told>> /\ Tells(job.previous, job.ticker)
  BY DEF IInv, TypeOK, JobHolds, JobFetch
<1>2. CASE predicted[DefaultModel][job.ticker] # Untrained /\ job' = answered
  <2>1. p \in Payload /\ p.asOf = day
    BY <1>1, <1>2, PredictionTyped
  <2> HIDE DEF p
  <2>2. /\ answered \in Job /\ answered.stage = "compare" /\ answered.ticker = job.ticker
        /\ answered.fresh = p /\ answered.previous = job.previous
    BY <1>1, <2>1 DEF Job, JobStages
  <2> HIDE DEF answered
  <2> QED
    BY <1>1, <1>2, <2>1, <2>2, JobMoves
<1>3. CASE job' = silent
  <2>1. silent \in Job /\ silent.stage = "next"
    BY <1>1 DEF Job, JobStages
  <2> HIDE DEF silent
  <2> QED
    BY <1>1, <1>3, <2>1, JobMoves
<1> QED
  BY <1>2, <1>3 DEF JobFetch

(* The job mails users only.                                                *)
LEMMA JobCompareKeeps ==
  ASSUME IInv, JobCompare, UNCHANGED screenVars
  PROVE  IInv'
<1> DEFINE x == [job EXCEPT !.stage = "store"]
<1>1. /\ job \in Job /\ job' = x /\ UNCHANGED <<subs, told>>
      /\ job.ticker \in Tickers /\ job.fresh \in Payload /\ job.fresh.asOf = day
  BY DEF IInv, TypeOK, JobHolds, JobCompare
<1>2. mailed' \subseteq Users
  BY DEF JobCompare, Subscribers
<1>3. x \in Job /\ x.stage = "store" /\ x.ticker = job.ticker /\ x.fresh = job.fresh
  BY <1>1 DEF Job, JobStages
<1> HIDE DEF x
<1> QED
  BY <1>1, <1>2, <1>3, JobMoves

(* What the job stores is what it was told last.                            *)
LEMMA JobStoreKeeps ==
  ASSUME IInv, JobStore, UNCHANGED <<day, predicted, holds, prefers, screen, preparing>>
  PROVE  IInv'
<1> DEFINE x == [job EXCEPT !.stage = "next"]
           row == Stored(job.fresh, "job")
<1>1. /\ job \in Job /\ job.ticker \in Tickers /\ job.fresh \in Payload
      /\ job.fresh.asOf = day /\ day \in 0 .. MaxDay /\ ScreenTypeOK
      /\ told \in [Tickers -> Conditions \cup {NoEntry}]
  BY DEF IInv, TypeOK, JobHolds, JobStore, ScreenTypeOK
<1>2. /\ cache' = [cache EXCEPT ![job.ticker] = row] /\ job' = x /\ mailed' = {}
      /\ told' = [told EXCEPT ![job.ticker] = job.fresh.condition] /\ UNCHANGED subs
  BY DEF JobStore
<1>3. /\ row \in CacheRow /\ FreshRow(row) /\ row.payload = job.fresh /\ row.by = "job"
  BY <1>1, StoredTyped
<1>4. x \in Job /\ x.stage = "next"
  BY <1>1 DEF Job, JobStages
<1> HIDE DEF x, row
<1>5. /\ cache' \in [Tickers -> CacheRow \cup {NoEntry}] /\ cache'[job.ticker] = row
      /\ \A t \in Tickers \ {job.ticker} : cache'[t] = cache[t] /\ told'[t] = told[t]
      /\ told'[job.ticker] = job.fresh.condition
      /\ told' \in [Tickers -> Conditions \cup {NoEntry}]
  BY <1>1, <1>2, <1>3 DEF ScreenTypeOK, Payload
<1>6. ScreenTypeOK'
  BY <1>1, <1>5 DEF ScreenTypeOK, Answers
<1>7. ScreenInv'
  <2>1. (\A t \in Tickers : FreshRow(cache[t]))'
    BY <1>3, <1>5 DEF IInv, ScreenInv, FreshRow
  <2>2. (\A u \in Users : FreshScreen(screen[u], day))'
    BY DEF IInv, ScreenInv, FreshScreen
  <2> QED
    BY <1>6, <2>1, <2>2 DEF IInv, ScreenInv
<1>8. TypeOK'
  BY <1>2, <1>4, <1>5, <1>6 DEF IInv, TypeOK
<1>9. (\A t \in Tickers : Tells(cache[t], t))'
  <2> SUFFICES ASSUME NEW t \in Tickers PROVE Tells(cache[t], t)'
    OBVIOUS
  <2>1. CASE t = job.ticker
    BY <1>3, <1>5, <2>1 DEF Tells
  <2>2. CASE t # job.ticker
    BY <1>5, <2>2 DEF IInv, Tells
  <2> QED
    BY <2>1, <2>2
<1> QED
  BY <1>2, <1>4, <1>7, <1>8, <1>9 DEF IInv, JobHolds

(* A run begins with tickers to do and ends with none.                      *)
LEMMA JobRestsKeeps ==
  ASSUME IInv, JobStart \/ JobEnd, UNCHANGED screenVars
  PROVE  IInv'
<1>1. /\ job \in Job /\ job.ran \in -1 .. MaxDay /\ day \in -1 .. MaxDay
      /\ UNCHANGED <<subs, told>> /\ mailed' \subseteq Users
  BY DEF IInv, TypeOK, ScreenTypeOK, Job, JobStart, JobEnd
<1>2. ASSUME NEW ran \in -1 .. MaxDay, job' = Sleeping(ran) PROVE IInv'
  BY <1>1, <1>2, SleepingTyped, JobMoves
<1>3. ASSUME NEW tickers \in SUBSET Tickers,
             job' = [Sleeping(day) EXCEPT !.stage = "next", !.todo = tickers]
      PROVE  IInv'
  <2> DEFINE x == [Sleeping(day) EXCEPT !.stage = "next", !.todo = tickers]
  <2>1. Sleeping(day) \in Job
    BY <1>1, SleepingTyped
  <2>2. x \in Job /\ x.stage = "next"
    BY <2>1 DEF Job, JobStages
  <2> HIDE DEF x
  <2> QED
    BY <1>1, <1>3, <2>2, JobMoves DEF x
<1> DEFINE tickers == {t \in Tickers : Subscribers(t) # {}}
<1>4. \/ \E ran \in -1 .. MaxDay : job' = Sleeping(ran)
      \/ job' = [Sleeping(day) EXCEPT !.stage = "next", !.todo = tickers]
  BY <1>1 DEF JobStart, JobEnd
<1>5. tickers \in SUBSET Tickers
  OBVIOUS
<1> HIDE DEF tickers
<1> QED
  BY <1>2, <1>3, <1>4, <1>5

(* The invariant is kept.                                                   *)
LEMMA NextIInv == IInv /\ [Next]_vars => IInv'
<1> SUFFICES ASSUME IInv, [Next]_vars PROVE IInv'
  OBVIOUS
<1>1. /\ subs \subseteq Users \X (Tickers \cup {Portfolio}) /\ mailed \subseteq Users
  BY DEF IInv, TypeOK
<1>2. CASE ScreenNext /\ UNCHANGED jobVars
  <2>1. UNCHANGED day
    BY <1>2 DEF ScreenNext, ScreenOpen, ScreenClose, ScreenFetch, ScreenStore, Prefer,
                PrepareDone
  <2> QED
    BY <1>1, <1>2, <2>1, ScreensKeep DEF jobVars
<1>3. CASE Night
  BY <1>1, <1>3, ScreensKeep DEF Night, jobVars
<1>4. CASE Restart
  <2>1. UNCHANGED day
    BY <1>4 DEF Restart, ScreenRestart
  <2> QED
    BY <1>1, <1>4, <2>1, ScreensKeep DEF Restart
<1>5. ASSUME NEW u \in Users, NEW ts \in SUBSET Tickers, Invest(u, ts), UNCHANGED jobVars
      PROVE  IInv'
  <2>1. UNCHANGED day
    BY <1>5 DEF Invest
  <2> QED
    BY <1>1, <1>5, <2>1, ScreensKeep DEF jobVars
<1>6. ASSUME UNCHANGED <<screenVars, job, told, mailed>>,
             subs' \subseteq Users \X (Tickers \cup {Portfolio})
      PROVE  IInv'
  <2>1. UNCHANGED day
    BY <1>6 DEF screenVars
  <2> QED
    BY <1>1, <1>6, <2>1, ScreensKeep
<1>7. ASSUME NEW u \in Users,
             SubscribePortfolio(u) \/ \E t \in Tickers : Subscribe(u, t),
             UNCHANGED screenVars
      PROVE  IInv'
  BY <1>1, <1>6, <1>7 DEF SubscribePortfolio, Subscribe
<1>8. ASSUME NEW s \in subs, Unsubscribe(s), UNCHANGED screenVars PROVE IInv'
  BY <1>1, <1>6, <1>8 DEF Unsubscribe
<1>9. CASE UNCHANGED vars
  BY <1>1, <1>6, <1>9 DEF vars, screenVars
<1>10. CASE JobStep
  <2>1. UNCHANGED <<day, predicted, holds, prefers, screen, preparing>>
    BY <1>10 DEF JobStep
  <2>2. CASE JobStore
    BY <2>1, <2>2, JobStoreKeeps
  <2>3. CASE JobStart \/ JobEnd
    BY <2>1, <2>3, JobRestsKeeps DEF JobStart, JobEnd, screenVars
  <2>4. CASE JobFetch
    BY <2>1, <2>4, JobFetchKeeps DEF JobFetch, screenVars
  <2>5. CASE JobCompare
    BY <2>1, <2>5, JobCompareKeeps DEF JobCompare, screenVars
  <2>6. ASSUME NEW t \in Tickers, JobRead(t) PROVE IInv'
    BY <2>1, <2>6, JobReadKeeps DEF JobRead, screenVars
  <2> QED
    BY <1>10, <2>2, <2>3, <2>4, <2>5, <2>6 DEF JobStep
<1> QED
  BY <1>2, <1>3, <1>4, <1>5, <1>7, <1>8, <1>9, <1>10 DEF Next

(* The invariant holds in every state.                                      *)
LEMMA Invariance == Spec => []IInv
BY InitIInv, NextIInv, PTL DEF Spec

------------------------------------------------------------------------------
(* Theorems of the composition.                                             *)

(* Types of the screens, the job and the subscriptions over the one cache:  *)
(* the job knows the ticker of its run and its prediction is a payload.     *)
THEOREM TypeCorrect == Spec => []TypeOK
<1>1. IInv => TypeOK
  BY DEF IInv
<1> QED
  BY <1>1, Invariance, PTL

(* The screens are as fresh when the job stores in their table as well      *)
(* (check_trend_changes writes what fetch_trend gave it that day).          *)
THEOREM ShownWithJob == Spec => []ShownIsFresh
<1>1. IInv => ShownIsFresh
  BY DEF IInv, ScreenInv, FreshScreen, ShownIsFresh
<1> QED
  BY <1>1, Invariance, PTL

(* The only step that compares is the one of the job.                       *)
LEMMA StepCompares ==
  ASSUME IInv, [Next]_vars, Compared
  PROVE  JobCompare
<1>1. job.stage = "compare" /\ job'.stage = "store"
  BY DEF Compared
<1>2. job # job'
  BY <1>1
<1>3. \A ran : Sleeping(ran).stage = "sleeping"
  BY DEF Sleeping
<1>4. JobStep \/ Restart
  BY <1>2 DEF Next, vars, Night, jobVars, SubscribePortfolio, Subscribe, Unsubscribe
<1>5. ~Restart /\ ~JobEnd
  BY <1>1, <1>3 DEF Restart, JobEnd
<1> QED
  BY <1>1, <1>4, <1>5 DEF JobStep, JobStart, JobFetch, JobStore, JobRead

(* An alert goes to all subscribers of a ticker whose trend changed since   *)
(* the last run, and to nobody otherwise, unless a screen has written its   *)
(* row since (check_trend_changes, condition_changed): for any number of    *)
(* users, tickers and screens, and wherever the database ended a run.       *)
THEOREM AlertsFollow == Spec => AlertsFollowTheTrendUnlessShown
<1> DEFINE Follows == /\ Compared
                      /\ job.previous # NoEntry => job.previous.by = "job"
                      => mailed' = IF Due THEN Subscribers(job.ticker) ELSE {}
<1>1. IInv /\ [Next]_vars => [Follows]_vars
  <2> SUFFICES ASSUME IInv, [Next]_vars, Compared,
                      job.previous # NoEntry => job.previous.by = "job"
               PROVE  mailed' = IF Due THEN Subscribers(job.ticker) ELSE {}
    OBVIOUS
  <2>1. mailed' = IF Changed THEN Subscribers(job.ticker) ELSE {}
    BY StepCompares DEF JobCompare
  <2>2. Tells(job.previous, job.ticker)
    BY DEF IInv, Compared
  <2>3. Changed <=> Due
    <3>1. CASE job.previous = NoEntry
      BY <2>2, <3>1 DEF Tells, Changed, Due
    <3>2. CASE job.previous # NoEntry
      <4>1. told[job.ticker] = job.previous.payload.condition
        BY <2>2, <3>2 DEF Tells
      <4>2. job.previous.payload.condition # NoEntry
        BY <3>2 DEF IInv, TypeOK, Job, CacheRow, Payload
      <4> QED
        BY <3>2, <4>1, <4>2 DEF Changed, Due
    <3> QED
      BY <3>1, <3>2
  <2> QED
    BY <2>1, <2>3
<1> QED
  BY <1>1, Invariance, PTL DEF Spec, AlertsFollowTheTrendUnlessShown
==============================================================================
