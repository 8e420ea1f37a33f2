------------------------------ MODULE TrendCache ------------------------------
(***************************************************************************)
(* GET /user/shares/trends: the predictions for the tickers a user holds,  *)
(* each from the model the user prefers, through the table                 *)
(* ticker_trend_cache, which has one row per ticker whatever the model.    *)
(* A prediction changes once a day.  What is not in the cache is fetched   *)
(* from the models, all tickers at once, and stored when it arrives; a     *)
(* ticker without a trained model is prepared in the background, at most   *)
(* MaxPreparations at a time.                                              *)
(*                                                                         *)
(* The daily job that shares the table is in the module Alerts.            *)
(***************************************************************************)
EXTENDS Integers, FiniteSets

CONSTANTS
    Users,
    Tickers,
    Models,            \* the models a user can prefer
    DefaultModel,      \* DEFAULT_MODEL, of users without preference
    Bootstrapped,      \* the models that are prepared when they are missing
    Conditions,        \* the field condition of a prediction
    NoEntry,           \* no row in the cache
    MaxPreparations,   \* MAX_CONCURRENT_PREPARATIONS
    MaxDay             \* bound: last day

ASSUME ModelsAssumption == DefaultModel \in Models /\ Bootstrapped \subseteq Models
ASSUME CapacityAssumption == MaxPreparations \in Nat \ {0} /\ MaxDay \in Nat

VARIABLES
    day,
    predicted,   \* predicted[m][t]: what model m answers for t today
    holds,       \* holds[u]: the tickers user u holds
    prefers,     \* prefers[u][t]: the model user u prefers for t
    cache,       \* cache[t]: the row of ticker_trend_cache
    screen,      \* screen[u]: the request of user u for the trends
    preparing    \* PREPARING_TICKERS, in the memory of the process

screenVars == <<day, predicted, holds, prefers, cache, screen, preparing>>

Untrained == "untrained"

Answers == [Models -> [Tickers -> Conditions \cup {Untrained}]]

(* A payload: which model predicted what, and on which day (asOf).          *)
Payload == [ticker : Tickers, model : Models, condition : Conditions,
            asOf : 0 .. MaxDay]

(* A row: the payload, the day of fetched_at and who stored it.             *)
Stored(payload, by) == [payload |-> payload, fetchedAt |-> day, by |-> by]

CacheRow == [payload : Payload, fetchedAt : 0 .. MaxDay, by : {"screen", "job"}]

(* todo: what is still to be fetched and of which model; got: what arrived  *)
(* and is to be stored; shown: what the answer holds so far.                *)
Screen == [open : BOOLEAN, since : 0 .. MaxDay, todo : SUBSET (Models \X Tickers),
           got : SUBSET Payload, shown : SUBSET Payload]

Closed == [open |-> FALSE, since |-> 0, todo |-> {}, got |-> {}, shown |-> {}]

Prediction(m, t) == [ticker |-> t, model |-> m, condition |-> predicted[m][t],
                     asOf |-> day]

------------------------------------------------------------------------------
(* Mutant of Hit: a row is served whatever its day.                         *)
HitOfAnyDay(u, t) == /\ cache[t] # NoEntry
                     /\ cache[t].payload.model = prefers[u][t]

(* The row was fetched today and is of the preferred model.                 *)
Hit(u, t) == /\ cache[t] # NoEntry
             /\ cache[t].fetchedAt = day
             /\ cache[t].payload.model = prefers[u][t]

(* The holdings, the preferences and the cache are read; a cache that       *)
(* cannot be read has no hits, and every ticker is fetched.  The three      *)
(* statements are one step here.                                            *)
ScreenOpen(u) ==
    /\ ~screen[u].open
    /\ holds[u] # {}
    /\ \E hits \in {{t \in holds[u] : Hit(u, t)}, {}} :
          screen' = [screen EXCEPT ![u] =
             [open |-> TRUE, since |-> day,
              todo |-> {<<prefers[u][t], t>> : t \in holds[u] \ hits},
              got |-> {}, shown |-> {cache[t].payload : t \in hits}]]
    /\ UNCHANGED <<day, predicted, holds, prefers, cache, preparing>>

(* Mutant of Prepare: the number of preparations is not looked at.          *)
PrepareAny(t) == preparing' = preparing \cup {t}

(* prepare_models_in_background: both checks and the insertion are done     *)
(* under one lock.                                                          *)
Prepare(t) ==
    preparing' = IF Cardinality(preparing) >= MaxPreparations
                 THEN preparing
                 ELSE preparing \cup {t}

(* The model answers, has not been trained, or fails.                       *)
ScreenFetch(u, m, t) ==
    /\ <<m, t>> \in screen[u].todo
    /\ \/ /\ predicted[m][t] # Untrained
          /\ screen' = [screen EXCEPT ![u].todo = @ \ {<<m, t>>},
                                      ![u].got = @ \cup {Prediction(m, t)}]
          /\ UNCHANGED preparing
       \/ /\ screen' = [screen EXCEPT ![u].todo = @ \ {<<m, t>>}]
          /\ IF predicted[m][t] = Untrained /\ m \in Bootstrapped
             THEN Prepare(t) ELSE UNCHANGED preparing
    /\ UNCHANGED <<day, predicted, holds, prefers, cache>>

(* Upsert of a prediction that arrived; an error is only logged.            *)
ScreenStore(u, p) ==
    /\ p \in screen[u].got
    /\ cache' \in {cache, [cache EXCEPT ![p.ticker] = Stored(p, "screen")]}
    /\ screen' = [screen EXCEPT ![u].got = @ \ {p}, ![u].shown = @ \cup {p}]
    /\ UNCHANGED <<day, predicted, holds, prefers, preparing>>

(* The answer is complete, or the client hangs up.                          *)
ScreenClose(u) ==
    /\ screen[u].open
    /\ screen' = [screen EXCEPT ![u] = Closed]
    /\ UNCHANGED <<day, predicted, holds, prefers, cache, preparing>>

(* Both bootstraps have answered or their timeout of 7200 s has passed.     *)
PrepareDone(t) ==
    /\ t \in preparing
    /\ preparing' = preparing \ {t}
    /\ UNCHANGED <<day, predicted, holds, prefers, cache, screen>>

------------------------------------------------------------------------------
(* What others change: the positions (an action of the module Alerts), the  *)
(* preferences and, overnight, the predictions.  A request lasts less than  *)
(* a day: the client of the models times out after 20 s.                    *)

Invest(u, ts) ==
    /\ holds' = [holds EXCEPT ![u] = ts]
    /\ UNCHANGED <<day, predicted, prefers, cache, screen, preparing>>

Prefer(u, m, t) ==
    /\ prefers' = [prefers EXCEPT ![u][t] = m]
    /\ UNCHANGED <<day, predicted, holds, cache, screen, preparing>>

NewDay ==
    /\ day < MaxDay
    /\ \A u \in Users : screen[u].open => screen[u].since = day
    /\ day' = day + 1
    /\ predicted' \in Answers
    /\ UNCHANGED <<holds, prefers, cache, screen, preparing>>

ScreenRestart ==
    /\ screen' = [u \in Users |-> Closed]
    /\ preparing' = {}
    /\ UNCHANGED <<day, predicted, holds, prefers, cache>>

ScreenInit ==
    /\ day = 0
    /\ predicted \in Answers
    /\ holds \in [Users -> SUBSET Tickers]
    /\ prefers = [u \in Users |-> [t \in Tickers |-> DefaultModel]]
    /\ cache = [t \in Tickers |-> NoEntry]
    /\ screen = [u \in Users |-> Closed]
    /\ preparing = {}

ScreenNext ==
    \/ \E u \in Users :
          \/ ScreenOpen(u) \/ ScreenClose(u)
          \/ \E m \in Models, t \in Tickers : ScreenFetch(u, m, t) \/ Prefer(u, m, t)
          \/ \E p \in screen[u].got : ScreenStore(u, p)
    \/ \E t \in Tickers : PrepareDone(t)

(* The screens alone, without the job.                                      *)
ScreenSpec == ScreenInit /\ [][ScreenNext \/ NewDay \/ ScreenRestart]_screenVars

------------------------------------------------------------------------------
(* Properties                                                               *)

ScreenTypeOK ==
    /\ day \in 0 .. MaxDay
    /\ predicted \in Answers
    /\ holds \in [Users -> SUBSET Tickers]
    /\ prefers \in [Users -> [Tickers -> Models]]
    /\ cache \in [Tickers -> CacheRow \cup {NoEntry}]
    /\ screen \in [Users -> Screen]
    /\ preparing \subseteq Tickers /\ Cardinality(preparing) <= MaxPreparations

(* What a screen shows was predicted on the day it was opened, or on the    *)
(* day before by a request that midnight caught between fetching and        *)
(* storing: fetched_at is the day of the storing.  Never older, whoever     *)
(* else stores in the meantime.                                             *)
ShownIsFresh ==
    \A u \in Users : \A p \in screen[u].shown : p.asOf + 1 >= screen[u].since
==============================================================================
