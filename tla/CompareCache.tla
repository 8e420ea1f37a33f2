----------------------------- MODULE CompareCache -----------------------------
(***************************************************************************)
(* GET /user/shares/{ticker}/trends/compare: the predictions of every      *)
(* model for one ticker, the model that is shown first, and the table      *)
(* ticker_compare_cache, which has one row per ticker, shared by all       *)
(* users.  A complete comparison serves its whole day, one with silent     *)
(* models only Window units.  Rows of different tickers never meet, so     *)
(* the module follows one ticker.                                          *)
(*                                                                         *)
(* The consensus for the risk profile of the user is asked for on every    *)
(* request and put into the answer after the row is stored; it is left     *)
(* out.                                                                    *)
(***************************************************************************)
EXTENDS Integers, Sequences, Functions

CONSTANTS
    Users,
    Names,         \* the keys of the predictions, in the order of the map
    Volatility,    \* models that forecast volatility and no direction (GARCH)
    Local,         \* the models that api-ml answers for in one call
    DefaultModel,  \* "lstm-modal"
    Backtests,     \* possible backtests, one for each model with a direction
    NoBacktest,    \* a model that answers without metrics yet
    NoCount,       \* a backtest without observations
    NoRow,
    Window,        \* INCOMPLETE_CACHE_MINUTES
    Life,          \* API_ML_TIMEOUT_SECS, what a request may last at most
    DayLength,
    MaxTime        \* bound: last instant

Models == Range(Names)

(* fetch_garch and fetch_garch_ann answer "available": false, always.       *)
Directional == Models \ Volatility

(* What a model reports: a percentage, and how many cases it is of.         *)
Backtest == [accuracy : 0 .. 100, observations : Nat \cup {NoCount}]

ASSUME NamesAssumption ==
    /\ Names \in Seq(Models)
    /\ DefaultModel \in Directional
    /\ Volatility \subseteq Models /\ Local \subseteq Directional
ASSUME BacktestsAssumption ==
    /\ Backtests \subseteq [Directional -> Backtest \cup {NoBacktest}]
    /\ NoBacktest \notin Backtest /\ NoCount \notin Nat
ASSUME ClockAssumption ==
    /\ Window \in Nat \ {0} /\ Life \in Nat
    /\ DayLength \in Nat \ {0} /\ MaxTime \in Nat

VARIABLES
    now,
    backtest,   \* backtest[m]: what model m reports of its past predictions
    row,        \* the row of ticker_compare_cache
    req         \* req[u]: the request of user u

vars == <<now, backtest, row, req>>

Times == 0 .. MaxTime

Day(t) == t \div DayLength

(* The payload: who responded, the model shown first, and since when the    *)
(* request that computed it had been running.                               *)
Body == [responded : SUBSET Models, default : Models, since : Times]

Row == [body : Body, complete : BOOLEAN, fetchedAt : Times]

ASSUME RowAssumption == NoRow \notin Row

Empty == [responded |-> {}, default |-> DefaultModel, since |-> 0]

Stages == {"idle", "cached", "fetching", "storing", "answered"}

(* blind: the look into the cache failed (history).                         *)
Request == [stage : Stages, since : Times, body : Body, blind : BOOLEAN]

Idle == [stage |-> "idle", since |-> 0, body |-> Empty, blind |-> FALSE]

------------------------------------------------------------------------------
(* pick_best_model.  Accuracies are in percent; a score is a fraction of    *)
(* numerator s[1] and denominator s[2].                                     *)

(* ACCURACY_PRIOR_CASES                                                     *)
Prior == 50

(* Mutant of Score: the cases move the accuracy away from 50%.              *)
ScoreOfPrior(b) == IF b.observations = NoCount \/ b.observations = 0
                   THEN <<b.accuracy, 1>>
                   ELSE <<50 * b.observations + b.accuracy * Prior,
                          b.observations + Prior>>

(* shrunk_accuracy: the accuracy together with Prior cases at 50%.          *)
Score(b) == IF b.observations = NoCount \/ b.observations = 0
            THEN <<b.accuracy, 1>>
            ELSE <<b.accuracy * b.observations + 50 * Prior,
                   b.observations + Prior>>

Below(s, t) == s[1] * t[2] < t[1] * s[2]

(* GARCH is never "available" and has no directional accuracy.              *)
Ranked(responded) == {m \in responded \cap Directional : backtest[m] # NoBacktest}

(* Mutant of PickBest: no default when nobody responded.                    *)
PickBestOrNone(responded) ==
    LET ranked == Ranked(responded)
    IN  IF ranked = {} THEN NoRow
        ELSE CHOOSE m \in ranked : \A n \in ranked :
                ~Below(Score(backtest[m]), Score(backtest[n]))

(* The best of the available models with metrics, the last one in the order *)
(* of the map among equals; DefaultModel if there is none.                  *)
PickBest(responded) ==
    LET ranked == Ranked(responded)
        best   == {m \in ranked : \A n \in ranked :
                      ~Below(Score(backtest[m]), Score(backtest[n]))}
    IN  IF best = {} THEN DefaultModel
        ELSE Names[CHOOSE i \in DOMAIN Names :
                      /\ Names[i] \in best
                      /\ \A j \in DOMAIN Names : Names[j] \in best => j <= i]

------------------------------------------------------------------------------
(* Mutant of Usable: a row serves Window units, complete or not.            *)
UsableForAWhile == /\ row # NoRow
                   /\ Day(row.fetchedAt) = Day(now)
                   /\ row.fetchedAt > now - Window

(* Mutant of Usable: complete comparisons never get old.                    *)
UsableIfComplete == /\ row # NoRow
                    /\ row.complete \/ row.fetchedAt > now - Window

(* The WHERE of cached_comparison.                                          *)
Usable == /\ row # NoRow
          /\ Day(row.fetchedAt) = Day(now)
          /\ row.complete \/ row.fetchedAt > now - Window

(* The cache is read; a database error counts as no row.                    *)
CompareOpen(u) ==
    /\ req[u].stage = "idle"
    /\ \/ /\ Usable
          /\ req' = [req EXCEPT ![u] = [stage |-> "cached", since |-> now,
                                        body |-> row.body, blind |-> FALSE]]
       \/ /\ ~Usable
          /\ req' = [req EXCEPT ![u] = [stage |-> "fetching", since |-> now,
                                        body |-> Empty, blind |-> FALSE]]
       \/ req' = [req EXCEPT ![u] = [stage |-> "fetching", since |-> now,
                                     body |-> Empty, blind |-> TRUE]]
    /\ UNCHANGED <<now, backtest, row>>

(* Each model of Modal answers or fails by itself.                          *)
ModalResponses == SUBSET (Models \ Local)

(* fetch_api_ml_local_models: the models that answered, and whether api-ml  *)
(* did.  Without an address for it none answers and nothing is retried.     *)
ApiMlResponses == {<<{}, FALSE>>} \cup (SUBSET Local) \X {TRUE}

(* Everybody has answered or failed.  A comparison for which api-ml did not *)
(* respond is shown and not stored.                                         *)
CompareFetch(u) ==
    /\ req[u].stage = "fetching"
    /\ \E modal \in ModalResponses, apiMl \in ApiMlResponses :
          LET responded == modal \cup apiMl[1] IN
          req' = [req EXCEPT ![u].stage = IF apiMl[2] THEN "storing" ELSE "answered",
                             ![u].blind = @ /\ apiMl[2],
                             ![u].body = [responded |-> responded,
                                          default |-> PickBest(responded),
                                          since |-> req[u].since]]
    /\ UNCHANGED <<now, backtest, row>>

(* all_responded                                                            *)
Complete(responded) == responded = Models

(* store_comparison; an error is only logged.                               *)
CompareStore(u) ==
    /\ req[u].stage = "storing"
    /\ row' \in {row, [body |-> req[u].body,
                       complete |-> Complete(req[u].body.responded),
                       fetchedAt |-> now]}
    /\ req' = [req EXCEPT ![u].stage = "answered", ![u].blind = FALSE]
    /\ UNCHANGED <<now, backtest>>

(* The consensus for a comparison from the cache has arrived or failed.     *)
CompareCached(u) ==
    /\ req[u].stage = "cached"
    /\ req' = [req EXCEPT ![u].stage = "answered"]
    /\ UNCHANGED <<now, backtest, row>>

(* The answer has been read, the client hung up or the process stopped.     *)
CompareClose(u) ==
    /\ req[u].stage # "idle"
    /\ req' = [req EXCEPT ![u] = Idle]
    /\ UNCHANGED <<now, backtest, row>>

(* A request is not older than its time-outs allow.                         *)
Tick ==
    /\ now < MaxTime
    /\ \A u \in Users : req[u].stage \notin {"idle", "answered"}
                        => now < req[u].since + Life
    /\ now' = now + 1
    /\ UNCHANGED <<backtest, row, req>>

Init ==
    /\ now = 0
    /\ backtest \in Backtests
    /\ row = NoRow
    /\ req = [u \in Users |-> Idle]

Next ==
    \/ \E u \in Users : \/ CompareOpen(u) \/ CompareFetch(u) \/ CompareStore(u)
                        \/ CompareCached(u) \/ CompareClose(u)
    \/ Tick

Spec == Init /\ [][Next]_vars

------------------------------------------------------------------------------
(* Properties                                                               *)

TypeOK ==
    /\ now \in Times
    /\ row \in Row \cup {NoRow}
    /\ req \in [Users -> Request]

(* What is shown was asked of the models on the day of the request or by a  *)
(* request that midnight caught, and a comparison with silent models was    *)
(* asked for at most Window before; in both cases one request's life older  *)
(* at most, for fetched_at is the time of the storing.                      *)
ShownIsFresh ==
    \A u \in Users :
        LET body == req[u].body IN
        req[u].stage = "answered"
        => /\ Day(body.since + Life) >= Day(req[u].since)
           /\ body.responded # Models
              => body.since + Life + Window > req[u].since

(* A complete comparison serves its whole day: within the day it is only    *)
(* replaced by a request that had looked for it before it was there (or     *)
(* whose look failed), never by one that found it and asked again.          *)
CompleteServesItsDay ==
    [][\A u \in Users :
          /\ row # NoRow /\ row' # row
          /\ row.complete /\ Day(row.fetchedAt) = Day(now)
          /\ req[u].stage = "storing" /\ req'[u].stage = "answered"
          => req[u].blind \/ req[u].since <= row.fetchedAt]_vars

(* Backtest b is worse than c in both its accuracy, above chance, and the   *)
(* number of cases behind it.  An accuracy of no case at all is taken as it *)
(* is, like one without a count, so nothing is said of it.                  *)
Worse(b, c) ==
    /\ b.observations \notin {NoCount, 0} /\ c.observations # NoCount
    /\ c.accuracy > 50
    /\ b.accuracy <= c.accuracy /\ b.observations <= c.observations
    /\ b # c

(* The model shown first is never worse than another one that answered.     *)
DefaultIsNotDominated ==
    \A u \in Users :
        LET body == req[u].body IN
        req[u].stage = "answered" /\ Ranked(body.responded) # {}
        => /\ body.default \in Ranked(body.responded)
           /\ \A m \in Ranked(body.responded) :
                 ~Worse(backtest[body.default], backtest[m])
==============================================================================
