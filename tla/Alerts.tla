-------------------------------- MODULE Alerts --------------------------------
(***************************************************************************)
(* The daily job that mails the subscribers of a ticker when its trend     *)
(* changes, and the subscriptions.  What the trend was is the row the job  *)
(* finds in ticker_trend_cache, the table that the screens of TrendCache   *)
(* also write, with the predictions of whatever model their users prefer.  *)
(*                                                                         *)
(* The job takes one ticker after the other; the database can fail between *)
(* any two of its statements, which ends the run.                          *)
(***************************************************************************)
EXTENDS TrendCache

CONSTANTS Portfolio,  \* share_id NULL: subscription to the whole portfolio
          NoTicker,
          NoCondition \* a prediction without the field condition

ASSUME SubscriptionAssumption == Portfolio \notin Tickers /\ NoTicker \notin Tickers
ASSUME EntryAssumption == NoEntry \notin Conditions \cup CacheRow

VARIABLES
    subs,      \* the rows of alert_subscriptions: <<user, ticker or Portfolio>>
    job,       \* the run of the job
    told,      \* told[t]: the condition the job stored last for t (history)
    mailed     \* the users mailed about the ticker of the job (history)

jobVars == <<subs, job, told, mailed>>

vars == <<day, predicted, holds, prefers, cache, screen, preparing,
          subs, job, told, mailed>>

JobStages == {"sleeping", "next", "fetch", "compare", "store"}

Job == [stage : JobStages, ran : -1 .. MaxDay, todo : SUBSET Tickers,
        ticker : Tickers \cup {NoTicker}, previous : CacheRow \cup {NoEntry},
        fresh : Payload \cup {NoEntry}]

Sleeping(ran) == [stage |-> "sleeping", ran |-> ran, todo |-> {}, ticker |-> NoTicker,
                  previous |-> NoEntry, fresh |-> NoEntry]

SubscribedTo(u, t) == <<u, t>> \in subs \/ (<<u, Portfolio>> \in subs /\ t \in holds[u])

Subscribers(t) == {u \in Users : SubscribedTo(u, t)}

------------------------------------------------------------------------------
(* POST /user/alerts/subscriptions/{ticker}: the ticker must be held.  The  *)
(* insert comes after the check; a position that is sold between the two is *)
(* the same as one that is sold right after.                                *)
Subscribe(u, t) ==
    /\ t \in holds[u]
    /\ subs' = subs \cup {<<u, t>>}
    /\ UNCHANGED <<job, told, mailed>>

SubscribePortfolio(u) ==
    /\ subs' = subs \cup {<<u, Portfolio>>}
    /\ UNCHANGED <<job, told, mailed>>

Unsubscribe(s) ==
    /\ subs' = subs \ {s}
    /\ UNCHANGED <<job, told, mailed>>

------------------------------------------------------------------------------
(* check_trend_changes, once a day.                                         *)

JobStart ==
    LET tickers == {t \in Tickers : Subscribers(t) # {}} IN
    /\ job.stage = "sleeping" /\ job.ran < day
    /\ job' = IF tickers = {} THEN Sleeping(day)
              ELSE [Sleeping(day) EXCEPT !.stage = "next", !.todo = tickers]
    /\ UNCHANGED <<cache, subs, told, mailed>>

(* current_cached_payload of the next ticker.                               *)
JobRead(t) ==
    /\ job.stage = "next" /\ t \in job.todo
    /\ job' = [job EXCEPT !.stage = "fetch", !.todo = @ \ {t}, !.ticker = t,
                          !.previous = cache[t], !.fresh = NoEntry]
    /\ UNCHANGED <<cache, subs, told, mailed>>

(* Mutant of JobFetch: the field available is not looked at.                *)
JobFetchAny ==
    /\ job.stage = "fetch"
    /\ job' = [job EXCEPT !.stage = "compare",
                          !.fresh = Prediction(DefaultModel, job.ticker)]
    /\ UNCHANGED <<cache, subs, told, mailed>>

(* fetch_trend: of the default model; without an answer the ticker is left. *)
JobFetch ==
    /\ job.stage = "fetch"
    /\ \/ /\ predicted[DefaultModel][job.ticker] # Untrained
          /\ job' = [job EXCEPT !.stage = "compare",
                                !.fresh = Prediction(DefaultModel, job.ticker)]
       \/ job' = [job EXCEPT !.stage = "next"]
    /\ UNCHANGED <<cache, subs, told, mailed>>

(* Mutant of Changed: a ticker without a row is taken for a change.         *)
ChangedOrNew == job.previous = NoEntry
                \/ /\ job.previous.payload.condition # job.fresh.condition
                   /\ job.fresh.condition # NoCondition

(* condition_changed; nothing to compare with the first time.               *)
Changed == /\ job.previous # NoEntry
           /\ job.fresh.condition # NoCondition
           /\ job.previous.payload.condition # job.fresh.condition

(* notify_subscribers: each mail is sent or fails.                          *)
JobCompare ==
    /\ job.stage = "compare"
    /\ mailed' = IF Changed THEN Subscribers(job.ticker) ELSE {}
    /\ job' = [job EXCEPT !.stage = "store"]
    /\ UNCHANGED <<cache, subs, told>>

(* Mutant of JobStore: a condition that did not change is not stored.       *)
JobStoreChanges ==
    /\ job.stage = "store"
    /\ cache' = IF Changed
                THEN [cache EXCEPT ![job.ticker] = Stored(job.fresh, "job")] ELSE cache
    /\ told' = [told EXCEPT ![job.ticker] = job.fresh.condition]
    /\ job' = [job EXCEPT !.stage = "next"]
    /\ UNCHANGED <<subs, mailed>>

(* upsert_cache.                                                            *)
JobStore ==
    /\ job.stage = "store"
    /\ cache' = [cache EXCEPT ![job.ticker] = Stored(job.fresh, "job")]
    /\ told' = [told EXCEPT ![job.ticker] = job.fresh.condition]
    /\ job' = [job EXCEPT !.stage = "next"]
    /\ mailed' = {}
    /\ UNCHANGED subs

(* The run is over, or an error of the database ends it.                    *)
JobEnd ==
    /\ job.stage # "sleeping"
    /\ job' = Sleeping(job.ran)
    /\ mailed' = {}
    /\ UNCHANGED <<cache, subs, told>>

JobStep ==
    /\ \/ JobStart \/ JobFetch \/ JobCompare \/ JobStore \/ JobEnd
       \/ \E t \in Tickers : JobRead(t)
    /\ UNCHANGED <<day, predicted, holds, prefers, screen, preparing>>

(* The job of a day ends on that day: a fetch takes less than 20 s.         *)
Night ==
    /\ job.stage = "sleeping"
    /\ NewDay
    /\ UNCHANGED jobVars

Restart ==
    /\ ScreenRestart
    /\ job' = Sleeping(job.ran)
    /\ mailed' = {}
    /\ UNCHANGED <<subs, told>>

------------------------------------------------------------------------------
Init ==
    /\ ScreenInit
    /\ subs = {}
    /\ job = Sleeping(-1)
    /\ told = [t \in Tickers |-> NoEntry]
    /\ mailed = {}

Next ==
    \/ ScreenNext /\ UNCHANGED jobVars
    \/ JobStep
    \/ Night \/ Restart
    \/ \E u \in Users, ts \in SUBSET Tickers : Invest(u, ts) /\ UNCHANGED jobVars
    \/ /\ \/ \E u \in Users : \/ SubscribePortfolio(u)
                              \/ \E t \in Tickers : Subscribe(u, t)
          \/ \E s \in subs : Unsubscribe(s)
       /\ UNCHANGED screenVars

Spec == Init /\ [][Next]_vars

------------------------------------------------------------------------------
(* Properties                                                               *)

TypeOK ==
    /\ ScreenTypeOK
    /\ subs \subseteq Users \X (Tickers \cup {Portfolio})
    /\ job \in Job
    /\ told \in [Tickers -> Conditions \cup {NoEntry}]
    /\ mailed \subseteq Users

(* The condition is not the one the job stored the last time.               *)
Due == /\ told[job.ticker] # NoEntry
       /\ job.fresh.condition # NoCondition
       /\ told[job.ticker] # job.fresh.condition

Compared == job.stage = "compare" /\ job'.stage = "store"

(* What the documentation of the job promises: when the trend of a ticker   *)
(* changed since its last run, the subscribers are mailed.                  *)
NoAlertIsMissed == [][Compared /\ Due => mailed' = Subscribers(job.ticker)]_vars

(* An alert is missed, or sent without a change, only if a screen wrote the *)
(* row of the ticker since the job did.                                     *)
AlertsFollowTheTrendUnlessShown ==
    [][/\ Compared
       /\ job.previous # NoEntry => job.previous.by = "job"
       => mailed' = IF Due THEN Subscribers(job.ticker) ELSE {}]_vars
==============================================================================
