------------------------------ MODULE TickerSync ------------------------------
(***************************************************************************)
(* The catalogue of tickers, the table shares: a job fetches what the      *)
(* collector lists and inserts what is missing, at the start of the        *)
(* process, then every SyncInterval, or after SyncRetry if it failed.  The *)
(* same is done on GET /shares/update, also while the job is at it.        *)
(* Nothing is ever deleted.                                                *)
(*                                                                         *)
(* The request to the collector has no timeout in the code: AnswerTime is  *)
(* an assumption on the collector and the network, who answer or break the *)
(* connection within it.                                                   *)
(***************************************************************************)
EXTENDS ProcessClock, FiniteSets

CONSTANTS
    Listable,      \* tickers the collector can list
    Callers,       \* requests for GET /shares/update in flight
    Job,           \* the job
    SyncInterval,  \* SHARES_SYNC_INTERVAL_HOURS
    SyncRetry,     \* SYNC_RETRY_SECONDS
    AnswerTime     \* bound: see above

ASSUME SyncAssumption ==
    /\ Job \notin Callers
    /\ SyncInterval \in Nat /\ SyncRetry \in Nat /\ AnswerTime \in Nat
    /\ SyncRetry <= SyncInterval

VARIABLES
    listed,       \* what the collector lists
    catalogue,    \* shares
    sync,         \* sync[p]: the synchronisation p is doing
    syncWake,     \* when the sleep of the job ends
    listedSince,  \* listedSince[t]: since when t is listed or not (history)
    trouble       \* the last time the job failed or was started (history)

syncVars == <<listed, catalogue, sync, syncWake, listedSince, trouble>>

Syncers == Callers \cup {Job}

SyncStages == {"idle", "asking", "storing"}

Resting == [stage |-> "idle", since |-> 0, got |-> {}]

------------------------------------------------------------------------------
(* sync_tickers of the job after its sleep, or of a caller.                 *)
SyncAsk(p) ==
    /\ sync[p].stage = "idle"
    /\ p = Job => now >= syncWake
    /\ sync' = [sync EXCEPT ![p] = [stage |-> "asking", since |-> now, got |-> {}]]
    /\ UNCHANGED <<listed, catalogue, syncWake, listedSince, trouble>>

CollectorAnswers(p) ==
    /\ sync[p].stage = "asking"
    /\ sync' = [sync EXCEPT ![p].stage = "storing", ![p].got = listed]
    /\ UNCHANGED <<listed, catalogue, syncWake, listedSince, trouble>>

(* INSERT ... ON CONFLICT DO NOTHING.                                       *)
SyncStore(p) ==
    /\ sync[p].stage = "storing"
    /\ catalogue' = catalogue \cup sync[p].got
    /\ sync' = [sync EXCEPT ![p] = Resting]
    /\ syncWake' = IF p = Job THEN now + SyncInterval ELSE syncWake
    /\ UNCHANGED <<listed, listedSince, trouble>>

(* Mutant of SyncFails: after an error the job sleeps as after a success.   *)
SyncFailsAndRests(p) ==
    /\ sync[p].stage # "idle"
    /\ sync' = [sync EXCEPT ![p] = Resting]
    /\ IF p = Job THEN syncWake' = now + SyncInterval /\ trouble' = now
       ELSE UNCHANGED <<syncWake, trouble>>
    /\ UNCHANGED <<listed, catalogue, listedSince>>

(* No connection, an answer that is not understood, or a failed INSERT.     *)
SyncFails(p) ==
    /\ sync[p].stage # "idle"
    /\ sync' = [sync EXCEPT ![p] = Resting]
    /\ IF p = Job THEN syncWake' = now + SyncRetry /\ trouble' = now
       ELSE UNCHANGED <<syncWake, trouble>>
    /\ UNCHANGED <<listed, catalogue, listedSince>>

Relist(tickers) ==
    /\ listed' = tickers
    /\ listedSince' = [t \in Listable |->
          IF (t \in tickers) = (t \in listed) THEN listedSince[t] ELSE now]
    /\ UNCHANGED <<catalogue, sync, syncWake, trouble>>

(* spawn_ticker_sync_job: the job begins with a synchronisation.            *)
SyncRestart ==
    /\ sync' = [p \in Syncers |-> Resting]
    /\ syncWake' = now /\ trouble' = now
    /\ UNCHANGED <<listed, catalogue, listedSince>>

(* The timer of the job is on time, and the job is answered in time.        *)
InTime == IF sync[Job].stage = "idle" THEN now < syncWake
          ELSE now < sync[Job].since + AnswerTime

SyncInit ==
    /\ listed \in SUBSET Listable /\ catalogue = {}
    /\ sync = [p \in Syncers |-> Resting]
    /\ syncWake = now
    /\ listedSince = [t \in Listable |-> 0] /\ trouble = 0

SyncNext ==
    \/ /\ \/ \E p \in Syncers : \/ SyncAsk(p) \/ CollectorAnswers(p)
                                \/ SyncStore(p) \/ SyncFails(p)
          \/ \E tickers \in SUBSET Listable : Relist(tickers)
          \/ SyncRestart
       /\ UNCHANGED now
    \/ InTime /\ Tick /\ UNCHANGED syncVars

SyncSpec == ClockInit /\ SyncInit /\ [][SyncNext]_<<now, syncVars>>

------------------------------------------------------------------------------
(* Properties                                                               *)

SyncTypeOK ==
    /\ listed \subseteq Listable /\ catalogue \subseteq Listable
    /\ sync \in [Syncers -> [stage : SyncStages, since : 0 .. MaxTime,
                             got : SUBSET Listable]]
    /\ syncWake \in 0 .. MaxTime + SyncInterval
    /\ listedSince \in [Listable -> 0 .. MaxTime] /\ trouble \in 0 .. MaxTime

(* A ticker the collector goes on listing is in the catalogue after one     *)
(* interval and the two requests that can be under way around it, or, if    *)
(* the job failed or was started since, after one retry and its request;    *)
(* calls of the endpoint at the same time do not put it off.                *)
CatalogueCatchesUp ==
    \A t \in listed \ catalogue :
        \/ now <= listedSince[t] + SyncInterval + 2 * AnswerTime
        \/ now <= trouble + SyncRetry + AnswerTime
==============================================================================
