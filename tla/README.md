# FinanciAr: a verification development of the backend

TLA+ models of the backend of FinanciAr (axum handlers and background jobs over
PostgreSQL), the TLC runs that check them and the theorems TLAPS proves about
them. Paths below are relative to the repository; `endpoints/` stands for
`src/endpoints/`.

The backend keeps its state in PostgreSQL and runs at READ COMMITTED. Handlers
run concurrently and mix single statements, transactions and awaits on other
services (data-collector for prices, Modal for predictions, SMTP). Nearly all
that is hard in it comes from what other requests do between two statements of
a handler; that is what the models are about.

## 1. The system

| Component | State | Operations | Interacts with | What makes it correct |
|---|---|---|---|---|
| Portfolio and ledger (`endpoints/user_share/{post,put,delete}_logic.rs`, `user_share_balance_logic.rs`, `user_shares_backfill.rs`, `user_share_operations.rs`) | `user_shares`, `user_share_operations` | POST, PUT, DELETE of a holding; the balance and the admin backfill complete entry prices and the ledger | prices, account deletion | the ledger replayed gives the holding; a known price is not lost; nothing survives the account |
| Accounts (`endpoints/user/registration`, `email_verification`, `password_reset`, `delete_logic.rs`) | `users` with two links and their times | register, resend, verify, forgot, reset, delete | SMTP in detached tasks | one account per address; links are spaced, work once, die with a newer one |
| Two-factor (`endpoints/user/two_factor`, `login_logic.rs`) | `totp_secret`, `two_factor_enabled` | setup, enable, disable, login | | an enabled secret has been proved; the owner gets in |
| Trends (`endpoints/user_share/trend_logic.rs`) | `ticker_trend_cache`, `PREPARING_TICKERS` | GET trends | Modal, alerts job | nothing old is shown; preparations are bounded |
| Alerts (`alerts/mod.rs`, `endpoints/alert_subscription`) | `alert_subscriptions`, the same cache | daily job, subscribe, unsubscribe | trends, SMTP | mails exactly the changes |
| Retro board (`endpoints/retro`) | `retro_cards`, `retro_archives`, `retro_sprint` | create and delete a card, archive, undo | | no note is lost or doubled; sprints are numbered |
| Model comparison (`endpoints/user_share/compare_trend_logic.rs`) | `ticker_compare_cache` | GET compare | Modal, risk profile | nothing older than its cache allows is shown; a complete comparison serves its day; the model shown first is the best with metrics |
| Weekly report (`reports/mod.rs`) | none: a sleep and a run in memory | daily look at the weekday; read the holdings, price them, mail owner by owner | holdings, data-collector, SMTP | at most one report a week, nobody left out by another's failure, lines and totals of the same shares |
| Ticker catalogue (`endpoints/share`) | `shares` | job at the start, every day and after errors; GET `/shares/update` | data-collector | what stays listed gets in, whatever fails or overlaps |
| Balance history, P&L, portfolio figures (`balance_history_logic.rs`, `pnl_logic.rs`, `user_share_balance_logic.rs`, `portfolio_logic.rs`) | none | pure replay of the ledger, sums over holdings and closes | prices | the timeline is the replay of the ledger; value and profit of a day are explained by ledger and closes; past days do not change; the screens and the report agree |
| Middleware and risk profile (`auth/{jwt,middleware,profile}.rs`, `get_user_logic.rs`, `update_risk_profile_logic.rs`) | tokens of the clients, `user_investing_profiles` | issue and accept a token, renew the profile, gate | login, 2FA, account deletion, two clocks | the second factor takes hold; who is told the profile is fine gets through |
| Preferences | `user_preferences` | upsert, delete | trends, comparison | |
| Upstream (`endpoints/upstream.rs`, `modal.rs`, `mail`), model administration, market proxies, router | `hidden_models` only | retries, pass-through, checks | everything | a request is retried a bounded number of times |

The hard behaviours, each with the line where it bites, are the "hazards" of
`PROJECT.json`: a value read before an await and used after it (DELETE,
`persist_entry_price`, 2FA), check-then-insert (registration, backfill), two
transactions over one snapshot (retro), a table shared by a job and the screens
(trend cache), locks held across HTTP calls and cascades (PUT, account
deletion), detached tasks lost with the process (mails, preparations), sleeps
counted from the end of the last run (report, catalogue), a token believed
without asking the database, an expiry checked by two clocks.

## 2. Modules

| Module | Models |
|---|---|
| `Portfolio` | holdings, ledger and all six kinds of request that touch them |
| `HoldingsLedger` | abstract: a holding and its ledger change in one instant |
| `PortfolioRefinement` | `Portfolio` implements `HoldingsLedger` (refinement mapping) |
| `Accounts` | registration, verification and reset links, mails, deletion |
| `TwoFactor` | setup, enable, disable, login of one account |
| `TrendCache` | screens of trends, the cache, background preparations |
| `Alerts` | extends `TrendCache` with the daily job and the subscriptions: the composition of both over the one cache |
| `Retro` | cards, archives, undo, sprint number |
| `RetroBoard` | abstract: a sprint ends, or is taken back, in one instant |
| `RetroRefinement` | `Retro` implements `RetroBoard` until a commit is stale |
| `CompareCache` | the comparison of models, its cache, the choice of the model shown first |
| `BalanceHistory` | the pure functions of the balance history, over every ledger and price history the handlers can leave |
| `Figures` | profit and loss, weights, balance and report as functions of holdings and closes |
| `ProcessClock` | the clock the jobs sleep by |
| `WeeklyReport` | the job of the weekly report: sleep, weekday, run, restarts; extends `Figures` |
| `TickerSync` | the catalogue, its job and `/shares/update` |
| `Access` | login tokens, the second factor as seen by them, the risk profile and its gate |
| `PortfolioProofs`, `AccountsProofs`, `LoginProofs` (of `TwoFactor` and `Access`), `AlertsProofs` (with `TrendCache`), `RetroProofs`, `JobsProofs` (of `TickerSync`, `WeeklyReport` and `Figures`), `CompareCacheProofs`, `BalanceHistoryProofs` | theorems and their proofs |
| `MCIndependent` | `TrendCache`, `WeeklyReport`, `TickerSync` and `Access`, side by side |
| other `MC*` | symmetry sets and constants for TLC (`BalanceHistory` needs none) |

A request is a process with a stage. A step is what a request does between two
points where another one can get in: an await on a service, a lock it has to
wait for, a commit. Statements of one transaction that cannot wait for anybody
are one step with the commit; the locks a transaction holds follow from its
stage. `Fail` of each module is every way a request ends early: an upstream
error, a database error, a client that hangs up, the end of the process; what
was not committed is rolled back.

**Portfolio.** `row[p]` is the committed row of user and share (the primary key
is the number `gen` of the row among those of its position), `net[p]` the sum
of the ledger. `PutLock` is `SELECT ... FOR UPDATE`; because it joins `shares`
without `OF`, it locks the share as well, which blocks the foreign key check of
every ledger insert on that share (`CanReference`, `CanRecord`). `DeleteRead`
and `DeleteRow` are the two sides of the await in DELETE. `CloseLock` and
`CloseCommit` are the two sides of the wait in the cascade of `DELETE FROM
users`. `DeadlockAbort` is the database breaking a PUT or DELETE that waits for
the user while the cascade waits for its row. `WaitsFor` says who waits for whom
at the guards above; only `OnlyClosingDeadlocks` uses it. Prices are an abstract set, for
what matters is which price is stored. `Legacy` positions were opened before the
ledger existed: they may lack a price and have an empty ledger, the state the
backfill is for.

**Accounts.** One row per account with both links; ids are never used again.
`CanStore` is the `WHERE` of the UPDATE that stores a link. Times are in
abstract units; what counts is the order of cooldown, expiry and requests.

**TwoFactor.** A code is the secret it is computed from: `CodeAccepted` means
the owner's app has the stored secret. `overlap` records that a request wrote
over a state it had not read. Only the owner acts.

**TrendCache, Alerts.** A prediction is (model, ticker, condition) and changes
overnight, to anything. A request stays within a day and the next one (its HTTP
client gives up after 20 s). The job runs at most once a day, for it sleeps
between runs, also after a restart; every database error ends its run (`JobEnd`).
A cache that cannot be read has no rows, so that every ticker is fetched. The
three reads a screen opens with, holdings, preferences and cache, are one step:
the first two only choose which predictions are shown and not how old they are.
`told` remembers what the job stored last and only the properties read it.
A subscriber counts as mailed whether SMTP takes the mail or not, as in the code.

**Retro.** A board counts cards per note, since undo writes the notes on new
cards. The begin of an archive and its SELECT are one step. `stale` records that
an archive found at its commit another board than it had read, or an undo
another last archive. `RetroBoard` is what a team believes it works on: the past
sprints by their number, and a board. `RetroRefinement` gives it `Past`, the cards
of the archive with each number, and `stale` for the moment from which it
promises nothing.

**CompareCache.** One ticker: rows of different tickers never meet. A body is
who responded, the model shown first and, for the properties, since when its
request had been running; `blind` records that the look into the cache failed.
`PickBest` is `pick_best_model` with accuracies in percent and scores as
fractions; what the models report of their past (`backtest`) is fixed in a
behaviour and any of `Backtests`. The consensus for the risk profile is asked
for on every request, added after the row is stored and never stored itself.

**BalanceHistory.** `Checkpoints`, `HoldingsOnDay`, `PriceOn` and `DailyBalance`
are the functions of the handler; `ledger[t]` is in the order of its SELECT.
`Replay` is the loop of `build_checkpoints` over the first operations; the
properties compare it with what the operations of a day add up to. An operation
is dated by the begin of its transaction (`NOW()`), up to `Life` before it is
committed, and a seed of the backfill by the purchase. The average cost is a
fraction, so nothing is rounded. An answer keeps what each ticker adds to a day:
the totals of the code are the sums over `DOMAIN shown[day]`. The SELECT of the
ledger, the prices and the last day of the answer are one step (`Answer`). The
ledger is read once, so what is recorded meanwhile is as if recorded after it;
closes and midnights that come meanwhile concern only the day of the SELECT and
later ones, and the properties speak of the days before.

**WeeklyReport, Figures.** The job sleeps, looks at the weekday, and sleeps
again. A run is `ReadHoldings` (one statement), `FetchPrices` (all shares at
once, each answered with a history or not) and one `MailOwner` per owner, in any
order as the HashMap has it. A restart can come between any two steps and leaves
only the sleep. `Figures` has the sums of three files that leave different
holdings out: profit and loss sums what has both prices, the weights what has a
current price, the balance wants everything, the report's change wants a close a
week older than the last one. Amounts are integers and a percentage is a
fraction, so rounding plays no part. The sums are `SumFunction` of the community
modules over the holdings each screen keeps. `AtMostOneReportAWeek` reads
`tried`, whom a mail was handed to SMTP for, and `mailedOn`, who got one.

**TickerSync.** `SyncAsk`, `CollectorAnswers` and `SyncStore` are the two awaits
of `sync_tickers`, for the job and for callers of the endpoint. The collector
may change its list at any time. The catalogue is never cleaned.

**Access.** A token carries its expiry and, for the property, whether a code was
asked for; `require_auth` looks at nothing else, so tokens outlive their account
and the enabling of the second factor. A login reads the account in its first
step and issues the token in its last. `skew` is how far the clock of the
process is ahead of that of the database: profiles are dated and shown by the
database, gated and tokens dated by the process. `Leeway` is the one of
`Validation::default()` (60 s). The gate reads the
profile and compares it with the clock in one step. How a code is checked is in
`TwoFactor`; here enabling and disabling are steps in time.

## 3. Runs

| Run | Checks | Shows |
|---|---|---|
| `requests` | `Portfolio_requests.cfg` | every kind of request, two at a time on a legacy position: types, no orphans, which steps may move ledger and price, every request is answered |
| `orders` | `Portfolio_orders.cfg` | two users, POST/PUT/account deletion: the ledger is exact, the locked row is stable, `HoldingsLedger` is implemented; nothing but a PUT and the deletion of its account deadlocks |
| `stale_sale` | violation | DELETE sells a quantity that a PUT has changed |
| `accounts` | `Accounts.cfg` | the five properties of accounts and links |
| `two_factor` | `TwoFactor.cfg` | without overlapping requests the owner gets in |
| `two_factor_overlap` | violation | setup overlapping enable leaves an unproved secret enabled |
| `independent` | `Independent.cfg` | screens: nothing older than the eve is shown and the preparations keep their limit. Reports: at most one a week, nobody forgotten, a week lost only to restarts and late timers, figures that agree, a change that is an average. Catalogue: what stays listed gets in, in time. Access: the second factor takes hold, who is told fine gets through |
| `alerts` | `Alerts.cfg` | alerts are exact unless a screen wrote the row since the job did |
| `alerts_hidden` | violation | a screen hides a change of trend from the job |
| `retro` | `Retro.cfg` | notes vanish only in known ways; without stale commits nothing is doubled and `RetroBoard` is implemented; every request is answered |
| `compare` | `CompareCache.cfg` | how old a comparison may be, that a complete one serves its day, that the model shown first is not dominated |
| `history` | `BalanceHistory.cfg` | the replay gives the holdings of the ledger, the cost is an average of prices paid, value and profit of a settled day are what ledger and closes say, also after what came since, past days are settled |

A violation run states what a comment, a doc or a test of the repository says
and TLC finds it wrong of the code; `PROJECT.json` quotes the line under
"findings". Each of them has a passing counterpart that says how far the code
does keep the promise: `LedgerMovesWithHolding` and `LedgerMatchesHolding`
without DELETE, `OwnerGetsIn`, `AlertsFollowTheTrendUnlessShown`.

`independent` checks four parts of the process that share no variable and no
table. `part`, chosen at the start and never changed, says which of them moves:
no step of one can enable or disturb a step of another, so interleaving them
would multiply the states and add no behaviour of any one part. Where parts do
meet there is a composition: trends and alerts in `Alerts`, the three kinds of
ledger writer in `Portfolio`.

**Bounds.** Two requests in flight are enough for every hazard listed, each of
which is one request overtaking another. `MaxQty = 2` has a partial buy, a
partial sell and a full sale; `MaxRows = 2` closes and opens a position again
while an older request still names the first row; two prices tell a kept price
from a new one. Accounts: `MaxTime = 4` lets a link of each kind expire and a
second one be issued after the cooldown; `MaxIds = 2` registers the address
again; `MaxLinks = 3` has two links of one kind and one of the other. Screens:
three days are needed to tell a stale answer from that of a request over
midnight; one preparation place for two tickers reaches the limit
(`MAX_CONCURRENT_PREPARATIONS` is 2). Alerts: two days are one change; three
conditions are a prediction with condition, a change and one without the field
(`NoCondition`). Retro: `MaxAt = 2` has two archives, also in the wrong order,
`MaxCopies = 2` one undo too many; `First = 2` reaches the lower limit of the
sprint that `First = 15` of the migration hides from a small instance.
Comparison: three models are one of Modal, one of api-ml and one that forecasts
volatility, the three ways to answer; `DayLength = 3` and `Window = 1` let an
incomplete row expire within its day, `MaxTime = 4` and `Life = 1` let a request
and a row meet midnight. The backtests of `MCBacktests` have fewer cases, a lower
accuracy, no count of cases, a count of zero, no metrics, and an accuracy of 50%,
which more cases do not move. History: three operations are buy,
sell, and one of an earlier date or beyond what is left; three days of one
instant are a day before, of and after an operation; `Life = 1` has a commit
after midnight. Tickers are valued apart from each other, so there is one; two
prices tell an average from a last price. Reports: a day of two units leaves room
to drift over midnight, a week of two days with `MaxTime = 8` has two report days
and the days between; a run may take until the week is over, not longer
(`EndsInTime`). Two shares and two owners, with and without entry price, with
histories that are empty, younger than a week, rising, falling and from zero,
reach every way to be left out of a sum. Catalogue: one ticker, for tickers are
inserted apart; the job and one caller overlap in every way. Access: one browser
with one token, since tokens do not meet; tokens and profiles of two units expire
and are renewed within `AccessEnd = 6`; the clocks differ by one in both
directions.

**Assumptions on time.** The code bounds none of these, the models do: a run of
the report ends before the next week (`EndsInTime`); data-collector answers or
breaks off within `AnswerTime` (`sync_tickers` sets no timeout: a connection that
stays open would stop the job for good); a login takes at most `LoginTime`; the
timer of the synchronisation is not late (that of the report may be).
`IntervalAssumption` has the report job sleep a day or more, as by default:
`WEEKLY_REPORT_CHECK_INTERVAL_HOURS` below 24 sends several on one Monday.

One run turns the deadlock check off, `stale_sale`: with only its request kinds
the bounded rows run out and the small instance has nothing more to do. In the
passing runs no state is without a successor.

**Symmetry** is used in runs that check safety only.

**Fairness.** `FairSpec` of `Portfolio` and of `Retro` assumes strong fairness
of each request's own steps: PostgreSQL queues the waiters of a row lock, so a
request that can go on again and again is not overtaken for ever, and the tasks
of tokio are all scheduled. It also assumes that the deadlock detector runs.
Nothing makes a request arrive, fail or be cancelled. The other modules state no
liveness: no mail, alert or preparation is promised by the code.

## 4. Theorems

Proved with TLAPS for every value of the constants that satisfies the named
assumptions of the modules (`PricesAssumption`, `NoneAssumption`,
`BoundsAssumption`, `KindsAssumption`, `LegacyAssumption`,
`DurationsAssumption`, `NoSecretAssumption`, `AccessAssumption`,
`ModelsAssumption`, `CapacityAssumption`, `SubscriptionAssumption`,
`EntryAssumption`, `SprintAssumption`, `SyncAssumption`, `MaxTimeAssumption`,
`IntervalAssumption`, `WeekAssumption`, `PortfoliosAssumption`,
`HistoriesAssumption`, `NamesAssumption`, `BacktestsAssumption`,
`ClockAssumption`, `RowAssumption`). Most say that a bound is a number or that a
marker such as "no price" is no price. `HistoriesAssumption` says of
data-collector that a history is finite and a close not negative:
`reports/mod.rs` itself asks a close only to be a finite number.
`PortfoliosAssumption` says of the holdings what the table enforces: finitely
many rows, `UNIQUE (user_id, share_id)`, `CHECK (quantity > 0)`.

`PortfolioProofs`, for any users, shares, number of requests and mix of kinds:

- `TypeCorrect`, from `Typed`: a request that names a position names a real one.
- `LockedRowStability` and `NoOrphans`, from `IInv`. `LockedRowIsStable` is not
  inductive: a DELETE or another PUT could hold the same row. `IInv` adds that
  the row of every holder exists (`HeldRowExists`) and that two transactions
  never hold the same row (`OneHolder`). The proof asks of each step who holds
  what: nobody writes a row another one holds (`HeldRowUntouched`) and who holds
  one after its own step has just found it free (`HolderHasJustLocked`).
- `PriceDiscipline` and `LedgerDiscipline`, action properties, from `IInv` by
  cases on the step.
- `LedgerIsExact` and `Refinement`, under `Exact`: no legacy position, no
  backfill, PUT and DELETE not both served. The invariant `XInv` adds that what
  a DELETE has read is still the quantity of its row, which is true as long as
  only PUT could change it, and that every quantity is at most `MaxQty`. The
  `stale_sale` run shows that PUT and DELETE must not be mixed; that a backfill
  breaks the equality is in the exceptions of `LedgerMovesWithHolding`.
- `DeadlocksAreOfClosings`: requests that all wait for one another hold a PUT or
  DELETE and the deletion of its own account. `WaitsAreTheGuards` shows that
  `WaitsFor` says no more and no less than the guards of the requests for one
  position and of the deletion. PUT locks a share that every user's ledger entries
  reference, so it is not plain that users do not block each other. `DInv` adds to
  `IInv` that one transaction has a share (`OneShareHolder`); then whoever holds a
  row or a share and waits, waits for the deletion of its user (`HolderWaits`), or
  is a DELETE that waits for the holder of its share, which waits for the deletion
  of its own (`StuckHolder`), and everybody else waits for a holder or for such a
  deletion (`StuckPair`).
- `NothingHalts`, from it: whenever requests are in flight, one waits for nobody or
  there is such a pair, which `DeadlockAbort` breaks. It is the part of
  `EveryRequestIsAnswered` that is within reach of the prover.

`AccountsProofs`, for any addresses, number of requests, cooldown and lives of
the links: `TypeCorrect`, `OneAccount`, `VerifiedDone`, `LinksSpaced` and
`LinksOnce`. `LinksAreSpaced` speaks of the links ever issued, the UPDATE only of
one column of a row: `SentHolds` says that this column is not earlier than any
link of the account, and `IdsHold` that a row of a new id has no links from a
former account. `TokensHold` says that the token of a row is the newest link of
its kind, unused, with the expiry it was given; a use of a link finds all of
`LinksWorkOnce` in it. The proof has one lemma for a row that gets a link
(`LinkAdded`), one for a row that uses one (`LinkUsed`) and one for rows that go.

`LoginProofs` for `TwoFactor`, for any secrets and number of requests:
`TypeCorrect`, `OwnersGetIn` and `ProvedUnlessOverlap`, from an invariant on what a
request in flight has read (`ReadsHold`). The last is what is left of the promise
that the run `two_factor_overlap` refutes, and what a refused login contradicts.

`LoginProofs` for `Access`, for any clients, lives and difference of the clocks:
`AccessTypeCorrect`, `SecondFactorHolds` and `GateAgrees`. The second needs
`CodelessIsOld`: a token without a code comes from a login that began before the
enabling, so that its expiry is bounded by the moment of the enabling;
`LoginsHold` bounds how old a login is. The last needs `ProfilesHold`: what was
told is at most the expiry of the last profile, which a renewal only puts off.

`JobsProofs` for `TickerSync`: `SyncTypeCorrect`, and `CatalogueInTime` for any
tickers, callers and sleeps, from `OnTime` (the job sleeps at most an interval,
its request is young) and `MissingInReach`: what is missing will be asked for by
a known time, or was listed after the answer the job is about to store. That
second case is why two requests have to be allowed for and not one.

`JobsProofs` for `WeeklyReport` and `Figures`, for any portfolios, closes and
lengths of day and week:

- `ReportTypeCorrect`.
- `EverybodyIsMailed`, from `ToldOrToDo`: during the mails, who has something to
  be told was tried or is still to do, and nobody else was tried.
- `OncePerWeek`, from `Weekly`: a sleep ends on a later day than every mail, a
  run is of a later day than the last mail of whoever it has not tried, and two
  days of one weekday are a week apart (`WeekApart`). It holds without
  `EndsInTime`.
- `OnlyDisturbedWeeksAreLost`, from `Undisturbed`: the sleep of the job began at
  the start of the process, on a day without a report, or after the run of that
  day. If it lasts over midnight of a report day, it began on that day.
- `FiguresAreOne`: the weights add up to the value the report totals, the profit
  is the value less what was invested, and with nothing missing profit and loss,
  balance and report say the same. A run values its rows with the histories it
  has fetched (`Quoted`); for any rows and quotes the figures agree by
  `FiguresAreSame`. The code adds up each figure by itself, over the holdings that
  figure keeps: the lemma rests on the linearity of a sum (`SumDifference`), on
  a part of amounts that are not negative being at most the whole (`SumPart`),
  and on equal amounts having equal sums (`SumSame`).
- `ChangeIsAnAverage`: the change the report gives for a portfolio lies between
  the smallest and the largest change of its lines, if each line that is compared
  has one. Were it beyond them, every line brought to the denominator of the
  total would be on one side of it, and the sum of the lines strictly on that
  side of itself (`SumStrict`).

`CompareCacheProofs`, for any models, backtests, users and lives of the cache,
from `CompareInv`:

- `TypeCorrect`, and `ShownFresh`: what is shown is not older than its cache
  allows. The invariant follows a comparison through the request that shows it:
  a row was stored within the life of a request of its fetch (`RowInv`), and a
  request holds a body that is fresh one stage before it answers (`FreshFor`,
  `RequestInv`).
- `NotDominated`: the model shown first has metrics if any has, and none that
  responded beats it in accuracy and cases at once. `BestPicked` says that
  `PickBest` returns a model of which no other has a better score; a score is a
  fraction, so that comparing two is a product (`FractionsOrdered`), and a model
  above chance that is not below another in cases nor in accuracy, and differs
  from it, has the higher score (`WorseIsBelow`).
- `DayServed`: once a complete comparison of the day is stored, no request that
  could see it asks again. A request that asks although the row is there had
  looked before the row was stored, or its look failed (`blind`).

`BalanceHistoryProofs`, for any tickers, prices, quantities, lengths of a day and
ledgers of any length, from `HistoryInv`: `HoldingsFollow`, `CostAveraged`,
`ProfitExplained` and the action property `PastSettled`. The first two compare a loop
with a definition that is none: `ReplayIs` gives the loop step by step, `NetIs`
the sum of a ledger, and by induction on how many operations were replayed
(`ReplayedQuantity`, `AverageKept`) the quantity is the sum of what was bought and
sold and the average cost lies between prices paid. `PastSettled` needs what an
operation of an earlier date does to a ledger in the order of `created_at`: it is
inserted (`InsertedIs`) and leaves the checkpoints of the days before it as they
were (`EarlierKept`). The invariant `Settled` says it of a state: a day on which
nothing was recorded since the last answer would be answered the same now.
`ProfitExplained` puts them together. `NoPhantomLoss` uses none of the functions
that make an answer: it compares what was answered with the sums of the ledger and
the closes there are now, at the last close of the day and between the profits
of the dearest and the cheapest purchase. `Settled` brings the old answer to the
present, `BalanceExplained` gets there from the quantity, the average and the
price (`ReplayedQuantity`, `CostOfADay`, `PriceIs`, `ProfitBetween`).

**Induction.** The induction theorems of the library take an operator as a
parameter, which the provers cannot instantiate. The inductions over ledgers,
histories and sets of holdings are therefore stated of sets: a set with 0 and
with the successor of each of its numbers contains `Nat` (`AllOfNat`), a set that has
the empty subset of a finite set, and a subset whenever it has all that lack one
of its elements, has every subset (`AllSubsets`). Both come from the
well-foundedness of `Nat`. `SumIs` and `SumExists` get from there that
`SumFunction` is the sum, and the other lemmas on sums follow.

`AlertsProofs`, for any users, tickers, models and conditions:

- `ScreensAreFresh` and `ScreenTypeCorrect` for `TrendCache` alone, `ShownWithJob`
  and `TypeCorrect` for the composition. A screen shows what others have stored,
  so the invariant is on the cache: a row was stored on the day of its
  prediction or on the next (`FreshRow`), and a request has what it fetched since
  its begin, at most one midnight ago (`FreshScreen`).
- `AlertsFollow`. `Tells` ties a row to `told`: a row written by the job has the
  condition the job told last, and without a row it has told nothing; it holds of
  the row and of what the job has read of it, which a screen may have overwritten
  since. `JobHolds` says that the job compares today's prediction of its ticker.

`RetroProofs`, for any notes and number of requests: `TypeCorrect`, `NotCopied`,
`Numbered` (without a stale commit archives and sprint are numbered without gaps,
in the order of their begin), `DoNotVanish`, `NothingHalts` and `Refinement`. Between the SELECT of an archive and its commit
other archives commit. `ReadingsHold` says that an archive has read a card and,
once it holds the lock of the sprint, the number there is; `UndosHold` that an
undo restores the cards of its archive. `SeenIsGone` is the core: without a stale
commit, once an archive that began later is there, what a waiting one has read is
off the board, so that the waiting one cannot commit without being stale; hence
archives are committed in the order of their begin (`CommitIsLast`), which is the
order of their numbers.

`Refinement` rests on the same invariant. `Past` names an archive by its number with
a CHOOSE, so the proof first shows that each number has one (`Numbers`, `PastOf`):
`Numbers` is the ordering part of `ArchivesAreNumbered` without the counting.
`CardsRefine`, `ArchiveRefines` and `UndoRefines` take the commits one by one: an
unstale archive has read the board it deletes and takes the number after all
others, an unstale undo restores the archive with the last number. A step that
leaves `stale` true is free in `RetroBoard`. `NothingHalts`:
an archive waits for the sprint row, an undo for its archive and then the sprint
row, and who has the sprint row waits for nobody.

Only model-checked: `EveryRequestIsAnswered` of `Portfolio` and of `Retro`, for
TLAPS has no reasoning about fairness and ENABLED here; both `NothingHalts` say that
there is always somebody to go on. Every other property of a passing run is a
theorem. The type invariants of `TwoFactor`, `WeeklyReport`, `TickerSync` and
`Access` are theorems and no run spends time on them (`TypeCorrect`,
`ReportTypeCorrect`, `SyncTypeCorrect`, `AccessTypeCorrect`); nor on
`ArchivesAreNumbered`, in whose place `retro` checks `ImplementsBoard`. The
properties of the three violation runs are false.

## 5. Not modelled

Dates and prices as numbers, password rules, hashing, tokens as strings, the
text of mails and answers, the PIN check, the consensus of api-ml, pure reads and
pass-through proxies (`portfolio_logic.rs` among them: holdings to api-ml, its
answer back).
Outside of `Access`, a request of the models has passed the middleware.
Upstream (`send_with_retry`, `fetch_ticker_history`, `modal.rs`, SMTP) is three
sequential tries without state; what it can come to, an answer, an error or
silence, is the input of the other modules. Administration is two idempotent
statements on `hidden_models`, which no other handler reads, and health checks.
`require_admin` reads a role that no handler writes. `seed_existing_holdings` of
`user_share_operations.rs` is called by no route and is left out; the one of
`user_shares_backfill.rs` is modelled. `is_active` of a user is never changed by
the code.

## 6. Where documents and code differ

The `findings` of `PROJECT.json` have a violation run each. Five more were met
while modelling; the models follow the code and no run is spent on them:

- `put_logic.rs:22` says `entry_price` is ignored on a sell; `put_logic.rs:187`
  stores it whenever it is given, also on a partial sell (`Updated`).
- Two overlapping backfills both find the ledger empty and seed a holding twice
  (`BackfillReadMissing`, `BackfillSeed`); `tests/ledger_and_history.rs:315`
  tests the second run after the first has ended.
- `compare_trend_logic.rs:285-287` explains the prior by 90% over 30 cases that
  do not beat 65% over 500; with 50 prior cases the scores are 0.650 and 0.636,
  and they do. The test `small_samples_do_not_beat_solid_ones` uses other numbers.
- The same comment wants few observations to pull an accuracy to chance;
  `compare_trend_logic.rs:293` leaves a backtest of 0 observations as it is
  (`n > 0.0`), so that one above 50% ranks above the same accuracy over any number
  of cases (`Score`).
- `reports/mod.rs:14` says the report goes out "una vez por semana (lunes)". A
  process started on a Monday sleeps until Tuesday, and a timer that is late at
  midnight, or a run still going on, passes over the Monday as well: that week
  has no report. `SkippedOnlyWhenDisturbed` shows that these are the only ways.

## 7. Plan

What would come next, in this order:

1. The composition of `Access` and `TwoFactor`, in which enabling is the two steps
   it has there, and with it what the enabling of a secret does to tokens.
2. The preferred model of a ticker, stored and deleted while screens are open.
