----------------------------- MODULE WeeklyReport -----------------------------
(***************************************************************************)
(* The job that mails every active owner of shares the report of the week. *)
(* It sleeps Interval, looks whether it is the weekday of the report, and  *)
(* sleeps again; the run of a report comes in between.  Nothing of it is   *)
(* stored: after a restart the job begins with the sleep.                  *)
(*                                                                         *)
(* A run reads all holdings in one statement, asks for the closes of all   *)
(* their shares at once, and mails one owner after the other.              *)
(***************************************************************************)
EXTENDS Figures, ProcessClock

CONSTANTS
    Owners,
    Portfolios,   \* what active_user_holdings can find: sets of holdings
    Histories,    \* what the collector can answer: closes by day, maybe none
    Interval,     \* WEEKLY_REPORT_CHECK_INTERVAL_HOURS
    DayLength,    \* the time units of a day
    ReportDay     \* REPORT_WEEKDAY

ASSUME IntervalAssumption ==
    /\ DayLength \in Nat \ {0} /\ Interval \in Nat /\ Interval >= DayLength
    /\ ReportDay \in 0 .. WeekDays - 1

(* One row for a share; a quantity is positive, and some rows have no entry *)
(* price.                                                                   *)
ASSUME PortfoliosAssumption ==
    \A rows \in Portfolios :
        /\ IsFiniteSet(rows)
        /\ \A h \in rows : /\ h.owner \in Owners
                           /\ h.qty \in Nat \ {0} /\ h.entry \in Int \cup {NoAmount}
        /\ \A h, k \in rows : h.owner = k.owner /\ h.share = k.share => h = k

(* Finitely many closes, and no negative one.                               *)
ASSUME HistoriesAssumption ==
    \A points \in Histories :
        /\ IsFiniteSet(DOMAIN points) /\ DOMAIN points \subseteq Int
        /\ \A d \in DOMAIN points : points[d] \in Nat

VARIABLES
    wake,      \* when the sleep of the job ends, or ended
    smtp,      \* the process found a configuration for mails
    report,    \* the run
    boot,      \* when the process started (history)
    mailedOn   \* mailedOn[u]: the report day of the last mail to u (history)

reportVars == <<wake, smtp, report, boot, mailedOn>>

Shares(rows) == {h.share : h \in rows}

Of(u, rows) == {h \in rows : h.owner = u}

(* What a share can be quoted at.                                           *)
Quotes == {NoAmount} \cup
          {WeekPrices(points) : points \in {p \in Histories : DOMAIN p # {}}}

Day(t) == t \div DayLength

(* day: of the check that began the run; tried: the owners a mail was       *)
(* handed to SMTP for.                                                      *)
NoRun(day) == [stage |-> "sleeping", day |-> day, rows |-> {}, quote |-> <<>>,
               todo |-> {}, tried |-> {}]

ReportStages == {"sleeping", "holdings", "prices", "mails"}

------------------------------------------------------------------------------
(* Mutant of Sleep: the job sleeps a week, for it reports once a week.      *)
SleepAWeek ==
    /\ wake' = now + Interval * WeekDays
    /\ report' = NoRun(report.day)

Sleep ==
    /\ wake' = now + Interval
    /\ report' = NoRun(report.day)

IsReportDay(t) == Day(t) % WeekDays = ReportDay

Check ==
    /\ report.stage = "sleeping" /\ now >= wake
    /\ IF IsReportDay(now)
       THEN /\ report' = [report EXCEPT !.stage = "holdings", !.day = Day(now)]
            /\ UNCHANGED wake
       ELSE Sleep
    /\ UNCHANGED <<smtp, boot, mailedOn>>

(* active_user_holdings; an error of the database ends the run.             *)
ReadHoldings ==
    /\ report.stage = "holdings"
    /\ \/ Sleep
       \/ \E rows \in Portfolios \ {{}} :
            /\ report' = [report EXCEPT !.stage = "prices", !.rows = rows]
            /\ UNCHANGED wake
    /\ UNCHANGED <<smtp, boot, mailedOn>>

(* fetch_ticker_week_prices; without a configuration nobody is mailed.      *)
FetchPrices ==
    /\ report.stage = "prices"
    /\ \E quote \in [Shares(report.rows) -> Quotes] :
         IF smtp
         THEN /\ report' = [report EXCEPT !.stage = "mails", !.quote = quote,
                                          !.todo = {h.owner : h \in report.rows}]
              /\ UNCHANGED wake
         ELSE Sleep
    /\ UNCHANGED <<smtp, boot, mailedOn>>

(* Who has something to be told.                                            *)
HasLines(u) == ReportLines(Of(u, report.rows), report.quote) # {}

(* Mutant of MailOwner: a mail that fails ends the run.                     *)
MailOwnerOrStop(u) ==
    /\ report.stage = "mails" /\ u \in report.todo
    /\ \/ /\ report' = [report EXCEPT !.todo = @ \ {u},
                                      !.tried = IF HasLines(u) THEN @ \cup {u} ELSE @]
          /\ mailedOn' = IF HasLines(u) THEN [mailedOn EXCEPT ![u] = report.day]
                         ELSE mailedOn
          /\ UNCHANGED wake
       \/ /\ HasLines(u) /\ Sleep /\ UNCHANGED mailedOn
    /\ UNCHANGED <<smtp, boot>>

(* send_weekly_report: SMTP takes the mail or it fails, which is logged.    *)
MailOwner(u) ==
    /\ report.stage = "mails" /\ u \in report.todo
    /\ report' = [report EXCEPT !.todo = @ \ {u},
                                !.tried = IF HasLines(u) THEN @ \cup {u} ELSE @]
    /\ \/ UNCHANGED mailedOn
       \/ HasLines(u) /\ mailedOn' = [mailedOn EXCEPT ![u] = report.day]
    /\ UNCHANGED <<wake, smtp, boot>>

EndRun ==
    /\ report.stage = "mails" /\ report.todo = {}
    /\ Sleep
    /\ UNCHANGED <<smtp, boot, mailedOn>>

(* Mutant of Boot: the job looks first and sleeps afterwards.               *)
BootWithCheck ==
    /\ wake' = now
    /\ boot' = now
    /\ smtp' \in BOOLEAN
    /\ report' = NoRun(report.day)

(* spawn_weekly_report_job.                                                 *)
Boot ==
    /\ wake' = now + Interval
    /\ boot' = now
    /\ smtp' \in BOOLEAN
    /\ report' = NoRun(report.day)

ReportRestart == Boot /\ UNCHANGED mailedOn

(* Assumption on the services: all mails of a week are sent in that week.   *)
EndsInTime == report.stage = "sleeping" \/ Day(now + 1) < report.day + WeekDays

ReportInit ==
    /\ wake = now + Interval
    /\ boot = now
    /\ smtp \in BOOLEAN
    /\ report = NoRun(-1)
    /\ mailedOn = [u \in Owners |-> -1]

ReportNext ==
    \/ /\ \/ Check \/ ReadHoldings \/ FetchPrices \/ EndRun \/ ReportRestart
          \/ \E u \in Owners : MailOwner(u)
       /\ UNCHANGED now
    \/ EndsInTime /\ Tick /\ UNCHANGED reportVars

ReportSpec == ClockInit /\ ReportInit /\ [][ReportNext]_<<now, reportVars>>

------------------------------------------------------------------------------
(* Properties                                                               *)

ReportTypeOK ==
    /\ now \in 0 .. MaxTime
    /\ wake \in Nat /\ boot \in 0 .. MaxTime
    /\ smtp \in BOOLEAN
    /\ mailedOn \in [Owners -> -1 .. Day(MaxTime)]
    /\ report.stage \in ReportStages /\ report.day \in -1 .. Day(now)
    /\ report.rows \in Portfolios \cup {{}}
    /\ report.todo \cup report.tried \subseteq {h.owner : h \in report.rows}

(* "Este mail se envia una vez por semana": whoever got the report of one   *)
(* week is not written to before the report day of another, whatever is     *)
(* restarted in the meantime.                                               *)
AtMostOneReportAWeek ==
    [][\A u \in report'.tried \ report.tried :
         mailedOn[u] # -1 => report.day >= mailedOn[u] + WeekDays]_report

(* A run that no restart cuts short has handed over a mail for every owner  *)
(* with a share that could be priced; a mail that fails does not stop the   *)
(* others.                                                                  *)
NobodyIsForgotten ==
    [][report.stage = "mails" /\ report'.stage = "sleeping" /\ boot' # now
       => report.tried = {u \in Owners : HasLines(u)}]_report

(* The sleep of a day begins when the last run has ended, so the hour of    *)
(* the check moves with every run, over midnight too.  No week is lost by   *)
(* that: a report day goes by without a run only if the process was started *)
(* on it, for then the first sleep ends on the next day, or if at midnight  *)
(* the job is late, because its timer or the last run is.                   *)
SkippedOnlyWhenDisturbed ==
    [][IsReportDay(now) /\ Day(now') # Day(now) /\ Interval = DayLength
       => report.day = Day(now) \/ Day(boot) = Day(now) \/ now >= wake]_now

(* The figures of the same holdings at the same closes.                     *)
SameFigures(rows, quote) ==
    LET price == [s \in DOMAIN quote |->
                    IF quote[s] = NoAmount THEN NoAmount ELSE quote[s].current]
        pnl == PnlSummary(rows, price)
        value == ReportValue(rows, quote)
        weighed == {h \in rows : Weight(h, rows, price) # NoAmount}
    IN  /\ weighed = IF value > 0 THEN Priced(rows, price) ELSE {}
        /\ \A h \in weighed : Weight(h, rows, price)[2] = value
        /\ weighed # {} => SumFunction([h \in weighed |-> Weight(h, rows, price)[1]]) = value
        /\ pnl.profit = pnl.value - pnl.invested
        /\ pnl.value <= value
        /\ Valued(rows, price) = rows =>
             Balance(rows, price) = [value |-> value, cost |-> pnl.invested,
                                     profit |-> pnl.profit]

(* The same holdings at the same closes, as the three computations give     *)
(* them.  The weights are of the value the report totals and add up to it;  *)
(* the profit is the value less what was invested, each of the same         *)
(* holdings; with nothing missing profit and loss, the balance and the      *)
(* report say the same.                                                     *)
FiguresAgree ==
    report.stage = "mails" =>
      \A u \in Owners : SameFigures(Of(u, report.rows), report.quote)

(* r <= s, for fractions.                                                   *)
AtMost(r, s) == r[1] * s[2] <= s[1] * r[2]

(* The change of a portfolio and the changes of its lines.                  *)
ChangeBetweenLines(rows, quote) ==
    LET lines == Compared(rows, quote)
        whole == ReportChange(rows, quote)
        changes == {LineChange(h, quote) : h \in lines}
    IN  NoAmount \notin changes =>
          IF lines = {} THEN whole = NoAmount
          ELSE /\ \E c \in changes : AtMost(c, whole)
               /\ \E c \in changes : AtMost(whole, c)

(* The change of the week that the report gives for the portfolio lies      *)
(* between the lowest and the highest of its lines: a share that had no     *)
(* close a week ago adds neither to the old value nor to the new one.  A    *)
(* close of zero a week ago is left out, for such a line shows no change.   *)
WeekChangeIsAnAverage ==
    report.stage = "mails" =>
      \A u \in Owners : ChangeBetweenLines(Of(u, report.rows), report.quote)
==============================================================================
