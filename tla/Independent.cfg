\* Screens: two users with two tickers over three days.  Reports: days of two
\* units, weeks of two days.  Catalogue: one ticker, the job and one caller.
\* Access: one browser, tokens and profiles of two units.
SPECIFICATION Spec
CONSTANTS
    Users = {u1, u2}
    Tickers = {t1, t2}
    Models = {lstm}
    DefaultModel = lstm
    Bootstrapped = {lstm}
    Conditions = {c1}
    NoEntry = NoEntry
    MaxPreparations = 1
    MaxDay = 2
    o1 = o1
    o2 = o2
    s1 = s1
    s2 = s2
    Owners <- OwnersOfReports
    Portfolios <- SomePortfolios
    Histories <- SomeHistories
    NoAmount = NoAmount
    WeekDays = 2
    DayLength = 2
    Interval = 2
    ReportDay = 1
    MaxTime = 8
    Listable = {m}
    Callers = {c}
    Job = Job
    SyncInterval = 4
    SyncRetry = 1
    AnswerTime = 1
    Clients = {b}
    TokenLife = 2
    Leeway = 1
    LoginTime = 1
    ProfileLife = 2
    Skews <- SomeSkews
    MaxProfiles = 2
    None = None
INVARIANTS ScreenTypeOK ShownIsFresh FiguresAgree WeekChangeIsAnAverage CatalogueCatchesUp
    SecondFactorTakesHold
PROPERTIES AtMostOneReportAWeek NobodyIsForgotten SkippedOnlyWhenDisturbed ToldFineGetsThrough
SYMMETRY Symmetry
