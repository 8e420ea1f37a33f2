\* Two users, three models, two days of three units.
SPECIFICATION Spec
CONSTANTS
    Users = {u1, u2}
    lstm = lstm
    garch = garch
    local = local
    Names <- MCNames
    Volatility = {garch}
    Local = {local}
    DefaultModel = lstm
    Backtests <- MCBacktests
    NoBacktest = NoBacktest
    NoCount = NoCount
    NoRow = NoRow
    Window = 1
    Life = 1
    DayLength = 3
    MaxTime = 4
SYMMETRY Symmetry
INVARIANTS TypeOK ShownIsFresh DefaultIsNotDominated
PROPERTIES CompleteServesItsDay
