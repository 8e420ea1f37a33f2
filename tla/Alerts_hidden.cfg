\* One user with one ticker, two models, three conditions, two days.
SPECIFICATION Spec
CONSTANTS
    Users = {u1}
    Tickers = {t1}
    Models = {lstm, arima}
    DefaultModel = lstm
    Bootstrapped = {}
    Conditions = {c1, c2, none}
    NoCondition = none
    NoEntry = NoEntry
    Portfolio = Portfolio
    NoTicker = NoTicker
    MaxPreparations = 1
    MaxDay = 1
PROPERTIES NoAlertIsMissed
SYMMETRY Symmetry
