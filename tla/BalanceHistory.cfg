\* One ticker, three operations, three days.
SPECIFICATION Spec
CONSTANTS
    Tickers = {t1}
    Prices = {1, 3}
    Life = 1
    MaxQty = 2
    MaxOps = 3
    DayLength = 1
    MaxTime = 2
INVARIANTS HoldingsAreTheLedger CostIsAnAverage NoPhantomLoss
PROPERTIES PastIsSettled
