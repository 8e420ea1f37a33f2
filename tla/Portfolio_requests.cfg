\* Every kind of request, two at a time, on one position opened before the
\* ledger.  No symmetry: a liveness property is checked.
SPECIFICATION FairSpec
CONSTANTS
    Users = {u1}
    Shares = {s1}
    Requests = {r1, r2}
    Prices = {p1, p2}
    NoPrice = NoPrice
    None = None
    MaxQty = 2
    MaxRows = 2
    Kinds = {"post", "put", "delete", "balance", "backfill", "close_account"}
    Legacy <- AllLegacy
INVARIANTS TypeOK NothingSurvivesTheAccount
PROPERTIES LedgerMovesWithHolding PriceChangesAreExplained EveryRequestIsAnswered
