\* POST, PUT and account deletion on two positions, two requests at a time.
SPECIFICATION Spec
CONSTANTS
    Users = {u1, u2}
    Shares = {s1}
    Requests = {r1, r2}
    Prices = {p1, p2}
    NoPrice = NoPrice
    None = None
    MaxQty = 2
    MaxRows = 2
    Kinds = {"post", "put", "close_account"}
    Legacy <- NoLegacy
SYMMETRY Symmetry
PROPERTIES ImplementsHoldings
INVARIANTS LedgerMatchesHolding LockedRowIsStable OnlyClosingDeadlocks
