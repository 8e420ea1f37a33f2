\* DELETE while a PUT changes the quantity.
SPECIFICATION Spec
CONSTANTS
    Users = {u1}
    Shares = {s1}
    Requests = {r1, r2}
    Prices = {p1, p2}
    NoPrice = NoPrice
    None = None
    MaxQty = 2
    MaxRows = 2
    Kinds = {"put", "delete"}
    Legacy <- NoLegacy
SYMMETRY Symmetry
INVARIANTS LedgerMatchesHolding
CHECK_DEADLOCK FALSE
