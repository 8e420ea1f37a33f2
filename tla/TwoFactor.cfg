\* Two requests at a time, three setups.
SPECIFICATION Spec
CONSTANTS
    Secrets = {s1, s2, s3}
    Requests = {r1, r2}
    NoSecret = NoSecret
SYMMETRY Symmetry
INVARIANTS OwnerGetsIn
