\* A setup and an enable that overlap.
SPECIFICATION Spec
CONSTANTS
    Secrets = {s1, s2}
    Requests = {r1, r2}
    NoSecret = NoSecret
SYMMETRY Symmetry
INVARIANTS EnabledSecretWasProved
