\* One address registered, deleted and registered again; two requests in
\* flight; time enough for a link to expire and for a second one.
SPECIFICATION Spec
CONSTANTS
    Emails = {e1}
    Requests = {r1, r2}
    None = None
    Cooldown = 1
    VerifyTTL = 3
    ResetTTL = 2
    MaxTime = 4
    MaxIds = 2
    MaxLinks = 3
SYMMETRY Symmetry
INVARIANTS TypeOK OneAccountPerEmail VerifiedHasNoLink LinksAreSpaced
PROPERTIES LinksWorkOnce
