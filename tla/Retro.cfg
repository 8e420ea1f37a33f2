\* Two notes; archives and undos two at a time.
SPECIFICATION FairSpec
CONSTANTS
    Notes = {n1, n2}
    Requests = {r1, r2}
    First = 2
    NoArchive = NoArchive
    MaxCopies = 2
    MaxAt = 2
INVARIANTS TypeOK NotesAreNotCopied
PROPERTIES NotesDoNotVanish ImplementsBoard EveryRequestIsAnswered
