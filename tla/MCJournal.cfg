\* Two rows, long enough to be completed, undoing and undone; terminal rows compete for one slot.
CONSTANTS
    Dir = {d1}
    Name = {n1}
    NoPath = NoPath
    MaxVersion = 0
    MaxId = 2
    MAX_ACTIVE = 1
    NONTERMINAL_LIMIT = 1
    MAX_TERMINAL_JOURNAL = 1
    MAX_JOURNAL_AGE = 1
    MaxRevision = 7
    MaxClock = 2
SPECIFICATION JournalSpec
INVARIANT JournalTypeOK
PROPERTIES ForwardOnly RevisionNamesContent ActiveEvidenceKept RetentionKeepsNewest
