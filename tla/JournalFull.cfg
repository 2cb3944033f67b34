\* Two watched roots; the journal is full as soon as the queue would be.
CONSTANTS
    f1 = f1
    f2 = f2
    f3 = f3
    File = {f1, f2, f3}
    StartFiles <- MCStartFiles
    WatchedRoots <- MCRoots
    RootOf <- MCRootOf
    Partial = {f3}
    Choice = {NoChoice}
    NoChoice = NoChoice
    NoFile = NoFile
    Settle = 1
    Period = 2
    MAX_PROPOSALS = 1
    MAX_ACTIVE = 1
    MAX_WALK_FILES = 2
    MaxIdentity = 4
    MaxEvents = 2
SPECIFICATION WatcherSpec
PROPERTIES JournalFullPauses
