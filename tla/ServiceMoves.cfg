\* One proposal, moved within d1 or copied to d2; other programs act only while
\* the daemon waits or is down.
CONSTANTS
    d1 = d1
    d2 = d2
    n1 = n1
    n2 = n2
    n3 = n3
    s1 = s1
    s2 = s2
    Dir = {d1, d2}
    Name = {n1, n2, s1}
    NoPath = NoPath
    NoDir = NoDir
    NoName = NoName
    MaxVersion = 2
    MaxIno = 3
    MaxId = 1
    MAX_ACTIVE = 1
    NONTERMINAL_LIMIT = 1
    MAX_TERMINAL_JOURNAL = 1
    MAX_JOURNAL_AGE = 0
    MaxRevision = 9
    MaxClock = 1
    Fold <- MCFold
    DeviceOf <- MCDeviceOf
    MaxRootId = 2
    StartRoots <- MCTwoRoots
    StartFiles <- MCOneFile
    Partial = {}
    Lossy <- MCLossy
    StageName <- MCStageName
    MAX_ROOTS = 2
    MAX_PROPOSALS = 1
    MAX_TERMINAL_PROPOSALS = 1
    Interference = FALSE
    MaxEdits = 1
    MaxUserSteps = 1
    MaxFaults = 2
SPECIFICATION Spec
INVARIANTS TypeOK QueueNeverAhead
PROPERTIES LastCopyKept CompletedMeansMoved UndoRestores
