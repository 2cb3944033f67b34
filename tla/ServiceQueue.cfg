\* Two files and two proposals that await review together, on one device.
CONSTANTS
    d1 = d1
    d2 = d2
    n1 = n1
    n2 = n2
    n3 = n3
    s1 = s1
    s2 = s2
    Dir = {d1, d2}
    Name = {n1, n2, s1, s2}
    NoPath = NoPath
    NoDir = NoDir
    NoName = NoName
    MaxVersion = 2
    MaxIno = 2
    MaxId = 2
    MAX_ACTIVE = 2
    NONTERMINAL_LIMIT = 2
    MAX_TERMINAL_JOURNAL = 1
    MAX_JOURNAL_AGE = 0
    MaxRevision = 8
    MaxClock = 0
    Fold <- MCFold
    DeviceOf <- MCSameDevice
    MaxRootId = 2
    StartRoots <- MCTwoRoots
    StartFiles <- MCTwoFiles
    Partial = {}
    Lossy <- MCLossy
    StageName <- MCStageName
    MAX_ROOTS = 2
    MAX_PROPOSALS = 2
    MAX_TERMINAL_PROPOSALS = 1
    Interference = FALSE
    MaxEdits = 0
    MaxUserSteps = 0
    MaxFaults = 1
SPECIFICATION Spec
INVARIANTS NoDuplicates SourcesResolve
PROPERTIES  StepsRunOut
