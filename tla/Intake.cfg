\* Two watched roots with one file each, and two destinations.
CONSTANTS
    f1 = f1
    f2 = f2
    f3 = f3
    a = a
    b = b
    pdf = pdf
    File = {f1, f2, f3}
    StartFiles <- MCStartFiles
    WatchedRoots <- MCRoots
    RootOf <- MCRootOf
    Partial = {f3}
    Choice <- MCChoice
    NoChoice = NoChoice
    NoFile = NoFile
    Settle = 1
    Period = 2
    MAX_PROPOSALS = 1
    MAX_ACTIVE = 2
    MAX_WALK_FILES = 2
    MaxIdentity = 4
    MaxEvents = 2
    RootId = {a, b}
    NoRoot = NoRoot
    Deadline = 1
    MAX_RULES = 2
    None = None
    Lower <- MCLower
    Glob <- MCGlob
    ValidValue <- MCValid
    SafeDirectory = {"."}
    Directory = {"."}
    Extension <- MCExtension
    Mime <- MCMime
    SourceDir <- MCSourceDir
    Priority = {2}
    StartRules <- MCStartRules
SPECIFICATION Spec
INVARIANTS IntakeTypeOK QueueBounded RulesUsable BoundedUnlessPipeHeld
PROPERTIES DecisionExplained ClassifyReturns ProposedAfterSettling SettledFileProposed FullQueuePauses
