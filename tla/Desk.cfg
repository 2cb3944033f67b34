\* Up to two proposals, of which only one fits into an answer.
CONSTANTS
    a = a
    b = b
    MaxId = 2
    Target = {a, b}
    NoTarget = NoTarget
    StartTarget = {a}
    Decision = {NoTarget}
    PAGE = 2
    FITS = 1
    MaxActs = 2
    MaxFaults = 1
SPECIFICATION Spec
INVARIANTS DeskTypeOK
PROPERTIES  ScanRecurs CallsEnd WidgetCatchesUp
