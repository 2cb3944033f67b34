\* One proposal; a terminal edits it while its card is shown.
CONSTANTS
    a = a
    b = b
    MaxId = 1
    Target = {a, b}
    NoTarget = NoTarget
    StartTarget = {a}
    Decision = {NoTarget}
    PAGE = 2
    FITS = 1
    MaxActs = 2
    MaxFaults = 1
SPECIFICATION Spec
PROPERTIES RuleAsShown
