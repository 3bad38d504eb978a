\* Three things happen to a workspace whose report holds two findings.
SPECIFICATION Spec
CONSTANTS
    R1 = R1
    R2 = R2
    May = May
    Records = {R1, R2}
    Periods = {May}
    PeriodOf <- MCPeriodOf
    MaxFindings = 2
    Missing = Missing
    Damaged = Damaged
    Torn = Torn
    Newer = Newer
    None = None
    Edits <- MCEdits
    Harm <- MCHarm
    Loosened <- MCLoosened
    Replaced <- MCReplaced
    MaxEach = 3
    MaxAll = 4
PROPERTIES
    HardDamageRefused
CHECK_DEADLOCK FALSE
