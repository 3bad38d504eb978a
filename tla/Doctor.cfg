SPECIFICATION FairSpec
CONSTANTS
    R1 = R1
    R2 = R2
    May = May
    Records = {R1, R2}
    Periods = {May}
    PeriodOf <- MCPeriodOf
    MaxFindings = 128
    Missing = Missing
    Damaged = Damaged
    Torn = Torn
    Newer = Newer
    None = None
    Edits <- MCEdits
    Harm <- MCHarm
    Loosened <- MCLoosened
    Replaced <- MCReplaced
    MaxEach = 2
    MaxAll = 5
INVARIANTS
    HealthyMeansSound
PROPERTIES
    RepairsAreProved
    HardDamageRefused
    
CHECK_DEADLOCK FALSE
