\* Commands fail or are killed; doctor runs undisturbed.
SPECIFICATION FairSpec
CONSTANTS
    Files <- MCFiles
    Index = Index
    Attempts <- MCAttempts
    Dirs <- MCDirs
    Above <- MCAbove
    ViewDirs <- MCViewDirs
    Bytes <- MCBytes
    Absent = Absent
    Plans <- MCPlans
    FaultKinds = {"command_stop", "command_error"}
    MaxFaults = 2
    MaxGenerations = 2
INVARIANTS
    WinnerRecoverable
PROPERTIES
    EventuallyUsable
