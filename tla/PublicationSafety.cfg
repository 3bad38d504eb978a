\* Every fault the code can meet, up to three of them, over two generations.
SPECIFICATION Spec
CONSTANTS
    Files <- MCFiles
    Index = Index
    Attempts <- MCAttempts
    Dirs <- MCDirs
    Above <- MCAbove
    ViewDirs <- MCViewDirs
    Bytes <- MCBytes
    Absent = Absent
    Plans <- MCPlans
    FaultKinds = {"command_stop", "command_error", "doctor_stop",
                  "doctor_error", "torn_report", "external_edit"}
    MaxFaults = 3
    MaxGenerations = 2
INVARIANTS
    ReportsTellTheTruth
    OwnerServesWinner
    RefusesOnlyOnEvidence
PROPERTIES
    NoForeignBytesLost
    ImplementsGeneration
