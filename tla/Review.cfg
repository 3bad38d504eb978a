SPECIFICATION Spec
CONSTANTS
    None = None
    Rows <- MCRows
    Fact <- MCFact
    Base = "HKD"
    Rate <- MCRate
    Window = 2
    Tolerance = 10
    Balance <- MCBalance
    ManualRules <- MCManualRules
    Memory = TRUE
    Spending <- MCSpending
    Generic <- MCGeneric
    Drawers <- MCDrawers
    Versions <- MCVersions
    Faulty = {"p4"}
    Decisions <- MCDecisions
    FilePatches <- MCFilePatches
    MaxChoices = 3
INVARIANTS
    ShownIsRederived
    PairsForced
    ChoicesShown
    BalanceOfWholeStatement
PROPERTIES
    SavesStayLocal
CHECK_DEADLOCK FALSE
