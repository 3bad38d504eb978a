SPECIFICATION Spec
CONSTANTS
    Periods <- MCPeriods
    InputFiles <- MCFiles
    InputValues = {0, 1}
    Corrections = "corrections"
    Facts <- MCFacts
    NoFacts = "nothing"
    View <- MCView
    Contents <- MCContents
    Empty = "empty"
    UserBytes = {Scribble}
    Absent = Absent
    None = None
INVARIANTS
    ViewsInStep
    ReviewStands
PROPERTIES
    WritesExactly
