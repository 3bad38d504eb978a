\* The model: batches of two, two addresses.  The rates: pages of one row, two
\* changes of the table.  Deadlock is not checked: bounds are used up.
SPECIFICATION ServicesSpec
CONSTANTS
    Addresses = 2
    MaxRedirects = 1
    ServerCloses <- MCKeepsOpen
    Unresolved = 4
    Corrected <- MCCorrected
    Plain <- MCPlain
    BatchSize = 2
    MaxItems = 3
    Days <- MCDays
    Rates <- MCRates
    First = 1
    Last = 3
    PageSize = 1
    Withdraws = FALSE
    Documents <- MCDocuments
    AtFirst <- MCAtFirst
    MaxChanges = 2
    MaxAge = 2
    Dated <- MCDated
    Fixed = FALSE
    MaxCommands = 2
INVARIANTS
    SentOnce
    ReportAgrees
    CacheValid
PROPERTIES
    DecidedOnce
    Finishes
    OnlyImproves
    FetchAnswers
CHECK_DEADLOCK FALSE
