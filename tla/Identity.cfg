\* Files: three places, two contents, two attempts per record.  Rows of one
\* statement: three records.  Attempt numbers run out, and so do record ids.
SPECIFICATION IdentitySpec
CONSTANTS
    Places = {p1, p2, p3}
    Revisions = {r1, r2}
    Contracts = {c}
    MaxAttempts = 2
    None = None
    bytes1 = bytes1
    bytes2 = bytes2
    contract1 = contract1
    contract2 = contract2
    coffee = coffee
    rent = rent
    Locators = {1, 2, 3}
    Fingerprints = {coffee, rent}
    Statements <- MCStatements
    MaxRecords = 3
    NoStatement = NoStatement
INVARIANTS
    DurableFactsAgree
    PlanStands
    LedgerAgrees
    MatchesUniquely
PROPERTIES
    RecordsStand
    PublishesAtomically
    IdsStay
SYMMETRY Symmetry
CHECK_DEADLOCK FALSE
