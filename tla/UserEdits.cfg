\* Two commands, and a doctor that looks at the lock at any time; three batches
\* of imports.  Deadlock is not checked: every process ends.
SPECIFICATION UserSpec
CONSTANTS
    c1 = c1
    c2 = c2
    b1 = b1
    b2 = b2
    q1 = q1
    q2 = q2
    pr = pr
    a1 = a1
    a2 = a2
    m1 = m1
    m2 = m2
    Commands = {c1, c2}
    Doctors = {d1}
    NoFile = NoFile
    Patterns = {q1, q2}
    BindingIds = {b1, b2}
    Profiles = {pr}
    Accounts = {a1, a2}
    None = None
    Models = {m1, m2}
    Requests <- MCRequests
    Workspaces <- MCWorkspaces
    bank = bank
    card = card
    wallet = wallet
    row1 = row1
    row2 = row2
    row3 = row3
    cafe = cafe
    food = food
    Sources = {bank, card, wallet}
    Records = {row1, row2, row3}
    Contents <- MCContents
    Patches = {cafe, food}
    MaxImports = 3
SYMMETRY UserSymmetry
INVARIANTS
    MutualExclusion
    RetriesAnswered
    ManifestAgrees
    ShownAsDecided
PROPERTIES
    LiveLockKept
    EditsCompose
    ChoicesKept
CHECK_DEADLOCK FALSE
