\* Two commands that publish something, and a doctor.
SPECIFICATION EditSpec
CONSTANTS
    c1 = c1
    c2 = c2
    b1 = b1
    b2 = b2
    q1 = q1
    q2 = q2
    pr = pr
    a1 = a1
    a2 = a2
    m1 = m1
    m2 = m2
    Commands = {c1, c2}
    Doctors = {d1}
    NoFile = NoFile
    Patterns = {q1, q2}
    BindingIds = {b1, b2}
    Profiles = {pr}
    Accounts = {a1, a2}
    None = None
    Models = {m1, m2}
    Requests = {}
    Workspaces <- MCWorkspaces
SYMMETRY Symmetric
INVARIANTS
    OnePublisher
CHECK_DEADLOCK FALSE
