\* One request of the web application and one synchronisation at a time, two
\* users with one connection each.
CONSTANTS
    p1 = p1
    p2 = p2
    a1 = a1
    a2 = a2
    Users = {u1, u2}
    Accounts = {a1, a2}
    Pats = {p1, p2}
    AccountOf <- PatAccounts
    ConnIds = {1, 2}
    CredIds = {1, 2}
    None = None
    Requests = {r}
    Syncs = {s}
SPECIFICATION Spec
SYMMETRY Symmetry
CONSTRAINT Bounds
INVARIANT TablesAgree
INVARIANT GoodCandidateFound
PROPERTY EndedCredentialsAreFinal
