\* A PAT is rejected after its successor was saved.
CONSTANTS
    p1 = p1
    p2 = p2
    a1 = a1
    a2 = a2
    Users = {u1, u2}
    Accounts = {a1, a2}
    Pats = {p1, p2}
    AccountOf <- PatAccounts
    ConnIds = {1, 2}
    CredIds = {1, 2}
    None = None
    Requests = {r}
    Syncs = {s}
SPECIFICATION Spec
CONSTRAINT Bounds
PROPERTY OnlyRejectedInvalidated
