SPECIFICATION Spec

CONSTANTS
    c1 = c1
    c2 = c2
    a1 = a1
    p1 = p1
    p2 = p2
    k1 = k1
    k2 = k2
    t1 = t1
    t2 = t2
    None = None
    Requests = {r1, r2, r3, r4}
    Codes = {c1, c2}
    Accounts = {a1}
    Phones = {p1, p2}
    Profiles = {k1, k2}
    Templates = {t1, t2}
    Bodies <- MCBodies
    MaxCrashes = 1

INVARIANTS
    TypeOK
    RegistryIsWhole
    AnswersAreTrue

PROPERTIES
    OnlyOwnersWrite
    RequestsAreAtomic

SYMMETRY MCSymmetry
CHECK_DEADLOCK FALSE
