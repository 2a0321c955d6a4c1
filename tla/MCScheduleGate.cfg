SPECIFICATION Spec

CONSTANTS
    c1 = c1
    c2 = c2
    a1 = a1
    p1 = p1
    p2 = p2
    k1 = k1
    k2 = k2
    t1 = t1
    t2 = t2
    None = None
    Requests = {r1, r2, r3}
    Codes = {c1, c2}
    Accounts = {a1}
    Phones = {p1, p2}
    Profiles = {k1, k2}
    Templates = {t1, t2}
    Bodies <- MCScheduleBodies
    MaxCrashes = 0

PROPERTY ReservedTemplateIsApproved

CHECK_DEADLOCK FALSE
