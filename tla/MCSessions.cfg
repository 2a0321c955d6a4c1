SPECIFICATION Spec

CONSTANTS
    Requests = {r1, r2, r3, r4}
    Browsers = {b1}
    Users = {u1}
    None = None
    MaxCrashes = 1

INVARIANTS
    TypeOK
    RotationsAreTrue
    NothingForTheDead
    AnswersAreTrue
    LoginIsWhole

PROPERTIES
    TokenLife
    RotationsAreAtomic

SYMMETRY MCSymmetry
CHECK_DEADLOCK FALSE
