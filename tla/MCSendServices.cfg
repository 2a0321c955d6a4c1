SPECIFICATION FairSpec
CONSTANTS
    r1 = r1
    r2 = r2
    r3 = r3
    c1 = c1
    c2 = c2
    k1 = k1
    Requests = {r1, r2}
    Clients = {c1}
    Keys = {k1}
    NoKey = NoKey
    Service <- MCServiceAll
    Reply <- MCReplyAll
    Codes <- MCCodesAll
    NoCode <- MCNoCode
    MaxCrashes = 0
INVARIANTS
    OutcomeIsTrue
    TablesAgree
PROPERTIES
    EveryRequestEnds
CHECK_DEADLOCK FALSE
