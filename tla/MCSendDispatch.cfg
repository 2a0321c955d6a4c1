SPECIFICATION Spec
CONSTANTS
    r1 = r1
    r2 = r2
    r3 = r3
    c1 = c1
    c2 = c2
    k1 = k1
    Requests = {r1, r2, r3}
    Clients = {c1, c2}
    Keys = {k1}
    NoKey = NoKey
    Service <- MCServiceOne
    Reply <- MCReplyOne
    Codes <- MCCodesFew
    NoCode <- MCNoCode
    MaxCrashes = 1
INVARIANTS
    TypeOK
    OneDispatchPerKey
    NoUnrecordedDispatch
    OutcomeIsTrue
    TablesAgree
    DuplicateIsOwnMessage
    AnswerMatchesRow
PROPERTIES
    HistoryOnlyGrows
SYMMETRY MCSymmetry
CHECK_DEADLOCK FALSE
