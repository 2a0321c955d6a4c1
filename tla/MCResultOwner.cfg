SPECIFICATION Spec
CONSTANTS
    m1 = m1
    m2 = m2
    m3 = m3
    k1 = k1
    k2 = k2
    Messages = {m1, m2}
    NoKey = NoKey
    Null = Null
    Key <- MCKeys
    Tag <- MCTagsCross
    Unasked = {}
    Reports <- MCReportsFew
    NoReport = NoReport
    HasUrl = {m1, m2}
    Jobs = {j1}
    MaxAttempts = 2
    BatchSize = 2
    MaxCrashes = 0
INVARIANT ResultIsOwn
