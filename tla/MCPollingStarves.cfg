SPECIFICATION FairSpec
CONSTANTS
    m1 = m1
    m2 = m2
    m3 = m3
    k1 = k1
    k2 = k2
    Messages = {m1, m2}
    NoKey = NoKey
    Null = Null
    Key <- MCKeyless
    Tag <- MCKeyless
    Unasked = {}
    Reports <- MCReportsFew
    NoReport = NoReport
    HasUrl = {m1, m2}
    Jobs = {j1}
    MaxAttempts = 2
    BatchSize = 1
    MaxCrashes = 0
PROPERTY PollingEnds
