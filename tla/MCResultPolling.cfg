SPECIFICATION Spec
CONSTANTS
    m1 = m1
    m2 = m2
    m3 = m3
    k1 = k1
    k2 = k2
    Messages = {m1, m2}
    NoKey = NoKey
    Null = Null
    Key <- MCKeys
    Tag <- MCKeys
    Unasked = {m2}
    Reports <- MCReports
    NoReport = NoReport
    HasUrl = {m1, m2}
    Jobs = {j1, j2}
    MaxAttempts = 4
    BatchSize = 2
    MaxCrashes = 1
INVARIANTS
    TypeOK
    PollingAgrees
    BatchIsFresh
    OneWebhook
    WebhookIsTrue
PROPERTIES
    FinalIsFinal
    JobRunsDown
SYMMETRY MCSymmetry
