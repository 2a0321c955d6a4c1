SPECIFICATION Spec

CONSTANTS
    r1 = r1
    r2 = r2
    r3 = r3
    c1 = c1
    k1 = k1
    k2 = k2
    NoKey = NoKey
    NoReport = NoReport
    Requests = {r1, r2, r3}
    Clients = {c1}
    Keys = {k1, k2}
    Service <- MCService
    Reply <- MCReply
    Codes <- MCCodes
    NoCode <- MCNoCode
    Bodies <- MCBodies
    Tag <- MCTag
    Unasked = {}
    Reports <- MCReports
    HasUrl = {r1, r3}
    Jobs = {j1}
    MaxAttempts = 1
    BatchSize = 1
    MaxServerCrashes = 1
    MaxSchedulerCrashes = 1

INVARIANTS
    SingleWriter
    ToldIsTaken
    AnswersStayTrue
    DatabaseAgrees

PROPERTIES
    ServerImplementsSendDispatch
    SchedulerImplementsResultPolling
    ImplementsLifecycle
