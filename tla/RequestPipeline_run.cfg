SPECIFICATION FairSpec
CONSTANTS
    r1 = r1
    r2 = r2
    Requests = {r1, r2}
    Project = "p"
    Scenarios <- MCScenarios
    LowerCase <- MCLowerCase
    ResponseHeaders <- MCResponseHeaders
    ProcessedFiletypes = {"yml", "yaml"}
    BodyLimit = 2
    Connections = {r1, r2}
    Frames <- MCFrames
    MaxFrames <- MCMaxFrames
    QueueCapacity = 1
    FrameSizes = {1, 2}
    ResponseSizeLimit = {2}
    MaxResponse = 3
    UpstreamStatuses = {200, 503}
    GuardStatuses = {200, 401, 409, 1000}
    DslStatuses = {200, 201, 1000}
INVARIANTS ServedAsLaidOut UnguardedIsReported ContractsKept AnswersHold ProxySlotsConserved RegistryServes
PROPERTIES RequestAnswered GoneIsForgotten
CHECK_DEADLOCK FALSE
