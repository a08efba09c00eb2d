SPECIFICATION BusSpec
CONSTANTS
    r1 = r1
    r2 = r2
    r3 = r3
    iam = iam
    tenant = tenant
    Requests <- MCRequests
    Topics <- MCTopics
    TopicOf <- MCTopicOf
    Handlers <- MCHandlers
    Buffer = 1
INVARIANTS BusTypeOK Conservation ExitDrains OnlyForcedShutdownFailsRequests
PROPERTIES ImplementsFeed ShutdownCompletes
CHECK_DEADLOCK FALSE
