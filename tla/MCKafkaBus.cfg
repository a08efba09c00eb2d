SPECIFICATION KafkaSpec
CONSTANTS
    t1 = t1
    p1 = p1
    p2 = p2
    h1 = h1
    h2 = h2
    None = None
    Topics <- MCTopics
    Partitions <- MCOnePartition
    TopicOf <- MCOneTopicOf
    Handlers <- MCHandlers
    Orders <- MCBoth
    MaxLen = 3
    MaxCrashes = 1
    MaxRebalances = 2
INVARIANTS KafkaTypeOK CommitsFollowHandling
PROPERTIES ClosedIsQuiet SettledIsNotHandledAgain EveryMessageIsTried
CHECK_DEADLOCK FALSE
