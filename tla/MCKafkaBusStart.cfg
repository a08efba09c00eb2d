SPECIFICATION KafkaSpec
CONSTANTS
    t1 = t1
    p1 = p1
    p2 = p2
    h1 = h1
    h2 = h2
    None = None
    Topics <- MCTopics
    Partitions <- MCPartitions
    TopicOf <- MCTopicOf
    Handlers <- MCHandlers
    Orders <- MCMain
    MaxLen = 2
    MaxCrashes = 1
    MaxRebalances = 1
PROPERTY SubscribersAreServed
CHECK_DEADLOCK FALSE
