SPECIFICATION Spec
CONSTANTS
    c1 = c1
    c2 = c2
    a1 = a1
    a2 = a2
    o1 = o1
    Conns <- MCConns
    Apps <- MCOneApp
    AppOf <- MCSameApp
    Orgs <- MCOrgs
    OrgOf <- MCOneOrgOf
    Channels = {"events"}
    DefaultChannel = "events"
    MaxConnections = 2
    SendBuffer = 1
    MaxBroadcasts = 1
    MaxCommands = 0
INVARIANT BroadcastDoesNotPanic
CHECK_DEADLOCK FALSE
