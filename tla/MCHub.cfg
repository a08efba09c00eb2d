SPECIFICATION Spec
CONSTANTS
    c1 = c1
    c2 = c2
    a1 = a1
    a2 = a2
    o1 = o1
    Conns <- MCConns
    Apps <- MCApps
    AppOf <- MCAppOf
    Orgs <- MCOrgs
    OrgOf <- MCOrgOf
    Channels = {"events", "iam"}
    DefaultChannel = "events"
    MaxConnections = 1
    SendBuffer = 2
    MaxBroadcasts = 2
    MaxCommands = 1
INVARIANTS TypeOK NoDoubleClose RegisteredIsOpen CapacityRespected MembershipAgrees EventsInOrder
    PanicOnlyFromStaleMember
CHECK_DEADLOCK FALSE
