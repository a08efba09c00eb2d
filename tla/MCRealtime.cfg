SPECIFICATION RealtimeSpec
CONSTANTS
    r1 = r1
    r2 = r2
    c1 = c1
    a1 = a1
    a2 = a2
    o1 = o1
    tenant = tenant
    api = api
    Requests <- MCRequests
    Topics <- MCTopics
    TopicOf <- MCTopicOf
    Handlers <- MCHandlers
    Buffer = 1
    Conns <- MCConns
    Apps <- MCApps
    Orgs <- MCOrgs
    OrgOf <- MCOrgOf
    AppOf <- MCAppOf
    Channels = {"events", "tenant", "api"}
    DefaultChannel = "events"
    MaxConnections = 1
    SendBuffer = 1
    MaxBroadcasts = 4
    MaxCommands = 1
    Scope <- MCScope
    EventOrg <- MCEventOrg
    EventApp <- MCEventAppOther
    TopicChannel <- MCTopicChannel
    DatabaseFails = TRUE
INVARIANTS RealtimeTypeOK TenantIsolation BroadcastsFollowTheBus
CHECK_DEADLOCK FALSE
