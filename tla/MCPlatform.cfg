SPECIFICATION PlatformSpec
CONSTANTS
    r1 = r1
    r2 = r2
    r3 = r3
    u1 = u1
    u2 = u2
    o1 = o1
    o2 = o2
    a1 = a1
    a2 = a2
    w1 = w1
    w2 = w2
    e1 = e1
    e2 = e2
    d1 = d1
    k1 = k1
    p1 = p1
    p2 = p2
    None = None
    Nil = Nil
    Requests <- MCRequests
    Users <- MCUsers
    Workloads <- MCWorkloads
    RolePerms <- MCRolePerms
    Orgs0 <- MCOrgs0
    Apps0 <- MCApps0
    Workspaces0 <- MCWorkspaces0
    Keys0 <- MCKeys0
    Endpoints0 <- MCEndpoints0
    Policies0 <- MCPolicies0
    Records0 <- MCRecords0
    Roles0 <- MCRoles0
    LLMLimit = 2
    MaxWindows = 1
INVARIANTS PlatformTypeOK AccessIsGranted LimitIsPerWindow SlugsNameOneRow
PROPERTIES  AssignmentTakesEffect
CHECK_DEADLOCK FALSE
