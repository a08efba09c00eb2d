SPECIFICATION PlanningSpec
CONSTANTS
    r1 = r1
    r2 = r2
    u1 = u1
    u2 = u2
    g1 = g1
    g2 = g2
    g3 = g3
    f1 = f1
    f2 = f2
    f3 = f3
    alias = alias
    Here = Here
    None = None
    Nil = Nil
    DefaultCity = "istanbul"
    MaxAttempts = 4
    MaxTurns = 4
    MaxStale = 1
    Radius = 3
    Hints <- MCHints
    Requests <- MCRequests
    Workloads <- MCWorkloads
    Catalog <- MCCatalog
    Known <- MCKnown
    Aliases <- MCAliases
    Results <- MCResults
    Where <- MCWhere
    Replies <- MCReplies
    CitiesIn <- MCCitiesIn
    Mentions <- MCMentions
INVARIANTS PlanningTypeOK PlansAreGrounded PlansFollowTheirRoute AssistantIsBounded
CHECK_DEADLOCK FALSE
