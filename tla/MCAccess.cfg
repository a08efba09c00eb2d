SPECIFICATION AccessSpec
CONSTANTS
    r1 = r1
    r2 = r2
    r3 = r3
    h1 = h1
    h2 = h2
    l1 = l1
    ann = ann
    Ann = Ann
    bob = bob
    cem = cem
    None = None
    Requests <- MCRequests
    Handshakes <- MCHandshakes
    Links <- MCLinks
    Emails <- MCEmails
    Lower <- MCLower
    Registered <- MCRegistered
    Inactive <- MCInactive
    RequireHandshake = FALSE
    HandshakeTTL = 1
    LinkTTL = 1
    UserTTL = 2
    BlendedTTL = 2
    MaxTime = 2
SYMMETRY MCSymmetry
INVARIANTS AccessTypeOK OneSessionPerHandshake OneAccountPerAddress OneLoginPerLink SessionsStartWithLogin
PROPERTIES BindingsAreFinal LinksAreSpentOnce
CHECK_DEADLOCK FALSE
