SPECIFICATION Spec
CONSTANTS
    u1 = u1  u2 = u2  o1 = o1  i1 = i1  i2 = i2  q1 = q1  q2 = q2
    Users = {u1, u2}
    Orgs = {o1}
    Invites = {i1, i2}
    Requests = {q1, q2}
    InviteUser <- ToSecond
    InviteOrg <- ToHome
    Allowlisted = {u1}
    None = None
    MaxCalls = 3
    MaxBuilds = 5
    MaxVersion = 2
    MaxRefreshes = 1
    MaxFaults = 1
SYMMETRY Interchangeable
INVARIANTS OneBootstrapAdmin OneMembership DefaultRoleResolves WaitsEnd
CHECK_DEADLOCK FALSE
