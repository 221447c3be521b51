\* Two requests, an event of the agent, a run of the scheduler and a fault, as the casts say.
CONSTANTS
    s1 = s1
    s2 = s2
    u1 = u1
    u2 = u2
    r1 = r1
    r2 = r2
    e1 = e1
    c1 = c1
    m1 = m1
    None = None
    Sessions = {s1, s2}
    Staff = {u1, u2}
    Requests = {r1, r2}
    Events = {e1}
    Cron = {c1}
    MaxFaults = 1
    Mishaps = {m1}
    Casts <- MCCasts
SPECIFICATION MCSpec
INVARIANTS
    TypeOK
    LatecomerRejected
    OneEmployee
    AgentKnowsSession
    FlagsAgree
    NoEarlyExpiry
PROPERTY AccessEnds
