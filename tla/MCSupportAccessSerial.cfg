\* One handler at a time, with a fault: the agent comes and goes.
CONSTANTS
    s1 = s1
    s2 = s2
    u1 = u1
    u2 = u2
    r1 = r1
    r2 = r2
    e1 = e1
    c1 = c1
    None = None
    Sessions = {s1, s2}
    Staff = {u1, u2}
    Requests = {r1}
    Events = {r1}
    Cron = {r1}
    MaxFaults = 1
SPECIFICATION Spec
INVARIANT AgentFollows
PROPERTY SessionKept
