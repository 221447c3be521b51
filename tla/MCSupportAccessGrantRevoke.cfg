\* A grant and a revoke at the same time.
CONSTANTS
    s1 = s1
    s2 = s2
    u1 = u1
    u2 = u2
    r1 = r1
    r2 = r2
    e1 = e1
    c1 = c1
    None = None
    Sessions = {s1, s2}
    Staff = {u1, u2}
    Requests = {r1, r2}
    Events = {}
    Cron = {}
    MaxFaults = 0
SPECIFICATION Spec
INVARIANT EnabledMeansGranted
