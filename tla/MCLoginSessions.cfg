\* Two requests at a time over two sessions of one user; the margin is as long
\* as two requests and a check.
CONSTANTS
    u1 = u1
    s1 = s1
    s2 = s2
    r1 = r1
    r2 = r2
    None = None
    Users = {u1}
    Sessions = {s1, s2}
    Requests = {r1, r2}
    TTL = 1
    Margin = 3
    MaxCheck = 1
    MaxHold = 1
    MaxTime = 4
SPECIFICATION Spec
SYMMETRY MCSymmetry
CHECK_DEADLOCK FALSE
INVARIANTS
    LoggedOutForGood
    ChangerStaysSignedIn
    CutOffForGood
