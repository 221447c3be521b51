\* Two connections and a logout.
CONSTANTS
    u1 = u1
    s1 = s1
    s2 = s2
    k1 = k1
    k2 = k2
    k3 = k3
    l1 = l1
    l2 = l2
    None = None
    Users = {u1}
    Sessions = {s1, s2}
    UserOf <- MCUserOf
    Sockets = {k1, k2}
    Logouts = {l1}
SPECIFICATION Spec
CHECK_DEADLOCK FALSE
INVARIANT SocketsEndWithSession
