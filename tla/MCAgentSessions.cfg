\* Two sockets, three requests and two readers, up to six of them at a time.
CONSTANTS
    k1 = k1
    k2 = k2
    a1 = a1
    a2 = a2
    a3 = a3
    r1 = r1
    r2 = r2
    t1 = t1
    m1 = m1
    None = None
    Sockets = {k1, k2}
    Admins = {a1, a2, a3}
    Readers = {r1, r2}
    Templates = {t1}
    Casts <- MCCasts
    Mishaps = {m1}
SPECIFICATION Spec
SYMMETRY MCSymmetry
CHECK_DEADLOCK FALSE
INVARIANTS
    TypeOK
    NewestIsMapped
    OnlyGhostsAreDead
    OldTokenOut
    ServerShowsAgent
    LinkReadOnce
    TemplatesOnRecord
