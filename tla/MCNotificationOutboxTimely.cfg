\* Every claim is recorded within the lease.  One policy is enough here: the
\* properties do not compare rows of different priorities.
CONSTANTS
    d1 = d1
    d2 = d2
    n1 = n1
    n2 = n2
    urgent = urgent
    info = info
    None = None
    Notifications = {n1, n2}
    Dispatchers = {d1, d2}
    Configured = {d1, d2}
    EventTypes = {urgent}
    Policy <- MCPolicy
    Lease = 1
    MaxHold = 1
    MaxPerTick = 1
    Retention = 1
    MaxFaults = 1
SPECIFICATION Spec
INVARIANTS
    TypeOK
    ExclusiveClaim
    HistoryMatchesRow
    NoLostKick
PROPERTY PromiseKept
SYMMETRY MCSymmetry
