\* A send or its record may outlive the lease.
CONSTANTS
    d1 = d1
    d2 = d2
    n1 = n1
    n2 = n2
    urgent = urgent
    info = info
    None = None
    Notifications = {n1}
    Dispatchers = {d1, d2}
    Configured = {d1, d2}
    EventTypes = {urgent, info}
    Policy <- MCPolicy
    Lease = 1
    MaxHold = 3
    MaxPerTick = 1
    Retention = 3
    MaxFaults = 2
SPECIFICATION FairSpec
INVARIANTS
    SendsWithinPolicy
    NoFalseVerdict
PROPERTY EventuallySettled
