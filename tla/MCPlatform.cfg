CONSTANTS
    Tickets = {"t1", "t2", "t3"}
    AutoTickets = {"t2", "t3"}
    Edits = {"e1", "e2"}
    Runs = {"m1", "m2"}
    Failures = {"f1"}
    Parties <- MCParties
    Makers = {"p1", "p2", "p3"}
    HubDeletions = {"d1", "d2"}
    UserDeletions = {"u1"}
    SubdomainOf <- MCSubdomainOf
    Ticketed = {"p1"}
    Outages = {"o1"}
    Gangs <- MCGangs
    Views = {"v1", "v2"}
    Homes <- MCHomes
    MaxChanges = 1
    Appends = {"a1", "a2", "a3"}
    EventTypes = {"connected", "security_anomaly"}
    MaxBreaks = 1
    RetryAfters = {0, 7, 30, 31}
    MaxLate = 1
SPECIFICATION Spec
INVARIANTS
    TypesOK
    TrailAddsUp
    OneNewAlert
    HubResourcesKept
    HubHasSession
    WaitersAreServed
    BlameHasReason
    ChainLinked
    SendWithinBudget
PROPERTIES
    AlertsCleared
    SilenceRaisesAlert
CHECK_DEADLOCK FALSE
