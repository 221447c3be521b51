\* An event of every type.
CONSTANTS
    Appends = {"a1", "a2"}
    EventTypes = {"granted", "connected", "activity_log", "security_anomaly", "revoked", "expired"}
    MaxBreaks = 0
SPECIFICATION LedgerSpec
INVARIANT ChainVerifies
CHECK_DEADLOCK FALSE
