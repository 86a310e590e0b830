SPECIFICATION Spec
CONSTANTS
    Clients = {ann, bob}
    OldClients = {}
    Capacity = 1
    EarlyWriteErrors = FALSE
    MaxUpdates = 1
INVARIANTS LoginSound
CHECK_DEADLOCK FALSE
