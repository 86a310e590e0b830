SPECIFICATION Spec
CONSTANTS
    Clients = {ann, bob}
    OldClients = {}
    Capacity = 1
    EarlyWriteErrors = FALSE
    MaxUpdates = 0
INVARIANTS CapacityRespected
CHECK_DEADLOCK FALSE
