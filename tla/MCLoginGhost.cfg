SPECIFICATION FairSpec
CONSTANTS
    Clients = {ann}
    OldClients = {}
    Capacity = 1
    EarlyWriteErrors = TRUE
    MaxUpdates = 0
PROPERTIES LogoutSeen
CHECK_DEADLOCK FALSE
