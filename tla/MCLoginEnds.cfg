SPECIFICATION FairSpec
CONSTANTS
    Clients = {ann, bob}
    OldClients = {bob}
    Capacity = 1
    EarlyWriteErrors = FALSE
    MaxUpdates = 1
PROPERTIES LoginEnds
CHECK_DEADLOCK FALSE
