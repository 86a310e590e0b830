SPECIFICATION FairReplicationSpec
CONSTANTS
    DefaultName = unnamed
    hello = hello
    trip1 = trip1
    Text = {unnamed, hello}
    BadText = BadText
    EmptyText = EmptyText
    NoValue = NoValue
    Channels = {0}
    Addresses = {addr}
    Keys = {key}
    Trips = {trip1}
    GetTrip <- MCGetTrip
    MaxUsers = 1
    MaxRevision = 6
    MaxCopies = 0
    Watchers = {w}
    MaxPending = 2
    TheWatcher = w
    TheUser = 1
INVARIANTS PlayersSound
PROPERTIES PlayersAreSnapshots Converges
CHECK_DEADLOCK FALSE
