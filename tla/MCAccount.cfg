SPECIFICATION FairSpec
CONSTANTS
    DefaultName = unnamed
    hello = hello
    trip1 = trip1
    Text = {unnamed, hello}
    BadText = BadText
    EmptyText = EmptyText
    NoValue = NoValue
    Channels = {0, 1}
    Addresses = {addr}
    Keys = {key}
    Trips = {trip1}
    GetTrip <- MCGetTrip
    MaxUsers = 2
    MaxRevision = 5
    MaxCopies = 1
INVARIANTS AccountsSound PatchComplete
PROPERTIES IdNeverReused LostUserErased
CHECK_DEADLOCK FALSE
