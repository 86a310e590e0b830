SPECIFICATION ChannelSpec
CONSTANTS
    RefreshSeconds = 4
    Limit1 = 2
    Limit2 = 4
    Sizes = {1, 3}
    PoliteRate = 1
    FloodRate = 9
    MaxBurst = 12
    MaxElapsed = 20
    ann = ann
    bob = bob
    Users = {ann, bob}
    Nobody = Nobody
    Rooms = {0, 1}
    Full = 1
    Lists <- MCLists
    Walks <- MCWalks
    Words <- MCWords
    Moves <- MCMoves
    Floor <- MCFloor
    Ceiling <- MCCeiling
    Starts = {0, 4}
    WarpAt = 4
    Destination = 1
    Tall = 3
    Reach = 1
    StepHigh = 1
    Depth = 4
    MinHeight <- MCMinHeight
    Deltas = {1, 2}
    Light = 1
    Gravity = 1
    Heavy = 1
    Jump = 2
    WalkSpeed = 1
    RunSpeed = 2
    AirSpeed = 1
    AirAcc = 1
    WalkChangeType = 1
    MinRadius = 4
    MaxRadius = 8
    StartRadius = 6
    MinFov = 2
    MaxFov = 6
    Notch = 2
    MaxWorlds = 2
    BasicMotions <- MCBasic
    Emotes <- MCEmotes
    Day = 16
    Sunrise = 4
    Sunset = 11
    Before = 3
    After = 1
    LongestGap = 5
    Ground <- MCGround
    Targets <- MCTargets
    HalfHeight = 1
    Beneath = 3
    Far = 4
    JumpSpeed = 2
    FastestFall = 4
    Commands <- MCCommands
    Types <- MCTypes
    CompressMin = 8
    Delimiter = 126
    Escape = 125
    MaxCommands = 2
INVARIANTS LimitsSound PoliteNeverLimited RelaySound CameraKept MotionsKept
PROPERTIES FloodEnds WordsArrive WalkSound SkyFitsTime Follows CommandsArrive
CHECK_DEADLOCK FALSE
