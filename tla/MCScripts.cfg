SPECIFICATION ScriptsSpec
CONSTANTS
    Calls = {"main", "handler", "callback"}
    Arguments = {"own", "undefined"}
    Delays = {TRUE, FALSE}
    Closing = TRUE
    MaxId = 2
    MaxBlocks = 2
    Cards <- MCCards
    Rebuilders = {"textchat"}
    Listeners = {"modellist"}
    Starters <- MCStarters
    MaxEvents = 1
    SlLog2 = 1
    FlCount = 5
    Base = 3
    Total = 23
    Requests = {0, 3, 5, 9, 40}
    Aligns = {2}
    Allocators = {"main"}
    Models = {"a", "b", "broken"}
    Folders = {"new", "kept"}
    Kept = "kept"
    FolderOf <- MCFolderOf
    HomeOf <- MCHomeOf
    Carried <- MCCarried
    HeightOf <- MCHeightOf
    Readable = {"a", "b"}
    MaxStops = 1
    Pieces = {"a", "b"}
    Broken = {}
    FadeFrames = 2
    MaxCalls = 3
    Fields = {"name", "trip"}
    Texts = {"???", "a"}
    Options = {"nametag", "walk"}
    Settings = {0, 1}
    DefaultText = "???"
    DefaultSetting <- MCDefault
    KeyPairs <- MCKeyPairs
    Missing = Missing
    MaxStarts = 3
INVARIANTS TimersSound HeapSound
PROPERTIES TimersKeepWord DueRuns PluginsKept ModelsComeHome MusicComesBack ProfileKept
CHECK_DEADLOCK FALSE
