SPECIFICATION ScreensSpec
CONSTANTS
    Channels = {0, 1}
    WarpTargets = {1, 2}
    Windows = {"radar", "bgmlist"}
    NativeWindows = {"radar"}
    Items = {"gamepad_sshot"}
    StartFrames = 1
    FadeFrames = 1
    CloseFrames = 2
    MaxLoops = 2
    Chars = {"a"}
    NL = "nl"
    MaxText = 2
    MaxKept = 2
    LineLimit = 2
    TabCount = 1
    ClickFrames = 1
    Boards = {"bgmlist"}
    Radars = {"radar"}
    DockedAt <- MCDock
    Size = 1
    MinSize = 1
    MaxSize = 2
    Screen = 2
    Corner = 0
    Close = 0
    Margin = 1
    Labels <- MCLabels
    LabelWidth = 2
    LineHeight = 2
    ViewHeight = 5
    MinBar = 2
    WheelStep = 2
    MaxItems = 2
    Window = "window"
    Panels = {"window", "board"}
    Groups = {"group"}
    Leaves = {"label", "button"}
    Captions = {"label"}
    TextWidth = 17
    ScreenWidth = 90
    Dockings = {{"left"}, {"right"}, {"left", "right"}}
    Margins <- MCMargins
    Width = 40
    Built <- MCBuilt
    Moves = {5}
    Widths = {0}
    MaxChanges = 3
INVARIANTS ScenesSound WindowsKept DockedKept
PROPERTIES ScenesGoOn TypingKept ListKept
CHECK_DEADLOCK FALSE
