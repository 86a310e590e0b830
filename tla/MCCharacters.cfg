SPECIFICATION FairSpec
CONSTANTS
    Me = Me
    Others = {ann}
    Channels = {0, 1}
    Models = {miku, rin}
    Related = {rin}
    NoModel = NoModel
    Substitute = Substitute
    Unknown = Unknown
    MaxChanges = 4
INVARIANTS CharactersSound ShownAsInstalled
PROPERTIES SceneFollowsAccounts
CHECK_DEADLOCK FALSE
