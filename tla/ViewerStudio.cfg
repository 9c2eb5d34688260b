SPECIFICATION FairSpec
CONSTANTS
    Drawings = {a}
    Few = Few
    Trims = {t}
    Full = Full
    NoDraft = NoDraft
    NoTimer = NoTimer
    NoKey = NoKey
    Nothing = Nothing
    MaxRevision = 2
    MaxReady = 6
    MaxRoutings = 2
    MaxKeys = 2
    MaxReloads = 1
INVARIANTS
    ConfirmationIsCurrent
    PublishedDraftIsStored
    ListIsSound
PROPERTIES
    LateRoutingKeepsDraft
    RoutingComesToAnEnd
CHECK_DEADLOCK FALSE
