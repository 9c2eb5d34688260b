SPECIFICATION Spec
CONSTANTS
    CellSize = 4
    MaxTile = 2
    Chunk = 4
    Micro = 2
    Metre = 3
    None = None
    NoSelection = NoSelection
    Drafts <- MCDrafts
    ForeignBodies <- MCForeignBodies
    Boxes <- MCBoxes
    Places <- MCPlaces
    Lines <- MCLines
    Ticks = {1, 3, 4, 6, 8}
    Sydney <- MCSydney
    MaxSpan = 7
    MaxPoints = 6
    MaxPointsV1 = 5
    MaxControls = 3
    Elevations = {0, 1, 2, 3, 4, 5, 6, 7, 8}
INVARIANTS
    PreparedIsAccepted
    ControlsAreJoints
    ListedWhereItRuns
CHECK_DEADLOCK FALSE
