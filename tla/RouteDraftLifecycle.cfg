SPECIFICATION Spec
CONSTANTS
    Points = {a, b}
    Names = {n}
    NoName = NoName
    NoLeg = NoLeg
    Hole = Hole
    NoSelection = NoSelection
    LegMetres = 2
    HistoryLimit = 2
    TrimMarks = {1, 3}
    MaxPoints = 2
    MaxRevision = 6
INVARIANTS
    RevisionsNameVersions
    PublishedRouteIsWhole
    SelectionWithinRoute
PROPERTIES
    ImplementsEditHistory
CHECK_DEADLOCK FALSE
