SPECIFICATION Spec
CONSTANTS
    Points = {a, b}
    Names = {}
    NoName = NoName
    NoLeg = NoLeg
    Hole = Hole
    NoSelection = NoSelection
    LegMetres = 2
    HistoryLimit = 1
    TrimMarks = {}
    MaxPoints = 4
    MaxRevision = 5
INVARIANTS
    IdsAreUnique
    NoLegHoles
PROPERTIES
    EditsInvalidateStaleLegs
CHECK_DEADLOCK FALSE
