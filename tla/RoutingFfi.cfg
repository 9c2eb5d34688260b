SPECIFICATION Spec
CONSTANTS
    Threads = {t1, t2}
    Packs = {p1, p2}
    Slots = {s1, s2}
    Addresses = {a1, a2}
    MaxControls = 2
    MaxHandle = 3
    MaxToken = 3
    Idle = Idle
    Empty = Empty
SYMMETRY Symmetry
INVARIANTS
    HandlesNameOnePack
    OwnedBuffersStay
    HeapIsAccounted
