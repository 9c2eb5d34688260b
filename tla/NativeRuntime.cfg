SPECIFICATION Spec
CONSTANTS
    MaxMounts = 4
    Nobody = Nobody
INVARIANTS
    NothingLeaks
    SoleBootIsServed
CHECK_DEADLOCK FALSE
