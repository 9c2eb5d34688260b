SPECIFICATION Spec
CONSTANTS
    Requests = {r1, r2, r3}
    Keys = {k}
    NoKey = NoKey
    Bodies = {b, w}
    WideBodies = {w}
    NoHash = NoHash
    Seed = Seed
    Minute = 2
    Ttl = 4
    ListLimit = 2
    MaxStall = 1
    MaxClock = 5
INVARIANTS
    KeyPublishesOnce
    AnswerMatchesBody
    OnlyFaultsFail
    NothingOutlivesItsTtl
    PublicationsAreListed
SYMMETRY RequestSymmetry
CHECK_DEADLOCK FALSE
