SPECIFICATION LiveSpec
CONSTANTS
    Requests = {p, q, c, n, o}
    PublishCall = p
    ReplayCall = q
    ConflictCall = c
    NearbyCall = n
    Keys = {k, j}
    VerifierKey = k
    NoKey = NoKey
    Bodies = {route, probe, long, flat, named, heavy}
    Route = route
    Probe = probe
    Heavy = heavy
    LongBodies = {long}
    FlatBodies = {flat}
    WideNames = {named}
    WideBodies = {}
    Bytes <- MCBytes
    MaxResponseBytes = 2
    NoHash = NoHash
    Seed = Seed
    Families = {v4, v6}
    Addresses = {public, private}
    PublicAddresses = {public}
    Minute = 1
    Ttl = 3
    ListLimit = 2
    MaxStall = 1
    MaxClock = 1
INVARIANTS
    PassMeansListed
    LeavesAtMostItsRoute
    HealthyApiPasses
PROPERTIES
    VerifierEnds
CHECK_DEADLOCK FALSE
