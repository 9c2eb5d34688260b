SPECIFICATION Spec
CONSTANTS
    Routes = {a}
    NoRoute = NoRoute
    Names = {n, m}
    NoName = NoName
    NoKey = NoKey
    NoFile = NoFile
    MaxOps = 2
    MaxKeys = 2
    MaxFailures = 1
INVARIANTS
    FailedKeepsRequestId
