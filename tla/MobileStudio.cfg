SPECIFICATION FairSpec
CONSTANTS
    Routes = {a}
    NoRoute = NoRoute
    Names = {n, m}
    NoName = NoName
    NoKey = NoKey
    NoFile = NoFile
    MaxOps = 2
    MaxKeys = 2
    MaxFailures = 1
INVARIANTS
    KeyNamesOneBody
    RetryKeepsRequestId
    RestartBringsBack
    RetryIsPossible
PROPERTIES
    ConfirmedIsSent
    PublishedIsStored
    PublicationEnds
