SPECIFICATION FairSpec
CONSTANTS
    Newest = 1
    Setups <- MCSetups
INVARIANTS
    TypeOK
    RequestsAreOwned
    PackageIsVerified
    NextCheckIsDue
PROPERTIES
    DownloadsEnd
