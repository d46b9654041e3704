CONSTANTS
    Intervals <- MCIntervals
    Addresses <- MCAddresses
    Versions <- MCVersions
    Default <- MCDefault
    Fetched = "latest"
    Deployed <- MCDeployed
    Patient = TRUE
    MaxChanges = 1
    MaxSwaps = 1
    MaxKills = 1
SPECIFICATION FairSpec
INVARIANTS
    NeverFetches
    VersionIsTrue
PROPERTIES
    ComesUp
