SPECIFICATION FairSpec
CONSTANTS
    r1 = r1
    r2 = r2
    a = a
    b = b
    none = none
    Runners <- MCRunners
    Ids <- MCOneId
    Versions <- MCVersions
    Checksum <- MCChecksum
    NoFile <- none
    Directories <- MCOneDirectory
    NonTransactional <- MCOne
    DownNonTransactional <- MCNone
    HasDown <- MCOne
    Commands <- CliCommands
    NoLock = NoLock
    Backend = Backend
PROPERTIES
    EveryCommandReports
    LockIsFreed
