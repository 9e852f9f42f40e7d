SPECIFICATION Spec
CONSTANTS
    r1 = r1
    r2 = r2
    a = a
    b = b
    none = none
    Runners <- MCRunners
    Ids <- MCIds
    Versions <- MCVersions
    Checksum <- MCChecksum
    NoFile <- none
    Directories <- MCDirectories
    NonTransactional <- MCNonTransactional
    DownNonTransactional <- MCDownNonTransactional
    HasDown <- MCHasDown
    Commands <- SafetyCommands
    NoLock = NoLock
    Backend = Backend
SYMMETRY RunnerSymmetry
INVARIANTS
    OneSession
    LedgerIsTruthful
    DoubtIsNewest
    OutcomeIsHonest
PROPERTY
    ImplementsHistory
