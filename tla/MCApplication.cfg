CONSTANTS
    Threads <- MCThreads
    MaxText = 2
    LineLengths = {1, 2}
    QueueLength = 1
    Publishes = 1
SPECIFICATION FairSpec
INVARIANTS
    TypeOK
    ModuleIsSerialised
    CloudFindsItsServices
    PoolsResetOnlyIdle
    TextIsTakenAsText
    StoredTextIsWhole
PROPERTIES
    ThreadsComeBack
\* An assertion that fails stops the board.
CHECK_DEADLOCK FALSE
