CONSTANTS
    Tasks = {cloud, other}
    None = None
    Owners = {cloud}
    Sensing = {cloud}
    NumBrokers = 1
    NumBuffers = 2
    MaxId = 3
    QueueLength = 1
    ParallelOps = 2
    MaxPieces = 2
SPECIFICATION FairSpec
INVARIANTS
    TypeOK
    EveryCallIsOwedOneAnswer
    WaitingTasksFitPackets
    BuffersConserved
    ConnectFindsNoSocket
    SuccessIsTheBrokersGrant
PROPERTIES
    ImplementsCalls
    EveryCallReturns
\* After a changed answer the model stops.
CHECK_DEADLOCK FALSE
