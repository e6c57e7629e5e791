CONSTANTS
    Tasks = {mqtt, client}
    Agents = {mqtt}
    NumSockets = 2
    MaxFlights = 1
SPECIFICATION Spec
INVARIANTS
    TypeOK
    ActsOnItsSocket
    OneOwner
    OwnConnection
    NoDanglingPointer
    FreeOwnsNothing
