CONSTANTS
    Tasks = {mqtt}
    Agents = {mqtt}
    NumSockets = 1
    MaxFlights = 1
SPECIFICATION Spec
INVARIANT CloseFrees
