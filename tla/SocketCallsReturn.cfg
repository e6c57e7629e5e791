CONSTANTS
    Tasks = {mqtt, client}
    Agents = {}
    NumSockets = 1
    MaxFlights = 0
SPECIFICATION FairSpec
PROPERTY CallReturns
