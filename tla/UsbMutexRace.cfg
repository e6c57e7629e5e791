CONSTANTS
    response = response
    logging = logging
    Reader = commandInterface
    None = None
    Writers <- MCWriters
    Prio <- MCPrio
SPECIFICATION Spec
INVARIANT GivenByHolder
CHECK_DEADLOCK FALSE
