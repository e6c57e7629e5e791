CONSTANTS
    response = response
    logging = logging
    Reader = commandInterface
    None = None
    Writers <- MCWriters
    Prio <- MCPrio
SPECIFICATION FairSpec
INVARIANTS
    TypeOK
    Exclusive
    HangsOnlyIfRaced
    SuccessMeansSent
    CompletionWakes
    RxWakes
    LostOnlyByEnumeration
PROPERTY WriteReturns
\* A failed configASSERT stops the system.
CHECK_DEADLOCK FALSE
