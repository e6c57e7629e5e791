CONSTANTS
    key = key
    wifi = wifi
    N = 4
    Fields <- MCFields
    FieldOf <- MCFieldOf
    Values = {a, b}
    Pages = 3
    PageOf <- MCPageOf
    ChunkEnd <- MCChunkEnd
    Header = Header
    Zero = Zero
    Garbage = Garbage
    Erased = Erased
    Torn = Torn
SPECIFICATION FairSpec
INVARIANTS
    TypeOK
    NoOverwrite
    SuccessStored
PROPERTIES
    ImplementsRegister
    SetReturns
