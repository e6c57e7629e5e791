CONSTANTS
    Tasks = {cloud, other}
    None = None
SPECIFICATION FairSpec
INVARIANTS
    TypeOK
    NoAssertFails
    NotifiedMeansDone
    DoneMeansNotified
PROPERTY CallReturns
\* Without a mutex there is nothing to do but to be notified.
CHECK_DEADLOCK FALSE
