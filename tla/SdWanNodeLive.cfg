CONSTANTS
    NRouter = 2
    Caller = caller
    Loop = {l1}
    Task = {1, 2}
    Nobody = Nobody
    NoTask = NoTask
    Info = {a0, a1}
    Absent = Absent
    First = a0
    MaxCall = 2
    Patient = TRUE
    Prompt = TRUE
SPECIFICATION FairSpec
INVARIANT TypeOK
INVARIANT EntryOwned
INVARIANT StopDisconnects
INVARIANT NoOrphan
INVARIANT DirectoryCurrent
PROPERTY PendingSpec
PROPERTY CallReturns
PROPERTY Recovers
