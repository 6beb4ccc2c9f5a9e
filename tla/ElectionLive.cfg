CONSTANTS
    a = a
    b = b
    r1 = r1
    NoPath = NoPath
    Node = {a, b}
    Sender = {a, b}
    Path = {direct}
    Req = {r1}
    FixedPort = FALSE
    MaxGen = 2
SPECIFICATION FairSpec
INVARIANT TypeOK
INVARIANT NoStuckElection
INVARIANT PongVouchesForKey
PROPERTY StaleEnds
PROPERTY Connects
