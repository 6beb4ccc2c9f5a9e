CONSTANTS
    NoAddr = NoAddr
    NoToken = NoToken
    Addr = {a1}
    Token = {k1, k2, k3, k4, k5}
SPECIFICATION FairSpec
PROPERTY Reachable
PROPERTY SilentForgotten
