CONSTANTS
    Vip <- Nodes
    Addr <- Addresses
    VipCidr = {"c", "g", "h"}
    Broadcast = {"all"}
    Lan <- Behind
    Config <- Lists
    Hash <- Codes
    NoHop = NoHop
    Flow <- Conversations
    Opening <- Pairs
    Persistent <- Repeated
    TTL = 2
SPECIFICATION FairSpec
INVARIANT TypeOK
INVARIANT AnswerMatches
INVARIANT OneHop
INVARIANT NoBypass
PROPERTY RoundTrip
