CONSTANTS
    t1 = t1
    t2 = t2
    m1 = m1
    m2 = m2
    v1 = v1
    v2 = v2
    NoVip = NoVip
    Absent = Absent
    NChannel = 3
    Tenant = {t1, t2}
    KnownTenant = {t1, t2}
    Mac = {m1, m2}
    Vip = {v1, v2}
    Addr = {a0, a1}
    EmptyAddr = a0
    TenantOf <- LastOther
    MacOf <- SameNode
    FixedVip <- NoFixed
    Routed = {}
    Exclusive = FALSE
    Mute = {}
    MaxRequests <- EachOnce
SPECIFICATION Spec
INVARIANT Routable
INVARIANT NoStaleRoute
INVARIANT Converged
CHECK_DEADLOCK FALSE
