CONSTANTS
    t1 = t1
    t2 = t2
    m1 = m1
    m2 = m2
    v1 = v1
    v2 = v2
    NoVip = NoVip
    Absent = Absent
    NChannel = 3
    Tenant = {t1}
    KnownTenant = {t1}
    Mac = {m1, m2}
    Vip = {v1, v2}
    Addr = {a0, a1}
    EmptyAddr = a0
    TenantOf <- OneTenant
    MacOf <- Reconnecting
    FixedVip <- FixedForM1
    Routed = {}
    Exclusive = TRUE
    Mute = {}
    MaxRequests <- LastTwice
SPECIFICATION Spec
INVARIANT TypeOK
INVARIANT VipExclusive
INVARIANT NothingLeft
INVARIANT Converged
PROPERTY LeaseSpec
CHECK_DEADLOCK FALSE
