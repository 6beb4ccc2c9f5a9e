CONSTANTS
    t1 = t1
    t2 = t2
    m1 = m1
    m2 = m2
    v1 = v1
    v2 = v2
    NoVip = NoVip
    Absent = Absent
    NChannel = 2
    Tenant = {t1}
    KnownTenant = {t1}
    Mac = {m1, m2}
    Vip = {v1, v2}
    Addr = {a0, a1}
    EmptyAddr = a0
    TenantOf <- OneTenant
    MacOf <- Reconnecting
    FixedVip <- FixedForM1
    Exclusive = TRUE
    Routed = {t1}
    Mute = {}
    MaxRequests <- EachOnce
SPECIFICATION Spec
INVARIANT RegistAnswered
CHECK_DEADLOCK FALSE
