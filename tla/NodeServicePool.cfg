CONSTANTS
    l1 = l1
    l2 = l2
    a1 = a1
    a2 = a2
    m1 = m1
    m2 = m2
    m3 = m3
    n1 = n1
    n2 = n2
    n3 = n3
    n4 = n4
    n5 = n5
    p1 = p1
    p2 = p2
    p3 = p3
    p4 = p4
    p5 = p5
    NoRow = NoRow
    Gone = Gone
    NoVip = NoVip
    Nobody = Nobody
    Tenant = Tenant
    Loop = {l1, l2}
    Admin = {a1}
    Request = {"add", "edit", "tenant"}
    Mac = {m1, m2, m3}
    NodeId = {n1, n2, n3, n4, n5}
    PoolId = {p1, p2, p3, p4, p5}
    NodeGrant = TRUE
    Count = 2
    Connections = 4
    MaxIndex = 7
    MaxRequests = 5
SYMMETRY Symmetry
SPECIFICATION Spec
INVARIANT NoVipLost
INVARIANT PoolCovers
