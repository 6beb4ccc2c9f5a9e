CONSTANTS
    NoAddr = NoAddr
    NoToken = NoToken
    Addr = {a1, a2}
    Token = {k1, k2, k3, k4}
SYMMETRY Symmetry
SPECIFICATION Spec
INVARIANT TypeOK
INVARIANT TablesAgree
INVARIANT RoutedHome
