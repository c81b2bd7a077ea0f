CONSTANTS
    Null = Null
    None = None
    F = F
    X = X
    R = R
    Q = Q
    P = P
    S = S
    T = T
    t1 = t1
    t2 = t2
    Main = t1
    Tasks = {t1, t2}
    Managers = {F, X, R, Q, S, T, P}
    Attr <- MCAttr
    MaxBlocks = 3
SPECIFICATION Spec
INVARIANTS
    ContextIsInnermost
    IndicesMeanTable
    TableOwned
    RingMatches
    NoUndefined
CHECK_DEADLOCK FALSE
