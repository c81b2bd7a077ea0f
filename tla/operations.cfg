\* Every handler in every execution context.
CONSTANTS
    RegistrySize = 1
    DefaultRegistrySize = 4
    Null = Null
    Reqs = {r1, r2}
    Calls <- AllCalls
    CtxPayload = CtxPayload
    SqEntries = 3
    CqBound = 2
    SubmitMayFail = FALSE
    ProvidedMode = TRUE
SPECIFICATION Spec
SYMMETRY ReqSymmetry
INVARIANTS TypeOK NoLostFuture NoDoubleFree
