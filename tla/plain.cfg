\* Operations with one CQE each, three requests on three slots.
CONSTANTS
    RegistrySize = 3
    DefaultRegistrySize = 4
    Null = Null
    Reqs = {r1, r2, r3}
    Calls <- PlainCalls
    CtxPayload = CtxPayload
    SqEntries = 3
    CqBound = 3
    SubmitMayFail = FALSE
    ProvidedMode = FALSE
SPECIFICATION Spec
SYMMETRY ReqSymmetry
INVARIANTS NoMisdelivery BuffersAliveUntilShutdown NoCrash ClosedOnce CancellationSkipsOne
PROPERTY ImplementsCompletion
