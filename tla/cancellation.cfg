\* The CQE of a cancelled request leaves an error behind that the next one meets.
CONSTANTS
    RegistrySize = 2
    DefaultRegistrySize = 4
    Null = Null
    Reqs = {r1, r2}
    Calls <- ReadCalls
    CtxPayload = CtxPayload
    SqEntries = 3
    CqBound = 2
    SubmitMayFail = FALSE
    ProvidedMode = FALSE
SPECIFICATION Spec
INVARIANT EveryFutureResolved
