\* A linked timeout carries the user_data of an earlier request.
CONSTANTS
    RegistrySize = 2
    DefaultRegistrySize = 4
    Null = Null
    Reqs = {r1, r2, r3}
    Calls <- TimeoutCalls
    CtxPayload = CtxPayload
    SqEntries = 3
    CqBound = 2
    SubmitMayFail = FALSE
    ProvidedMode = FALSE
SPECIFICATION Spec
INVARIANT NoMisdelivery
