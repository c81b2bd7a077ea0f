\* The reader frees the buffer before the notification of a zero copy send.
CONSTANTS
    RegistrySize = 1
    DefaultRegistrySize = 4
    Null = Null
    Reqs = {r1}
    Calls <- ZeroCopyCalls
    CtxPayload = CtxPayload
    SqEntries = 3
    CqBound = 2
    SubmitMayFail = FALSE
    ProvidedMode = FALSE
SPECIFICATION Spec
INVARIANT BuffersAliveUntilShutdown
