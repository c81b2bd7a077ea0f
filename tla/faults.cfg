\* Every fault the handlers and the reader meet; the reader and the drain loop are fair.
CONSTANTS
    RegistrySize = 2
    DefaultRegistrySize = 4
    Null = Null
    Reqs = {r1, r2}
    Calls <- FaultCalls
    CtxPayload = CtxPayload
    SqEntries = 2
    CqBound = 2
    SubmitMayFail = TRUE
    ProvidedMode = FALSE
SPECIFICATION FairSpec
INVARIANTS StackMatchesSlots NoLostFuture ResolvedOnce NoDoubleFree NoLeak DanglingBuffersExplained
PROPERTIES RefusedCallLeavesNoTrace CompletionsAreDelivered
