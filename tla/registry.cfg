\* Callers that may remove an index twice; registry_size 0 selects the default size.
CONSTANTS
    RegistrySize = 0
    DefaultRegistrySize = 4
    Null = Null
    Futures = {f1, f2, f3}
SPECIFICATION Spec
SYMMETRY FutureSymmetry
INVARIANTS TypeOK StackMatchesSlots NoAbort StackInBounds
PROPERTY ImplementsPool
CHECK_DEADLOCK FALSE
