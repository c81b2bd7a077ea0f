CONSTANTS
    Null = Null
    r1 = r1
    r2 = r2
    r3 = r3
    r4 = r4
    Reqs = {r1, r2, r3, r4}
    Amount = 3
    DefaultIdxSize = 128
    Hits = {0, 1, 2}
SPECIFICATION Spec
INVARIANTS
    TypeOK
    ConservedUntilDisturbed
    FilesOnlyLose
PROPERTY LateCallsHarmless
