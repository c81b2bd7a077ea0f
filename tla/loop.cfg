\* run_once: safety and progress.
CONSTANTS
    Soon = {s1}
    Timers = {t1, t2}
    Callbacks = {c1, c2}
    Threaded = {x1}
    Delays = {1, 3}
    Second = 2
    MaxWait = 2
    ClockResolution = 1
    MaxTime = 3
SPECIFICATION FairSpec
INVARIANTS TypeOK NoOversleep NoEarlyTimer CancelledNeverRuns HandlesAccounted RunsOnce
PROPERTY HandlesRun
CHECK_DEADLOCK FALSE
