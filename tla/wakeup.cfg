\* The read of the eventfd is submitted once.
CONSTANTS
    Soon = {s1, s2}
    Timers = {t1}
    Callbacks = {c1}
    Threaded = {x1, x2}
    Delays = {1, 3}
    Second = 2
    MaxWait = 2
    ClockResolution = 1
    MaxTime = 4
SPECIFICATION Spec
INVARIANT WriteWakesLoop
CHECK_DEADLOCK FALSE
