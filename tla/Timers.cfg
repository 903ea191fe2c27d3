\* Two timers, up to three runs on the stack.
SPECIFICATION FairSpec
CONSTANTS
    t1 = t1
    t2 = t2
    Timer = {t1, t2}
    Delays = {0, 1}
    Repeats = {0, 1, 2}
    MaxTime = 4
    MaxDepth = 3
INVARIANTS TypeOK SharedTimerArmed OneLoopFires
PROPERTIES TimersFire
