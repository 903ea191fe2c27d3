\* Five timers, two fire times, insertion orders of four bits.
SPECIFICATION Spec
CONSTANTS
    t1 = t1
    t2 = t2
    t3 = t3
    t4 = t4
    t5 = t5
    Timer = {t1, t2, t3, t4, t5}
    Times = {1, 2}
    Width = 4
SYMMETRY TimerSymmetry
INVARIANTS TypeOK HeapConsistent
PROPERTIES ImplementsQueue
