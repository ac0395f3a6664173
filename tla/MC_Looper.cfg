CONSTANTS
    Main = t0
    Threads = {t0, t1, t2}
    Calls = {c1, c2}
    NIL = NIL
    Stuck = {c1}
    MaxThreads = {2}
    Mortal = {t2}
    MaxFlush = 1
    MaxNested = 1
SPECIFICATION FairSpec
CHECK_DEADLOCK FALSE
INVARIANTS
    ReadyExact
    NoLostWakeup
    SpawnBound

PROPERTIES
    Served
