CONSTANTS
    Proc = p
    Threads = {t1, t2}
    Nodes = {n1}
    Cookies = {c1}
    Deaths = {d1, d2}
    Msgs = {m1}
    NIL = NIL
    MaxCount = 2
    Quitters = {t2, p}
    MaxAsks = 3
SPECIFICATION MCSpec
CHECK_DEADLOCK FALSE
INVARIANTS
    OneOwner
    NoBug
    ClearAfterDone
PROPERTIES
    Heard
    ClearEnds
