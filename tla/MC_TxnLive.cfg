CONSTANTS
    pa = pa
    pb = pb
    pc = pc
    a1 = a1
    b1 = b1
    b2 = b2
    c1 = c1
    na = na
    nb = nb
    nc = nc
    Procs = {pa, pb}
    Threads = {a1, b1}
    Nodes = {na, nb}
    Txns = {t1, t2, t3}
    Bufs = {d1, d2}
    ProcOf <- LiveProcOf
    Owner <- LiveOwner
    NIL = NIL
    Complete = Complete
    MaxTodo = 1
    Calls <- LiveCalls
    OneWay <- Nobody
    Servers = {b1}
    Faulty = {}
    Quitters = {pb}
    CookieMismatch = FALSE
SPECIFICATION FairSpec
CHECK_DEADLOCK FALSE
PROPERTIES
    CallReturns
