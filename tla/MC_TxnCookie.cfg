CONSTANTS
    pa = pa
    pb = pb
    pc = pc
    a1 = a1
    b1 = b1
    b2 = b2
    c1 = c1
    na = na
    nb = nb
    nc = nc
    Procs = {pa, pb}
    Threads = {a1, b1, b2}
    Nodes = {na, nb}
    Txns = {t1, t2, t3}
    Bufs = {d1, d2, d3}
    ProcOf <- TwoProcOf
    Owner <- TwoOwner
    NIL = NIL
    Complete = Complete
    MaxTodo = 1
    Calls <- TwoCalls
    OneWay <- Nobody
    Servers = {}
    Faulty = {a1, b1}
    Quitters = {b1}
    CookieMismatch = TRUE
SPECIFICATION Spec
SYMMETRY Ids
CHECK_DEADLOCK FALSE
PROPERTIES
    FailedWriteReported
