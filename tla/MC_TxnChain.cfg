CONSTANTS
    pa = pa
    pb = pb
    pc = pc
    a1 = a1
    b1 = b1
    b2 = b2
    c1 = c1
    na = na
    nb = nb
    nc = nc
    Procs = {pa, pb, pc}
    Threads = {a1, b1, c1}
    Nodes = {na, nb, nc}
    Txns = {t1, t2, t3, t4}
    Bufs = {d1, d2}
    ProcOf <- ThreeProcOf
    Owner <- ThreeOwner
    NIL = NIL
    Complete = Complete
    MaxTodo = 1
    Calls <- ThreeCalls
    OneWay <- Nobody
    Servers = {}
    Faulty = {}
    Quitters = {pb, pc}
    CookieMismatch = FALSE
SPECIFICATION Spec
SYMMETRY Ids
CHECK_DEADLOCK FALSE
INVARIANTS
    ReplyTargetWaits
