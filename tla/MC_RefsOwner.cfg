CONSTANTS
    pa = pa
    pb = pb
    pc = pc
    a1 = a1
    a2 = a2
    b1 = b1
    c1 = c1
    na = na
    nm = nm
    nx = nx
    Procs = {pa, pb, pc}
    Threads = {a1, a2, b1, c1}
    Nodes = {na}
    Bufs = {d1, d2}
    ProcOf <- TheProcOf
    Owner <- TheOwner
    Managers = {}
    NIL = NIL
    Careful = {pa, pb, pc}
    MaxObjs = 1
    MaxCount = 1
    Routes <- TheRoutes
    Counters = {pb}
    Quitters = {pa, pb, pc, a1}
SPECIFICATION Spec
SYMMETRY Ids
CHECK_DEADLOCK FALSE
INVARIANTS
    OwnerTold
    HandlesExact
