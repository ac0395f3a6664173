CONSTANTS
    pa = pa
    pb = pb
    pc = pc
    a1 = a1
    a2 = a2
    b1 = b1
    c1 = c1
    na = na
    nm = nm
    nx = nx
    Procs = {pa, pb, pc}
    Threads = {a1, b1, c1}
    Nodes = {na, nm, nx}
    Bufs = {d1}
    ProcOf <- TheProcOf
    Owner <- TheOwner
    Managers = {nm, nx}
    NIL = NIL
    Careful = {}
    MaxObjs = 1
    MaxCount = 1
    Routes <- ManagerRoutes
    Counters = {pa}
    Quitters = {pc}
SPECIFICATION Spec
SYMMETRY Ids
CHECK_DEADLOCK FALSE
INVARIANTS
    TypeOK
    CountsExact
    NoDanglingNode
    ClaimsNested
