CONSTANTS
    s1 = s1
    s2 = s2
    web = web
    mail = mail
    Proc = p
    Manager = sm
    Threads = {sm}
    Quitters = {}
    Nodes = {s1, s2}
    Cookies = {web, mail}
    NamesOf <- PublishedAs
    Careful = {s1}
    Deaths = {d1, d2}
    Msgs = {m1, m2}
    NIL = NIL
    MaxCount = 5
SPECIFICATION ManagerSpec
CHECK_DEADLOCK FALSE
INVARIANTS
    CountsHeld
    CaughtUp
PROPERTIES
    RegistrySpec
    Expires
