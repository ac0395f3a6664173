CONSTANTS
    PageSize = 5
    Pages = 3
    Header = 2
    Slack = 1
    Sizes = {0, 2, 3, 5, 8, 9}
    NIL = NIL
SPECIFICATION Spec
CHECK_DEADLOCK FALSE
INVARIANTS
    TypeOK
    NoBug
    PagesExact
    TreeFresh
    Joined
    AsyncSpaceExact
PROPERTIES
    PoolSpec
