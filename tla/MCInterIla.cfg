\* The client may stop at any time, and the bound MaxCstr stops it.
CHECK_DEADLOCK FALSE
CONSTANTS
    store = store  load = load  x = x  p = p  q = q
    Inst = {store, load}
    FinalStep = FinalStep
    Shared = {x}
    Private = {p, q}
    StateRead <- MCRead
    StateWrite <- MCWrite
    Props <- MCPrivateProps
    FinalProps <- MCFinalProps
    Filters <- MCFilters
    MaxCstr = 4
    MaxPush = 2
SPECIFICATION Spec
INVARIANTS
    TypeOK
    NoDanglingRead
