CONSTANTS
    d1 = d1  d2 = d2  d3 = d3  d4 = d4
    k1 = k1  k2 = k2
    None = None
    DElems <- MCDElems
    Keys <- MCKeys
    Fees = {1, 2}
    Sizes = {1, 2}
SPECIFICATION Spec
INVARIANTS
    BestIsMaximal
CHECK_DEADLOCK FALSE
