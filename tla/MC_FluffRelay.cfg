CONSTANTS
    e1 = e1  e2 = e2  e3 = e3
    k1 = k1  k2 = k2
    p1 = p1  p2 = p2
    NoRec = NoRec
    NoKey = NoKey
    Elems <- MCElems
    Keys <- MCKeys
    Peers <- MCPeers
SPECIFICATION Spec

PROPERTIES RelaySpec
CHECK_DEADLOCK FALSE
