CONSTANTS
    c1 = c1  c2 = c2  p1 = p1  z = z  pk1 = pk1  pk2 = pk2  k3 = k3
    None = None
    Cids <- MCCids
    Pipes = {p1}
    Keys <- MCKeys
    Zero = z
    MyPk <- MCMyPk
    AssetIDs = {0, 3}
    Amounts = {5}
    MetaSizes = {0, 1, 3}
    Starts = {0, 1}
    Msgs <- MCMsgs
    Commissions = {1}
    Garbage = {0, 9}
    DepositCA = DepositCA
SPECIFICATION Spec
INVARIANTS
    NoKernelOnError
CHECK_DEADLOCK FALSE
