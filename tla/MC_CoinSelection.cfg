CONSTANTS
    b1 = b1  b2 = b2  b3 = b3  a1 = a1  a2 = a2
    AmountBits = 8
    Coins <- MCCoins
    Value <- MCValue
    AssetOf <- MCAssetOf
    ShieldedCoins <- MCShielded
    MaxIns = 2
    Fs <- MCFs
    Requests = {1, 2, 4}
    ExplicitFees = {0, 2, 4}
    AssetIDs = {0, 7}
    MaxCalls = 2
SPECIFICATION Spec
INVARIANTS
    ValueConserved
    FeeCoversOutputs
    NettoExact
CHECK_DEADLOCK FALSE
