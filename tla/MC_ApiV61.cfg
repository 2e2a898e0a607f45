CONSTANTS
    EvKeys <- MCEvKeys
    KeyRank <- MCKeyRank
    MaxKeys = 2
    Amounts = {1, 5}
    AmountBits = 3
    MaxAllowedInt = 5
    CreateTxDefault = TRUE
    Junk = Junk
    Absent = Absent
INIT Init
NEXT Next
INVARIANTS
    TotalsExact
    ParseExact
