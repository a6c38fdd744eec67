\* One key, one connection, no power loss, no reset.
CONSTANTS
    k1 = k1
    h1 = h1
    KeyId = {k1}
    ZeroId = ZeroId
    DK_MAX_KEYS = 1
    NvsMayFail = FALSE
    MaxReboots = 0
    Handle = {h1}
    Budget <- BudgetQuiet
SPECIFICATION CloudSpec
INVARIANT NoSessionOfRevokedKey
