\* A power loss between the addition and the approval of a key.
CONSTANTS
    k1 = k1
    k2 = k2
    KeyId = {k1, k2}
    ZeroId = ZeroId
    DK_MAX_KEYS = 2
    NvsMayFail = FALSE
    MaxReboots = 1
    Handle = {}
    Budget <- BudgetQuiet
SPECIFICATION CloudSpec
INVARIANT PassApprovesKeys
