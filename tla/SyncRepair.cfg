\* A table of one, two keys that compete for it, NVS failures, a power loss, a
\* factory reset and a vehicle that is registered again.
CONSTANTS
    k1 = k1
    k2 = k2
    KeyId = {k1, k2}
    ZeroId = ZeroId
    DK_MAX_KEYS = 1
    NvsMayFail = TRUE
    MaxReboots = 1
    Handle = {}
    Budget <- BudgetRepair
SPECIFICATION FairSpec
INVARIANT PassLeavesOnlyServerKeys
PROPERTIES IdsConverge DeviceKeyConverges
