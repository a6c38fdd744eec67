\* Two keys, one connection and two owner commands at any point of a pass; no
\* power loss.
CONSTANTS
    k1 = k1
    k2 = k2
    h1 = h1
    KeyId = {k1, k2}
    ZeroId = ZeroId
    DK_MAX_KEYS = 2
    NvsMayFail = FALSE
    MaxReboots = 0
    Handle = {h1}
    Budget <- BudgetOwner
SPECIFICATION TerminationSpec
INVARIANTS SyncTypeOK PassLeavesOnlyServerKeys PassApprovesKeys
PROPERTIES RevokesOnlyWithdrawn RevokedSessionEnds
