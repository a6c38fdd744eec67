\* No NVS call fails and power is never lost.
CONSTANTS
    k1 = k1
    KeyId = {k1}
    ZeroId = ZeroId
    DK_MAX_KEYS = 2
    NvsMayFail = FALSE
    MaxReboots = 0
SPECIFICATION Spec
INVARIANT ErasedForGood
