\* Three ids and a table of two, so that the table fills up; NVS calls may
\* fail and power may be lost twice.
CONSTANTS
    k1 = k1
    k2 = k2
    k3 = k3
    KeyId = {k1, k2, k3}
    ZeroId = ZeroId
    DK_MAX_KEYS = 2
    NvsMayFail = TRUE
    MaxReboots = 2
SPECIFICATION Spec
SYMMETRY KeySymmetry
INVARIANTS TypeOK NoDuplicateIds DurableAtRest
PROPERTY ImplementsRegistry
