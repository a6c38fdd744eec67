\* Two browsers that connect twice in all, and one lost link.
CONSTANTS
    c1 = c1
    c2 = c2
    t1 = t1
    t2 = t2
    Client = {c1, c2}
    ScanTask = {t1, t2}
    NoTask = NoTask
    NoClient = NoClient
    MaxOpens = 2
    MaxDrops = 1
SPECIFICATION FairSpec
INVARIANT WebTypeOK
PROPERTY VehicleGetsConnected
