\* Two browsers, each connecting once, and no lost link.
CONSTANTS
    c1 = c1
    c2 = c2
    t1 = t1
    t2 = t2
    Client = {c1, c2}
    ScanTask = {t1, t2}
    NoTask = NoTask
    NoClient = NoClient
    MaxOpens = 2
    MaxDrops = 0
SPECIFICATION FairSpec
PROPERTY ScanServesClients
