\* One handle more than slots, so that slots and handles change partners;
\* a connection is made while another event waits; one reset, of the stack or
\* by the button.
CONSTANTS
    h1 = h1
    h2 = h2
    h3 = h3
    x1 = x1
    Handle = {h1, h2, h3}
    NoConn = NoConn
    NumSlots = 2
    MaxConnections = 2
    Challenge = {x1}
    NoChallenge = NoChallenge
    MaxEvents = 2
    MaxResets = 1
SPECIFICATION FairSpec
INVARIANTS BleTypeOK SlotsFollowLinks AdvertisesWhenFree NothingInherited
PROPERTY ResetEndsConnections
