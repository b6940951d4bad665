SPECIFICATION Spec
CONSTANTS
    a = a
    b = b
    c = c
    Nodes = {a, b, c}
    Networks <- SmallNetworks
    Dests = {c, Broadcast}
    Senders = {a}
    HopLimit = 2
    MaxInbox = 4
    ReliableRetx = 3
    RelayRetx = 2
    MaxSends = 1
    MaxFaults = 1
    None = None
    Broadcast = Broadcast
INVARIANTS
    TypeOK
    AckIsTrue
    HeardDirectly
    NoRoutingLoop
    VerdictReached
PROPERTIES
    NoNakOnceAcked
