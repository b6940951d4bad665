CONSTANTS
    Us = Us
    NoNode = NoNode
    NoId = NoId
    Others = {a}
    Senders = {s1}
    OurNum = OurNum
    Ids = {k1, k2, k3}
    Capacity = 2
    NumRelayers = 2
    MaxHop = 1
    Wrap = 100
    Start = 1
    MaxTime = 2
SPECIFICATION Spec
INVARIANTS
    NoDuplicateEntries
PROPERTIES
    OldestIsEvicted
    HighestIsKept
SYMMETRY IdSymmetry
