CONSTANTS
    Packets <- MCPackets
    MaxLen = 2
    HopLimits = {2}
    MaxArrivals = 2
    Idle = Idle
SPECIFICATION Spec
INVARIANTS
    SleepCutsNoSend
