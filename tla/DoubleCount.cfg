SPECIFICATION Spec
CONSTANTS
    m1 = m1
    m2 = m2
    Mons = {m1}
    Starter = m1
    None = None
    Torn = Torn
    MaxExp = 6
    TerminalCap = 6
    ExpPerLevel = 1
    MaxEvents = 2
    MaxBattles = 0
    MaxPlays = 0
    MaxFaults = 0
INVARIANTS
    XpCountedOnce
