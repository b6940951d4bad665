SPECIFICATION Spec
CONSTANTS
    m1 = m1
    m2 = m2
    Mons = {m1, m2}
    Starter = m1
    None = None
    Torn = Torn
    MaxExp = 2
    TerminalCap = 2
    ExpPerLevel = 4
    MaxEvents = 1
    MaxBattles = 1
    MaxPlays = 1
    MaxFaults = 1
INVARIANTS
    PlayIsKept
PROPERTIES
    CartOwnsSave
    DaycareResumes
