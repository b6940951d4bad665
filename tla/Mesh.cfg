CONSTANTS
    m1 = m1
    m2 = m2
    Moves = {m1}
    NoAct = NoAct
    Flee = Flee
    PureAck = PureAck
    NoPkt = NoPkt
    Menus = TRUE
    EarlyFlee = TRUE
    TeamSize = 1
    QueueDepth = 2
    Reorder = TRUE
    MaxTries = 1
    SlowStart = FALSE
    TerminalHeld = TRUE
    LevelUps = TRUE
    MaxSession = 1
    MaxTurn = 1
    MaxSeq = 2
SPECIFICATION Spec
PROPERTIES
    ImplementsLiveBattle
INVARIANTS
    AckedWasTaken
    MovesArePicked
CHECK_DEADLOCK FALSE
