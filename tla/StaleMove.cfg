CONSTANTS
    m1 = m1
    m2 = m2
    Moves <- MCMoves
    NoAct = NoAct
    Flee = Flee
    PureAck = PureAck
    NoPkt = NoPkt
    Menus = FALSE
    EarlyFlee = FALSE
    TeamSize = 2
    QueueDepth = 2
    Reorder = TRUE
    MaxTries = 1
    SlowStart = FALSE
    TerminalHeld = TRUE
    LevelUps = TRUE
    MaxSession = 1
    MaxTurn = 2
    MaxSeq = 3
SPECIFICATION Spec
PROPERTIES
    TurnsPlayPickedMoves
SYMMETRY MoveSymmetry
CHECK_DEADLOCK FALSE
