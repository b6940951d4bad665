CONSTANTS
    m1 = m1
    m2 = m2
    Moves = {m1}
    NoAct = NoAct
    Flee = Flee
    PureAck = PureAck
    NoPkt = NoPkt
    Menus = FALSE
    EarlyFlee = FALSE
    TeamSize = 1
    QueueDepth = 1
    Reorder = FALSE
    MaxTries = 1
    SlowStart = FALSE
    TerminalHeld = TRUE
    LevelUps = FALSE
    MaxSession = 2
    MaxTurn = 1
    MaxSeq = 2
SPECIFICATION FairSpec
INVARIANTS
    AckedResultIsShown
    OneWinner
PROPERTIES
    ChallengeEnds
    PicksPlayTheTurn
    ResultArrives
CHECK_DEADLOCK FALSE
