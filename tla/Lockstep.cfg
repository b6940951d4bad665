CONSTANTS
    m1 = m1
    m2 = m2
    Moves = {m1}
    NoAct = NoAct
    TeamSize = 1
    QueueDepth = 2
    Reorder = FALSE
    LevelUps = FALSE
    MaxSession = 1
    MaxTurn = 2
SPECIFICATION FairSpec
INVARIANTS
    PlayedWerePicked
    CleanLockstep
    DesyncIsReal
PROPERTIES
    PickedTurnIsPlayed
    FinishSpreads
CHECK_DEADLOCK FALSE
