SPECIFICATION FairSpec
CONSTANTS
    u1 = u1
    u2 = u2
    u3 = u3
    n1 = n1
    n2 = n2
    a1 = a1
    User = {u1, u2}
    Human = {n1}
    AI = {}
    NoNation = NoNation
    NoUser = NoUser
    InitialFounder <- MCInitialFounder
    InitialPlayers = {}
    MinisterLimit = 1
    TraderLimit = 1
    MaxChanges = 3
    Ordered = TRUE
    Features = {"register", "redeliver", "kick", "reconcile", "rate"}
INVARIANTS
    HumanCitizenBacked
PROPERTIES
    KickLiquidates
    CountSettles
CHECK_DEADLOCK FALSE
