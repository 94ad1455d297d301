SPECIFICATION Spec
CONSTANTS
    u1 = u1
    u2 = u2
    u3 = u3
    n1 = n1
    n2 = n2
    a1 = a1
    User = {u1, u2, u3}
    Human = {n1}
    AI = {}
    NoNation = NoNation
    NoUser = NoUser
    InitialFounder <- MCInitialFounder
    InitialPlayers = {u2, u3}
    MinisterLimit = 1
    TraderLimit = 1
    MaxChanges = 2
    Ordered = TRUE
    Features = {"join", "dissolve", "resolve", "trade", "home", "admin_home"}
SYMMETRY MCSymmetry
INVARIANTS
    NoCitizenOfDissolved
CHECK_DEADLOCK FALSE
