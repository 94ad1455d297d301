SPECIFICATION Spec
CONSTANTS
    u1 = u1
    u2 = u2
    u3 = u3
    n1 = n1
    n2 = n2
    a1 = a1
    User = {u1, u2}
    Human = {n1, n2}
    AI = {a1}
    NoNation = NoNation
    NoUser = NoUser
    InitialFounder <- MCInitialFounder
    InitialPlayers = {}
    MinisterLimit = 1
    TraderLimit = 1
    MaxChanges = 2
    Ordered = FALSE
    Features = {"register", "join", "join_ai", "kick", "dissolve", "found", "resolve", "restart"}
INVARIANTS
    TypeOK
    HomeMirrorsMembership
    NoPartialCitizenship
    FounderRole
    OneNationPerFounder
PROPERTIES
    ImplementsCitizenship
CHECK_DEADLOCK FALSE
