SPECIFICATION PartsSpec
CONSTANTS
    u1 = u1
    u2 = u2
    w1 = w1
    Player = {u1, u2}
    NoPlayer = NoPlayer
    Trader = {u1}
    Stranger = {u1}
    TradeAmount = {10}
    FirstRate = 100
    RateMin = 99
    RateMax = 104
    Multiplier = 100
    AdminRate = 102
    MaxPreviews = 1
    MaxVolume = 20
    AlertOwner = {u1}
    Alert = {1, 2}
    Price = {1, 2}
    MaxLost = 1
    Target = 2
    MaxWindows = 3
    MaxCompletions = 3
    Newcomer = {w1, w2}
    Name = {n1, n2, n3}
    NoName = NoName
    Twins = {n1, n2}
    Capital = 1
    Bounds <- MCBounds
    Lesson = {1, 2, 3}
    NoLesson = 0
    ModuleOf <- MCModuleOf
    Questions <- MCQuestions
    XpFor <- MCXpFor
    MaxTurns = 1
    MaxCommands = 1
    MaxWrites = 2
    OwnerRun = {o1}
    SupportRun = {p1}
    People = People
    MaxTries = 2
    Subject = {b1}
    Request = {q1, q2}
    Switch = {l1}
    Draft = {1}
    MaxNotes = 2
    Asker = {a1}
    Call = {j1, j2}
    Question = {z1}
    Text = {x1}
    NoText = NoText
    Models = 2
    MaxChanges = 1
INVARIANTS
    OneMessagePerKeptMark
    RewardsAreEarned
    NamesCollideOnlyUnchecked
    FirstTradesWithinCapital
    LessonsAreLearned
    PanelShowsPausedTruly
    PanelTellsTruly
    AnswersFitTheirContext
PROPERTIES
    RateMovesByItsStep
    TradeUsesUpAPreview
    LostOnlyUnread
CHECK_DEADLOCK FALSE
