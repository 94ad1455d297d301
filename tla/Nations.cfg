SPECIFICATION PartsSpec
CONSTANTS
    u1 = u1
    u2 = u2
    m2 = m2
    r1 = r1
    Player = {u1, u2}
    NoPlayer = NoPlayer
    TheFounder = u1
    Entry = {1, 2}
    MinDeposit = 2
    Purse = 2
    NoVault = NoVault
    MaxPresses = 3
    Motion = {1, 2}
    Rule = {r1, r2}
    NoRule = NoRule
    Voter = {v1}
    Weight <- MCWeight
    MinQuorum = 2
    MaxLaws = 1
    Reader = {y1}
    Topic = {t1, t2}
    NationTopic = {t1}
    Homeland = {h1, h2}
    Nowhere = Nowhere
    MaxMotions = 2
    Candidate = {f1, f2}
    Chat = {g1}
    Code = {c1}
    NoChat = NoChat
    NoCode = NoCode
    Task = {1, 2}
    Session = {1, 2, 3}
    Land = {1, 2}
    LessonId = {1, 2}
    Robots <- MCRobots
    LivesIn <- MCLivesIn
    Ruling = {m1}
    Voted = {m2}
    ProposedBy <- MCProposedBy
    Official = {e1}
    Country = {k1, k2}
    NoCountry = NoCountry
    Policy = {"INVITE_ONLY"}
    MaxTexts = 2
    Rearm = 4
    Duration = 3
    MaxEvents = 2
INVARIANTS
    EveryVoteCounts
    ReplacedReturnsOnlyByJump
    StaleRuleOnlyByEarlyRead
    CapitalsClaimedOnce
    DialogueFitsDraft
    KnownDeadlocksOnly
    
    TypedByTheEligible
PROPERTIES
    LawsWithinLimit
    PowersOfTheMoment
CHECK_DEADLOCK FALSE
