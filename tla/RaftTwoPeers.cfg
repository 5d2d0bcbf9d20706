SPECIFICATION HeartSpec
CONSTANTS
    s1 = s1
    s2 = s2
    s3 = s3
    a = a
    Server = {s1, s2}
    Links <- AllLinks
    Command = {a}
    Nil = Nil
    MaxTerm = 3
    MaxElections <- OneTwo
    MaxRounds <- ThreeOne
CHECK_DEADLOCK FALSE
INVARIANTS
    LeaderIndexInRange
    LeaderHeartOpen
    ClosedOnceButUnlocked
