SPECIFICATION HeartSpec
CONSTANTS
    s1 = s1
    s2 = s2
    s3 = s3
    a = a
    b = b
    Server = {s1, s2, s3}
    Links <- ChainLinks
    Command = {a, b}
    Nil = Nil
    MaxTerm = 2
    MaxElections <- OneThenTwo
    MaxRounds <- TwoThenOne
SYMMETRY CommandSymmetry
CONSTRAINT NoWindow
CHECK_DEADLOCK FALSE
INVARIANTS
    VoteOnce
    VoteCountSound
    ElectionSafetyButWindows
    LogSafetyButWindows
PROPERTIES
    CommittedKept
