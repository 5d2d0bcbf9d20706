SPECIFICATION FairSpec
CONSTANTS
    ldr = ldr
    fol = fol
    o1 = o1
    o2 = o2
    o3 = o3
    a = a
    b = b
    c = c
    d = d
    Nil = Nil
    Server = {ldr, fol, o1, o2, o3}
    Command = {a, b, c, d}
    OldLog <- MCOldLog
    MaxFeeds = 3
    Slots = {1}
    SnapshotPoints = {2}
    MaxLosses = 1
    NewCommands <- MCNewCommands
INVARIANTS
    TypeOK
    EntriesInPlace
    IndicesOrderedButCutBack
    LeaderSurvivesButCutBack
PROPERTIES
    CatchesUpButWindows
CHECK_DEADLOCK FALSE
