SPECIFICATION FairSpec
CONSTANTS
    s1 = s1
    c1 = c1
    c2 = c2
    c3 = c3
    c4 = c4
    Nil = Nil
    Server = {s1}
    Command = {c1, c2, c3, c4}
    AgreedLog <- MCAgreedLog
    LeaderTerm = 3
    SnapShotInterval = 2
    MaxAppends = 3
    MaxInstalls = 1
    MaxRestarts = 1
INVARIANTS
    TypeOK
    CollectedAgreed
    SoundButWindows
    AppliedInStepButWindows
PROPERTIES
    SnapshotNeverBack
    EveryCommitApplied
CHECK_DEADLOCK FALSE
