SPECIFICATION Spec
CONSTANTS
    me = me
    s2 = s2
    s3 = s3
    c1 = c1
    Nil = Nil
    Server = {me, s2, s3}
    Command = {c1}
    MaxTerm = 2
    MaxLog = 2
    MaxUnlocked = 1
    MaxCrashes = 1
PROPERTY PromisesKept
