SPECIFICATION Spec
CONSTANTS
    s1 = s1
    s2 = s2
    s3 = s3
    Server = {s1, s2, s3}
    Links <- AllLinks
    Command = {}
    Nil = Nil
    MaxTerm = 2
    MaxElections <- Two
    MaxRounds <- Zero
SYMMETRY ServerSymmetry
CHECK_DEADLOCK FALSE
INVARIANTS
    ElectionSafety
