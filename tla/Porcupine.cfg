CONSTANTS
    a = a
    Checks <- MCChecks
    ChunkBits = 2
SPECIFICATION FairSpec
INVARIANTS TypeOK ListAndBitsAgree VerdictRight LongestRight VisualizationRight NoRaceOnLongest
PROPERTIES VerdictGiven
CHECK_DEADLOCK FALSE
