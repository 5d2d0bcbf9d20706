CONSTANTS
    c1 = c1
    c2 = c2
    e1 = e1
    s1 = s1
    NoName = NoName
    Calls = {c1, c2}
    End <- OneEnd
    Names = {s1}
    MaxServers = 2
    MaxToggles = 5
SPECIFICATION NetFairSpec
INVARIANTS OkMeansExecuted
PROPERTIES EveryNetCallReturns
CHECK_DEADLOCK FALSE
