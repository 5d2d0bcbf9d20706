SPECIFICATION HFairSpec
CONSTANTS
  c1 = c1
  c2 = c2
  k1 = k1
  s1 = s1
  s2 = s2
  Nil = Nil
  Clients <- MCClients
  Keys <- MCKeys
  Strings <- MCTwoStrings
  MaxSeq = 2
INVARIANTS TableAgrees LinearizableButRepeatedPut
PROPERTIES AtomicButRepeatedPut EveryCallReturns
CHECK_DEADLOCK FALSE
