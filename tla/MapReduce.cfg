SPECIFICATION JobFairSpec
CONSTANTS
  w1 = w1
  w2 = w2
  NoWorker = NoWorker
  Workers <- MCWorkers
  NMap = 2
  NReduce = 2
  MaxCrashes = 1
  MaxSlow = 1
INVARIANTS CountersRight AssignedIsWatched ReduceSeesAllMaps ResultsComplete
PROPERTY JobEnds
