CONSTANTS
  w1 = w1  w2 = w2
  a1 = a1  a2 = a2  a3 = a3  b1 = b1
  NoItem = NoItem
  Workers <- MCWorkers
  Items <- MCThreeItems
  NStages = 1
  StageOf <- MCOneStageOf
  KindOf <- MCMatsubara
  Buffered <- MCEager
  MaxCrashes = 0
SPECIFICATION FairSpec
PROPERTIES
  EveryWorkerExits
