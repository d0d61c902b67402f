CONSTANTS
  w1 = w1  w2 = w2
  a1 = a1  a2 = a2  a3 = a3  b1 = b1
  NoItem = NoItem
  Workers <- MCWorkers
  Items <- MCItems
  NStages = 2
  StageOf <- MCStageOf
  KindOf <- MCKindOf
  Buffered <- MCEager
  MaxCrashes = 1
SPECIFICATION Spec
INVARIANTS
  TypeOK
  SchedulerAssertsHold
  NoUnexpectedMessage
  ItemsDecodedAsSent
  EachItemInOnePlace
  IndexAbsentOnCreate
  IInv
PROPERTIES
  ScatterCompletes
  ImplementsWorkFarm
