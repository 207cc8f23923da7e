CONSTANTS
  Keys = {k1, k2, k3}
  Data <- MCData
  Capacity <- MCCapacity
SPECIFICATION MCFairSpec
INVARIANTS TypeOK Coherent Accounting
PROPERTIES FitsAfterInsert KeepsPromise LoopIsCachePut EvictsLeastRecent PutReturns
