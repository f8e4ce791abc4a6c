CONSTANTS
  f1 = f1
  f2 = f2
  f3 = f3
  FlowSets <- MCFlowSets
  Rdma <- MCRdma
  Steady <- MCSteady
  Window = 2
  Lag = 1
  SlowEvery = 1
  LiveTicks = 0
SPECIFICATION FairSpec
INVARIANTS
  TypeOK
  NothingInvented
  TruthInTime
PROPERTIES
  TruthPrevails
