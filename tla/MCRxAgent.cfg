CONSTANTS
  d1 = d1
  d2 = d2
  f1 = f1
  f2 = f2
  f3 = f3
  DstOf <- MCDstOf
  ClsOf <- MCClsOf
  FlowSets <- MCFlowSets
  Rates = {0, 8, 32}
  Policies <- MCPolicies
  Speeds = {80, 40}
  Headroom = 10
  VTicks = 1
  DeltaDen = 4
  GammaDen = 4
  Grace = 1
  SlowEvery = 2
  Steps = {1}
  Unlimited = 100000
  LevelUnit = 6
SPECIFICATION FairSpec
INVARIANTS
  TypeOK
  GrantsFit
  JointCeilings
  GrantIsCappedCeiling
  GrantsExhaust
  NeverBelowShare
  BigIsInfinite
PROPERTIES
  MarksFollowCeilings
  MarksDieOut
  ImplementsPermit
