CONSTANTS
  f1 = f1
  f2 = f2
  Flows <- MCFlows
  Top = 3
  Targets <- MCTargets
  Wants <- MCWants
  TreeStub = 3
  Tau = 3
  DtMax = 2
  Heartbeat = 2
  N1 = 3
  N2 = 4
  N3 = 6
  Steps = {0, 1}
SPECIFICATION Spec
SYMMETRY Symmetry
INVARIANTS
  TypeOK
  LimiterOnlyLags
  FailOpenCapped
PROPERTIES
  FirstBudgetWithinGrant
  OutageKeepsFlows
  OutageApproachesTree
