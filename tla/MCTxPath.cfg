CONSTANTS
  tcp = tcp
  rdma = rdma
  Flows <- MCFlows
  TcpFlows <- MCTcpFlows
  Top = 1
  Targets <- MCTargets
  Wants <- MCWants
  TreeStub = 1
  Tau = 1
  DtMax = 1
  Heartbeat = 1
  N1 = 1
  N2 = 2
  N3 = 3
  Steps = {1}
  PushTicks = 1
  MaxRestarts = 1
SPECIFICATION OperatedSpec
INVARIANT PathTypeOK
PROPERTIES
  UnsetIsRepaced
  BudgetsSurviveRestart
  OutageEndsAtTree
