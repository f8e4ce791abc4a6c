CONSTANTS
  flow = flow
  vm = vm
  Flows <- MCFlows
  Vms <- MCVms
  VmOf <- MCVmOf
  Top = 2
  Targets <- MCTargets
  Wants <- MCWants
  TreeStub = 2
  Tau = 2
  DtMax = 1
  Heartbeat = 1
  N1 = 2
  N2 = 3
  N3 = 4
  Steps = {0, 1}
  Caps = {0, 2}
  ReloadTicks = 2
SPECIFICATION FairSpec
PROPERTY RaiseTakesEffect
