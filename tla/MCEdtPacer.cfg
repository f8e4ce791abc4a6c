\* 12 -> 9 is exactly a quarter, 9 -> 12 is more.
CONSTANTS
  c1 = c1
  c2 = c2
  f1 = f1
  Cpus <- MCCpus
  Flows <- MCFlows
  Packets <- MCPackets
  Rates = {9, 12}
  Scale = 9
  Hdr = 1
  FrameOverhead = 1
  BurstBytes = 2
  DebtCap = 7
  GapNs = 1
  SparseMaxLen = 1
  MaxCost = 5
  MaxBurst = 2
  MaxLead = 1
  MaxSkew = 1
  Word = 64
  Horizon = 4
  MaxPushes = 2
SPECIFICATION Spec
SYMMETRY Symmetry
INVARIANTS
  TypeOK
  DebtBounded
  PaceEnforced
  SmallStepsNeverForgive
PROPERTY NoAmnesty
CHECK_DEADLOCK FALSE
