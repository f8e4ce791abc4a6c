CONSTANTS
  ib = ib
  eth = eth
  Counters <- MCCounters
  Tries = 2
  Keep = 2
  MaxQueries = 2
SPECIFICATION Spec
SYMMETRY Symmetry
INVARIANTS
  TypeOK
  TimesGrow
PROPERTIES
  ImplementsRegister
