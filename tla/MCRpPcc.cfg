CONSTANTS
  t1 = t1
  t2 = t2
  a = a
  q1 = q1
  q2 = q2
  q3 = q3
  Threads = {t1, t2}
  Slots = {0}
  Tags = {a}
  Qps <- MCQps
  TagOf <- MCTagOf
  Sparse = {q3}
  Budgets = {0, 4}
  MinLevel = 2
  MaxRate = 5
  Epoch = 3
  MaxSeen = 3
SPECIFICATION Spec
SYMMETRY Symmetry
INVARIANTS
  TypeOK
  SharesBudget
  FillsBudget
