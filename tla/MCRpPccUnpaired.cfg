CONSTANTS
  t1 = t1
  t2 = t2
  a = a
  b = b
  q1 = q1
  q2 = q2
  Threads = {t1}
  Slots = {0}
  Tags = {a, b}
  Qps <- MCQps
  TagOf <- TwoPairs
  Sparse = {}
  Budgets = {0, 2, 4}
  MinLevel = 2
  MaxRate = 5
  Epoch = 3
  MaxSeen = 2
SPECIFICATION FairSpec
PROPERTY FailsOpenUnpaired
