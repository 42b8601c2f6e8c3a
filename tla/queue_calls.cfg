\* As in 2_2.c one thread removes; it also counts.  Two others add.
SPECIFICATION Spec
CONSTANTS
  Adders = {t1, t2, t3}
  Removers = {t1}
  Counters = {t1}
  Values = {v1, v2}
  Nodes = {n1, n2, n3}
  NULL = NULL
  Junk = Junk
  EMPTY = EMPTY
SYMMETRY Symmetry
INVARIANTS
  TypeOK
  ListWhole
PROPERTIES
  ImplementsFifoQueue
