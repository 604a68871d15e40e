\* Two producers with malloc recycling nodes: the claim of the comment at
\* intr.c:69-70.
CONSTANTS
  Thread = {core, t1, t2}
  Consumer = core
  Producer = {t1, t2}
  Node = {n1, n2, n3, n4}
  NULL = NULL
  Intr = {a}
  NoIntr = NoIntr
  Garbage = {0}
  Recycle = TRUE
  MaxTag = 3
  core = core
  t1 = t1
  t2 = t2
SPECIFICATION Spec
INVARIANT PendingNotEmpty
CHECK_DEADLOCK FALSE
