\* Two producers with malloc recycling nodes: the claim of the comment at
\* ms-queue.c:211.
CONSTANTS
  Thread = {core, t1, t2}
  Consumer = core
  Producer = {t1, t2}
  Node = {n1, n2, n3}
  NULL = NULL
  Intr = {a}
  NoIntr = NoIntr
  Garbage = {}
  Recycle = TRUE
  MaxTag = 4
  core = core
  t1 = t1
  t2 = t2
SPECIFICATION Spec
INVARIANT SafeToFree
CHECK_DEADLOCK FALSE
